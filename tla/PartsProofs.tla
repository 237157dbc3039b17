----------------------------- MODULE PartsProofs -----------------------------
(***************************************************************************)
(* What TLAPS proves, for every value of their constants, of the parts     *)
(* that MCParts puts together for TLC: the session launcher, the control   *)
(* socket, the clipboard, the cut of a long text, keyboard input,          *)
(* workspaces, certificate pinning and framing.  No part reads what        *)
(* another writes, and each theorem is about the specification of one      *)
(* part.                                                                   *)
(***************************************************************************)
EXTENDS KeyRouting, Clipboard, ClipText, Launcher, Admin, PinStore, Framing, Workspaces,
        RenderProofs, FiniteSetTheorems, SequenceTheorems, TLAPS

(***************************************************************************)
(* The session launcher.  The events of the token alternate, so that a new *)
(* session is only ever requested of a wrsessd that manages none.          *)
(***************************************************************************)
LauncherTypes ==
  /\ live \in BOOLEAN /\ up \in BOOLEAN
  /\ events \in Seq({"created", "destroyed"})
  /\ managed \in {NoSession} \cup SUBSET Program /\ procs \subseteq Program
  /\ started \in 0..MaxProcs /\ faults \in Nat

Alternating ==
  /\ up
  /\ \A k \in 1..(Len(events) - 1) : events[k] # events[k + 1]
  /\ events # <<>> => (events[Len(events)] = "created" <=> live)
  /\ events = <<>> /\ managed # NoSession => live
  /\ events # <<>> /\ events[1] = "created" => managed = NoSession

Owned == procs \subseteq (IF managed = NoSession THEN {} ELSE managed)

LauncherInv == LauncherTypes /\ (faults = 0 => Alternating /\ Owned)

-----------------------------------------------------------------------------
(***************************************************************************)
(* The control socket.  The slot the thread waits at is that of the latest *)
(* query, whose answer is taken from the registry after the request.       *)
(***************************************************************************)
AdminTypes ==
  /\ registry \in Nat /\ queries \in Nat /\ slot \in Nat
  /\ backlog \in Seq(Clients) /\ cur \in Clients \cup {NoClient}
  /\ asked \in [Clients -> Nat \cup {-1}]
  /\ rx \in Seq(Nat) /\ filled \subseteq Nat \X Nat /\ answers \subseteq Nat \X (Nat \cup {-1})

AdminInv ==
  /\ AdminTypes /\ AnswerIsRecent
  /\ \A c \in Clients : asked[c] <= registry
  /\ \A k \in 1..Len(rx) : rx[k] <= queries
  /\ \A f \in filled : f[1] <= queries /\ f[2] <= registry
  /\ slot # 0 => /\ slot = queries /\ cur # NoClient /\ asked[cur] # -1
                 /\ \A f \in filled : f[1] = slot => f[2] >= asked[cur]

-----------------------------------------------------------------------------
(***************************************************************************)
(* The clipboard.  An application's text is on a terminal's clipboard only *)
(* as what the terminal was sent and has remembered.                       *)
(***************************************************************************)
Remembered == \A t \in Terminals : os[t] \in AppTexts => os[t] = last_text[t]

\* What a terminal may send up.
Upload == [what : Contents, at : Terminals]

ClipTypes ==
  /\ selection.by = "app" => selection.what \in Contents
  /\ \A r \in readers : r.what \in Contents
  /\ to_net \in Seq(Contents) /\ to_terminal \in Seq(Contents)
  /\ from_terminal \in Seq(Upload)
  /\ os \in [Terminals -> Contents \cup {Empty}] /\ last_text \in [Terminals -> Contents \cup {Empty}]
  /\ connected \in Terminals \cup {NoTerminal} /\ refusals \in Nat

ClipInv == ClipTypes /\ (refusals = 0 => Remembered /\ NoEcho)

-----------------------------------------------------------------------------
(***************************************************************************)
(* Keyboard input.  The last message about a key tells whether it is down. *)
(***************************************************************************)
Mentions(q, k) == \E i \in 1..Len(q) : q[i].key = k

SaysLast(q, k, is) ==
  \E i \in 1..Len(q) : q[i] = Event(k, is) /\ \A j \in (i + 1)..Len(q) : q[j].key # k

KeyMessage == [key : Keys \cup Mods, pressed : BOOLEAN]

KeyTypes ==
  /\ down \subseteq Keys \cup Mods /\ modifiers = down \cap Mods
  /\ queue \in Seq(KeyMessage) /\ wire \in Seq(KeyMessage)
  /\ link \in {"up", "broken", "down"} /\ breaks \in Nat
  /\ seat \subseteq Keys \cup Mods /\ pressed_keys = seat
  /\ held \subseteq Mods /\ keybindings \subseteq Bindable

\* What is said last of a key, on its way from the user to the seat.
Pending(k, is) ==
  \/ SaysLast(queue, k, is)
  \/ ~ Mentions(queue, k) /\ SaysLast(wire, k, is)

Arrived(k) == ~ Mentions(queue, k) /\ ~ Mentions(wire, k)

\* Nothing is said to be pressed, or has arrived as pressed, that is not down.
Releases ==
  /\ \A k \in Keys \cup Mods : SaysLast(queue, k, TRUE) => k \in down
  /\ link # "broken" =>
       \A k \in Keys \cup Mods : /\ Pending(k, TRUE) => k \in down
                                 /\ Arrived(k) /\ k \in held => k \in down
                                 /\ Arrived(k) /\ k \in seat \ BoundKeys => k \in down

\* Before the first break, nothing is missing either.
Presses ==
  /\ link = "up"
  /\ \A m \in Mods : /\ Pending(m, FALSE) => m \notin down
                     /\ Arrived(m) /\ m \in down => m \in held
                     /\ Arrived(m) /\ m \in down \ BoundKeys => m \in seat

KeyInv == KeyTypes /\ Releases /\ (breaks = 0 => Presses)

-----------------------------------------------------------------------------
(***************************************************************************)
(* Sequences.                                                              *)
(***************************************************************************)
LEMMA AppendFacts ==
  ASSUME NEW S, NEW q \in Seq(S), NEW x \in S
  PROVE  /\ Append(q, x) \in Seq(S) /\ Len(Append(q, x)) = Len(q) + 1 /\ Append(q, x) # <<>>
         /\ \A k \in 1..Len(q) : Append(q, x)[k] = q[k]
         /\ Append(q, x)[Len(q) + 1] = x
  <1>1. /\ Append(q, x) \in Seq(S) /\ Len(Append(q, x)) = Len(q) + 1
        /\ \A k \in 1..Len(q) : Append(q, x)[k] = q[k]
        /\ Append(q, x)[Len(q) + 1] = x
    BY AppendProperties
  <1>2. Append(q, x) # <<>>
    BY <1>1, LenProperties, EmptySeq
  <1> QED
    BY <1>1, <1>2

LEMMA TailFacts ==
  ASSUME NEW S, NEW q \in Seq(S), q # <<>>
  PROVE  /\ Len(q) \in Nat \ {0} /\ Head(q) = q[1] /\ q[1] \in S
         /\ Tail(q) \in Seq(S) /\ Len(Tail(q)) = Len(q) - 1
         /\ Tail(q) = <<>> <=> Len(q) = 1
         /\ \A k \in 1..(Len(q) - 1) : Tail(q)[k] = q[k + 1]
  <1>1. Len(q) \in Nat \ {0}
    BY EmptySeq, LenProperties
  <1>2. /\ Head(q) = q[1] /\ q[1] \in S /\ Tail(q) \in Seq(S) /\ Len(Tail(q)) = Len(q) - 1
        /\ \A k \in 1..Len(Tail(q)) : Tail(q)[k] = q[k + 1]
    BY <1>1, HeadTailProperties, ElementOfSeq
  <1>3. Tail(q) = <<>> <=> Len(Tail(q)) = 0
    BY <1>2, EmptySeq
  <1> QED
    BY <1>1, <1>2, <1>3

(***************************************************************************)
(* The session launcher.                                                   *)
(***************************************************************************)

\* An event is added at the end.
LEMMA QueuedInv ==
  ASSUME LauncherInv, NEW e \in {"created", "destroyed"}, events' = Append(events, e),
         live = (e = "destroyed"), live' = (e = "created"),
         UNCHANGED <<up, managed, procs, started, faults>>
  PROVE  LauncherInv'
  <1>1. LauncherTypes /\ events \in Seq({"created", "destroyed"}) /\ Len(events) \in Nat
    BY LenProperties DEF LauncherInv, LauncherTypes
  <1>2. /\ events' \in Seq({"created", "destroyed"}) /\ Len(events') = Len(events) + 1 /\ events' # <<>>
        /\ \A k \in 1..Len(events) : events'[k] = events[k]
        /\ events'[Len(events) + 1] = e
    BY <1>1, AppendFacts
  <1>3. LauncherTypes'
    BY <1>1, <1>2 DEF LauncherTypes
  <1>4. ASSUME faults = 0 PROVE Alternating'
    <2>1. Alternating
      BY <1>4 DEF LauncherInv
    <2>2. ASSUME NEW k \in 1..(Len(events') - 1) PROVE events'[k] # events'[k + 1]
      <3>1. CASE k < Len(events)
        BY <1>1, <1>2, <2>1, <3>1 DEF Alternating
      <3>2. CASE k = Len(events)
        <4>1. events # <<>> /\ events'[k] = events[k] /\ events'[k + 1] = e
          BY <1>1, <1>2, <3>2, EmptySeq
        <4>2. events[k] = "created" <=> live
          BY <2>1, <3>2, <4>1 DEF Alternating
        <4> QED
          BY <4>1, <4>2
      <3> QED
        BY <1>1, <1>2, <3>1, <3>2
    <2>3. events' # <<>> /\ (events'[Len(events')] = "created" <=> live')
      BY <1>2
    <2>4. events'[1] = "created" => managed' = NoSession
      <3>1. CASE events = <<>>
        <4>1. events'[1] = e
          BY <1>2, <3>1, EmptySeq
        <4>2. managed # NoSession => live
          BY <2>1, <3>1 DEF Alternating
        <4> QED
          BY <4>1, <4>2
      <3>2. CASE events # <<>>
        <4>1. events'[1] = events[1]
          BY <1>1, <1>2, <3>2, EmptySeq
        <4> QED
          BY <2>1, <3>2, <4>1 DEF Alternating
      <3> QED
        BY <3>1, <3>2
    <2> QED
      BY <2>1, <2>2, <2>3, <2>4 DEF Alternating
  <1> QED
    BY <1>3, <1>4 DEF LauncherInv, Owned

\* The worker takes an event off the front.
LEMMA WorkerInv == ASSUME LauncherInv, worker PROVE LauncherInv'
  <1>1. /\ LauncherTypes /\ events # <<>> /\ events' = Tail(events)
        /\ UNCHANGED <<live, up, faults>>
    BY DEF LauncherInv, worker
  <1>2. /\ Len(events) \in Nat \ {0} /\ Head(events) = events[1] /\ events[1] \in {"created", "destroyed"}
        /\ events' \in Seq({"created", "destroyed"}) /\ Len(events') = Len(events) - 1
        /\ events' = <<>> <=> Len(events) = 1
        /\ \A k \in 1..(Len(events) - 1) : events'[k] = events[k + 1]
    BY <1>1, TailFacts DEF LauncherTypes
  <1>3. /\ managed' \in {NoSession} \cup SUBSET Program /\ procs' \subseteq Program
        /\ started' \in 0..MaxProcs
    <2>1. CASE handle_session_requested
      <3>1. [n |-> started', kind |-> "greeter"] \in Program \/ UNCHANGED <<started, procs>>
        BY <1>1, <2>1, LauncherAssumption DEF handle_session_requested, Spawn, Program, LauncherTypes
      <3> QED
        BY <1>1, <2>1, <3>1, LauncherAssumption DEF handle_session_requested, Spawn, LauncherTypes
    <2>2. CASE handle_session_logout
      BY <1>1, <2>2 DEF handle_session_logout, LauncherTypes
    <2>3. CASE UNCHANGED <<managed, procs, started>>
      BY <1>1, <2>3 DEF LauncherTypes
    <2> QED
      BY <2>1, <2>2, <2>3 DEF worker
  <1>4. LauncherTypes'
    BY <1>1, <1>2, <1>3 DEF LauncherTypes
  <1>5. ASSUME faults = 0 PROVE Alternating' /\ Owned'
    <2>1. Alternating /\ Owned /\ up
      BY <1>5 DEF LauncherInv, Alternating
    <2>2. \A k \in 1..(Len(events') - 1) : events'[k] # events'[k + 1]
      BY <1>2, <2>1 DEF Alternating
    <2>3. events' # <<>> => (events'[Len(events')] = "created" <=> live')
      <3> SUFFICES ASSUME events' # <<>> PROVE events'[Len(events')] = "created" <=> live'
        OBVIOUS
      <3>1. events'[Len(events')] = events[Len(events)]
        BY <1>2
      <3> QED
        BY <1>1, <2>1, <3>1 DEF Alternating
    <2>4. events' # <<>> => events'[1] = events[2] /\ events[1] # events[2]
      <3> SUFFICES ASSUME events' # <<>> PROVE events'[1] = events[2] /\ events[1] # events[2]
        OBVIOUS
      <3>1. 1 \in 1..(Len(events) - 1)
        BY <1>2
      <3>2. events[1] # events[1 + 1] /\ events'[1] = events[1 + 1]
        BY <1>2, <2>1, <3>1 DEF Alternating
      <3> QED
        BY <3>2
    <2>5. CASE events[1] = "created"
      <3>1. managed = NoSession /\ procs = {}
        BY <1>1, <1>5, <2>1, <2>5 DEF Alternating, Owned
      <3>2. handle_session_requested
        BY <1>2, <2>1, <2>5 DEF worker
      <3>3. managed' # NoSession /\ procs' \subseteq managed'
        <4>1. managed' \in SUBSET Program /\ procs' \subseteq managed'
          BY <1>1, <3>1, <3>2, LauncherAssumption DEF handle_session_requested, Spawn, Program, LauncherTypes
        <4> QED
          BY <4>1, LauncherAssumption
      <3>4. events' = <<>> => live'
        BY <1>1, <1>2, <2>1, <2>5 DEF Alternating
      <3>5. ~ (events' # <<>> /\ events'[1] = "created")
        BY <2>4, <2>5
      <3> QED
        BY <1>1, <2>1, <2>2, <2>3, <3>3, <3>4, <3>5 DEF Alternating, Owned
    <2>6. CASE events[1] = "destroyed"
      <3>1. handle_session_logout
        BY <1>2, <2>1, <2>6 DEF worker
      <3>2. managed' = NoSession /\ procs' = {}
        BY <1>5, <2>1, <3>1 DEF handle_session_logout, Owned
      <3> QED
        BY <1>1, <2>1, <2>2, <2>3, <3>2 DEF Alternating, Owned
    <2> QED
      BY <1>2, <2>5, <2>6
  <1> QED
    BY <1>1, <1>4, <1>5 DEF LauncherInv

\* A login adds a program to the session there is.
LEMMA LoginInv ==
  ASSUME LauncherInv, NEW token, handle_session_authenticated(token) PROVE LauncherInv'
  <1>1. LauncherTypes /\ UNCHANGED <<live, events, up, faults>>
    BY DEF LauncherInv, handle_session_authenticated
  <1>2. CASE UNCHANGED <<managed, procs, started>>
    BY <1>1, <1>2 DEF LauncherInv, LauncherTypes, Alternating, Owned
  <1>3. CASE managed # NoSession /\ Spawn("desktop", managed)
    <2>1. managed \in SUBSET Program
      BY <1>1, <1>3 DEF LauncherTypes
    <2>2. /\ managed' \in SUBSET Program /\ procs' \subseteq Program /\ started' \in 0..MaxProcs
          /\ procs \subseteq managed => procs' \subseteq managed'
      <3>1. [n |-> started', kind |-> "desktop"] \in Program \/ UNCHANGED <<started, procs>>
        BY <1>1, <1>3, LauncherAssumption DEF Spawn, Program, LauncherTypes
      <3> QED
        BY <1>1, <1>3, <2>1, <3>1, LauncherAssumption DEF Spawn, LauncherTypes
    <2>3. managed' # NoSession
      BY <2>2, LauncherAssumption
    <2> QED
      BY <1>1, <1>3, <2>2, <2>3 DEF LauncherInv, LauncherTypes, Alternating, Owned
  <1> QED
    BY <1>2, <1>3 DEF handle_session_authenticated

LEMMA LauncherStep == ASSUME LauncherInv, [LauncherNext]_launcherVars PROVE LauncherInv'
  <1>1. CASE UNCHANGED launcherVars
    BY <1>1 DEF LauncherInv, LauncherTypes, Alternating, Owned, launcherVars
  <1>2. CASE session_created
    BY <1>2, QueuedInv DEF session_created, LauncherInv, LauncherTypes
  <1>3. CASE session_destroyed
    BY <1>3, QueuedInv DEF session_destroyed, LauncherInv, LauncherTypes
  <1>4. CASE GreeterLogin \/ OtherLogin
    BY <1>4, LoginInv DEF GreeterLogin, OtherLogin
  <1>5. CASE kill_session
    BY <1>5 DEF kill_session, LauncherInv, LauncherTypes, Alternating, Owned
  <1>6. ASSUME NEW p \in Program, Exit(p) PROVE LauncherInv'
    BY <1>6 DEF Exit, LauncherInv, LauncherTypes, Alternating, Owned
  <1>7. CASE LauncherCrash \/ ServerRestart
    <2>1. LauncherTypes /\ faults' = faults + 1 /\ UNCHANGED <<procs, started>>
      BY <1>7 DEF LauncherInv, LauncherCrash, ServerRestart
    <2>2. faults' \in Nat /\ faults' # 0
      BY <2>1 DEF LauncherTypes
    <2>3. <<>> \in Seq({"created", "destroyed"})
      BY EmptySeq
    <2>4. LauncherTypes'
      BY <1>7, <2>1, <2>2, <2>3 DEF LauncherTypes, LauncherCrash, ServerRestart
    <2> QED
      BY <2>2, <2>4 DEF LauncherInv
  <1>8. CASE LauncherStart
    BY <1>8 DEF LauncherStart, LauncherInv, LauncherTypes, Alternating, Owned
  <1> QED
    BY <1>1, <1>2, <1>3, <1>4, <1>5, <1>6, <1>7, <1>8, WorkerInv DEF LauncherNext

\* As long as nothing crashes, the programs of the token that run are those of
\* the session wrsessd manages: handle_session_requested replaces the entry of
\* the token without killing anything, and yet never leaves a program behind;
\* and while programs outlive their session its logout is queued, behind which
\* nothing brings them back.
THEOREM NoProgramOrphaned == LauncherSpec => []NoOrphans
  <1>1. LauncherInit => LauncherInv
    <2> SUFFICES ASSUME LauncherInit PROVE LauncherInv
      OBVIOUS
    <2>1. events \in Seq({"created", "destroyed"}) /\ Len(events) = 0
      BY EmptySeq DEF LauncherInit
    <2>2. LauncherTypes
      <3>1. 0 \in 0..MaxProcs
        BY LauncherAssumption
      <3> QED
        BY <2>1, <3>1 DEF LauncherInit, LauncherTypes
    <2>3. \A k \in 1..(Len(events) - 1) : events[k] # events[k + 1]
      BY <2>1
    <2>4. Alternating
      BY <2>3 DEF LauncherInit, Alternating
    <2>5. Owned
      BY DEF LauncherInit, Owned
    <2> QED
      BY <2>2, <2>4, <2>5 DEF LauncherInv
  <1>2. LauncherInv /\ [LauncherNext]_launcherVars => LauncherInv'
    BY LauncherStep
  <1>3. LauncherInv => NoOrphans
    <2> SUFFICES ASSUME LauncherInv, faults = 0
                 PROVE  /\ Owned
                        /\ ~ live /\ procs # {} =>
                             events # <<>> /\ events[Len(events)] = "destroyed"
      BY DEF NoOrphans, Owned
    <2>1. Alternating /\ Owned
      BY DEF LauncherInv
    <2>2. ASSUME ~ live, procs # {} PROVE events # <<>> /\ events[Len(events)] = "destroyed"
      <3>1. events # <<>> /\ events[Len(events)] # "created"
        BY <2>1, <2>2 DEF Alternating, Owned
      <3>2. events[Len(events)] \in {"created", "destroyed"}
        BY <3>1, EmptySeq, LenProperties DEF LauncherInv, LauncherTypes
      <3> QED
        BY <3>1, <3>2
    <2> QED
      BY <2>1, <2>2
  <1> QED
    BY <1>1, <1>2, <1>3, PTL DEF LauncherSpec

(***************************************************************************)
(* The control socket.                                                     *)
(***************************************************************************)

\* wradm dials or asks, the thread accepts: no query is made or answered.
LEMMA ClientInv ==
  ASSUME AdminInv, NEW c \in Clients, Dial(c) \/ send_json(c) \/ HangUp(c) \/ serve_json
  PROVE  AdminInv'
  <1>1. AdminTypes /\ UNCHANGED <<registry, queries, rx, slot, filled, answers>>
    BY DEF AdminInv, Dial, send_json, HangUp, serve_json
  <1>2. CASE Dial(c)
    <2>1. backlog' \in Seq(Clients)
      BY <1>1, <1>2, AppendFacts DEF Dial, AdminTypes
    <2>2. AdminTypes'
      BY <1>1, <1>2, <2>1 DEF Dial, AdminTypes
    <2> QED
      BY <1>1, <1>2, <2>2 DEF Dial, AdminInv, AnswerIsRecent
  <1>3. CASE send_json(c)
    <2>1. /\ asked' = [asked EXCEPT ![c] = registry] /\ asked[c] = -1
          /\ UNCHANGED <<backlog, cur>> /\ registry \in Nat
      BY <1>1, <1>3 DEF send_json, AdminTypes
    <2>2. AdminTypes'
      BY <1>1, <2>1 DEF AdminTypes
    <2>3. \A d \in Clients : asked'[d] <= registry
      BY <1>1, <2>1 DEF AdminTypes, AdminInv
    <2>4. slot # 0 => asked'[cur] = asked[cur]
      BY <1>1, <2>1 DEF AdminTypes, AdminInv
    <2> QED
      BY <1>1, <2>1, <2>2, <2>3, <2>4 DEF AdminInv, AnswerIsRecent
  <1>4. CASE HangUp(c)
    BY <1>1, <1>4 DEF HangUp, AdminInv, AdminTypes, AnswerIsRecent
  <1>5. CASE serve_json
    <2>1. Head(backlog) \in Clients /\ Tail(backlog) \in Seq(Clients)
      BY <1>1, <1>5, TailFacts DEF serve_json, AdminTypes
    <2>2. slot = 0
      BY <1>5 DEF serve_json, AdminInv
    <2>3. AdminTypes'
      BY <1>1, <1>5, <2>1 DEF serve_json, AdminTypes
    <2> QED
      BY <1>1, <1>5, <2>2, <2>3 DEF serve_json, AdminInv, AnswerIsRecent
  <1> QED
    BY <1>2, <1>3, <1>4, <1>5

\* Every query has a slot of its own, which nothing has been put into.
LEMMA DispatchInv == ASSUME AdminInv, dispatch PROVE AdminInv'
  <1>1. /\ AdminTypes /\ cur # NoClient /\ asked[cur] # -1
        /\ queries' = queries + 1 /\ slot' = queries + 1 /\ rx' = Append(rx, queries + 1)
        /\ UNCHANGED <<registry, backlog, cur, asked, filled, answers>>
    BY DEF AdminInv, dispatch
  <1>2. queries \in Nat /\ queries' \in Nat /\ rx \in Seq(Nat) /\ Len(rx) \in Nat
    BY <1>1, LenProperties DEF AdminTypes
  <1>3. /\ rx' \in Seq(Nat) /\ Len(rx') = Len(rx) + 1
        /\ \A k \in 1..Len(rx) : rx'[k] = rx[k]
        /\ rx'[Len(rx) + 1] = queries + 1
    BY <1>1, <1>2, AppendFacts
  <1>4. AdminTypes'
    BY <1>1, <1>2, <1>3 DEF AdminTypes
  <1>5. \A k \in 1..Len(rx') : rx'[k] <= queries'
    <2> SUFFICES ASSUME NEW k \in 1..Len(rx') PROVE rx'[k] <= queries'
      OBVIOUS
    <2>1. CASE k \in 1..Len(rx)
      <3>1. rx[k] <= queries /\ rx[k] \in Nat /\ rx'[k] = rx[k]
        BY <1>2, <1>3, <2>1, ElementOfSeq DEF AdminInv
      <3> QED
        BY <1>1, <1>2, <3>1
    <2>2. CASE k = Len(rx) + 1
      BY <1>1, <1>2, <1>3, <2>2
    <2> QED
      BY <1>2, <1>3, <2>1, <2>2
  <1>6. \A f \in filled : f[1] \in Nat /\ f[1] <= queries' /\ f[1] # slot'
    BY <1>1, <1>2 DEF AdminInv, AdminTypes
  <1> QED
    BY <1>1, <1>2, <1>4, <1>5, <1>6 DEF AdminInv, AnswerIsRecent

\* The client gets an answer that is an error or recent.
LEMMA RespondInv ==
  ASSUME AdminInv, slot # 0, NEW snapshot \in Nat \cup {-1}, snapshot = -1 \/ snapshot >= asked[cur],
         Respond(snapshot), filled' \subseteq filled, UNCHANGED <<registry, backlog, cur, queries, rx>>
  PROVE  AdminInv'
  <1>1. /\ AdminTypes /\ cur \in Clients /\ asked[cur] \in Nat
        /\ answers' = answers \cup {<<asked[cur], snapshot>>}
        /\ asked' = [asked EXCEPT ![cur] = -1] /\ slot' = 0
    BY DEF AdminInv, AdminTypes, Respond
  <1>2. AdminTypes'
    BY <1>1 DEF AdminTypes
  <1>3. \A c \in Clients : asked'[c] <= registry
    BY <1>1 DEF AdminTypes, AdminInv
  <1>4. AnswerIsRecent'
    BY <1>1 DEF AdminInv, AnswerIsRecent
  <1> QED
    BY <1>1, <1>2, <1>3, <1>4 DEF AdminInv

LEMMA CompositorInv == ASSUME AdminInv, RegistryChanges \/ drain_admin_queries PROVE AdminInv'
  <1>1. AdminTypes /\ UNCHANGED <<backlog, cur, asked, queries, slot, answers>>
    BY DEF AdminInv, RegistryChanges, drain_admin_queries
  <1>2. CASE RegistryChanges
    <2>1. registry \in Nat /\ registry' = registry + 1 /\ UNCHANGED <<rx, filled>>
      BY <1>1, <1>2 DEF RegistryChanges, AdminTypes
    <2>2. AdminTypes'
      BY <1>1, <2>1 DEF AdminTypes
    <2>3. \A c \in Clients : asked[c] <= registry'
      BY <1>1, <2>1 DEF AdminTypes, AdminInv
    <2>4. \A f \in filled : f[2] <= registry'
      BY <1>1, <2>1 DEF AdminTypes, AdminInv
    <2> QED
      BY <1>1, <2>1, <2>2, <2>3, <2>4 DEF AdminInv, AnswerIsRecent
  <1>3. CASE drain_admin_queries
    <2>1. rx # <<>> /\ rx' = Tail(rx) /\ filled' = filled \cup {<<Head(rx), registry>>} /\ registry' = registry
      BY <1>3 DEF drain_admin_queries
    <2>2. /\ Len(rx) \in Nat \ {0} /\ Head(rx) = rx[1] /\ rx[1] \in Nat
          /\ rx' \in Seq(Nat) /\ Len(rx') = Len(rx) - 1
          /\ \A k \in 1..(Len(rx) - 1) : rx'[k] = rx[k + 1]
      BY <1>1, <2>1, TailFacts DEF AdminTypes
    <2>3. AdminTypes'
      BY <1>1, <2>1, <2>2 DEF AdminTypes
    <2>4. ASSUME NEW k \in 1..Len(rx') PROVE rx'[k] <= queries
      <3>1. k \in 1..(Len(rx) - 1) /\ k + 1 \in 1..Len(rx)
        BY <2>2
      <3> QED
        BY <2>2, <3>1 DEF AdminInv
    <2>5. rx[1] <= queries
      BY <2>2 DEF AdminInv
    <2>6. slot # 0 => registry >= asked[cur]
      BY <1>1 DEF AdminInv, AdminTypes
    <2>7. registry <= registry
      BY <1>1 DEF AdminTypes
    <2>8. \A f \in filled' : f[1] <= queries /\ f[2] <= registry /\ (slot # 0 /\ f[1] = slot => f[2] >= asked[cur])
      BY <2>1, <2>2, <2>5, <2>6, <2>7 DEF AdminInv
    <2> QED
      BY <1>1, <2>1, <2>3, <2>4, <2>8 DEF AdminInv, AnswerIsRecent
  <1> QED
    BY <1>2, <1>3

LEMMA AdminStep == ASSUME AdminInv, [AdminNext]_adminVars PROVE AdminInv'
  <1>1. CASE UNCHANGED adminVars
    BY <1>1 DEF AdminInv, AdminTypes, AnswerIsRecent, adminVars
  <1>2. CASE Reply
    <2>1. PICK f \in filled : f[1] = slot /\ filled' = filled \ {f} /\ Respond(f[2])
      BY <1>2 DEF Reply
    <2>2. slot # 0 /\ UNCHANGED <<registry, backlog, cur, queries, rx>>
      BY <1>2 DEF Reply
    <2>3. f[2] \in Nat /\ f[2] >= asked[cur]
      BY <2>1, <2>2 DEF AdminInv, AdminTypes
    <2> QED
      BY <2>1, <2>2, <2>3, RespondInv
  <1>3. CASE ReplyTimeout
    BY <1>3, RespondInv DEF ReplyTimeout
  <1>4. CASE serve_json
    <2>1. \E c \in Clients : TRUE
      BY <1>4, TailFacts DEF serve_json, AdminInv, AdminTypes
    <2> QED
      BY <1>4, <2>1, ClientInv
  <1> QED
    BY <1>1, <1>2, <1>3, <1>4, ClientInv, DispatchInv, CompositorInv DEF AdminNext

\* An answer shows the registry as it was after the request: one that came too
\* late for a request is in that request's slot, and no other reads it.
THEOREM AnswersAreRecent == AdminSpec => []AnswerIsRecent
  <1>1. ASSUME AdminInit PROVE AdminInv
    <2>1. rx \in Seq(Nat) /\ Len(rx) = 0 /\ backlog \in Seq(Clients)
      BY <1>1, EmptySeq DEF AdminInit
    <2>2. AdminTypes
      BY <1>1, <2>1 DEF AdminInit, AdminTypes
    <2>3. \A k \in 1..Len(rx) : rx[k] <= queries
      BY <2>1
    <2> QED
      BY <1>1, <2>2, <2>3 DEF AdminInit, AdminInv, AnswerIsRecent
  <1>2. AdminInv /\ [AdminNext]_adminVars => AdminInv'
    BY AdminStep
  <1>3. AdminInv => AnswerIsRecent
    BY DEF AdminInv
  <1> QED
    BY <1>1, <1>2, <1>3, PTL DEF AdminSpec

(***************************************************************************)
(* The clipboard.                                                          *)
(***************************************************************************)

\* Truncation keeps a content one.
LEMMA CappedContent == ASSUME NEW x \in Contents PROVE capped(x) \in Contents
  BY DEF capped, Contents

\* The session and the relay: nothing that a terminal holds or sends changes.
LEMMA SessionInv ==
  ASSUME ClipInv, UNCHANGED <<os, last_text, refusals>>,
         from_terminal' = from_terminal \/ from_terminal' = <<>>
                                        \/ (from_terminal # <<>> /\ from_terminal' = Tail(from_terminal)),
         connected' \in Terminals \cup {NoTerminal},
         to_net' \in Seq(Contents), to_terminal' \in Seq(Contents),
         selection'.by = "app" => selection'.what \in Contents, \A r \in readers' : r.what \in Contents
  PROVE  ClipInv'
  <1>1. ClipTypes
    BY DEF ClipInv
  <1>2. /\ from_terminal \in Seq(Upload) /\ from_terminal' \in Seq(Upload)
        /\ NoEcho => NoEcho'
    <2>1. from_terminal \in Seq(Upload) /\ <<>> \in Seq(Upload) /\ DOMAIN from_terminal = 1..Len(from_terminal)
      BY <1>1, EmptySeq, LenProperties DEF ClipTypes
    <2>2. CASE from_terminal' = from_terminal
      BY <2>1, <2>2 DEF NoEcho
    <2>3. CASE from_terminal' = <<>>
      <3>1. DOMAIN from_terminal' = {}
        BY <2>3
      <3> QED
        BY <2>1, <2>3, <3>1 DEF NoEcho
    <2>4. CASE from_terminal # <<>> /\ from_terminal' = Tail(from_terminal)
      <3>1. /\ from_terminal' \in Seq(Upload) /\ Len(from_terminal') = Len(from_terminal) - 1
            /\ Len(from_terminal) \in Nat
            /\ \A k \in 1..(Len(from_terminal) - 1) : from_terminal'[k] = from_terminal[k + 1]
        BY <2>1, <2>4, TailFacts
      <3>2. DOMAIN from_terminal' = 1..Len(from_terminal')
        BY <3>1, LenProperties
      <3>3. \A k \in DOMAIN from_terminal' : k + 1 \in DOMAIN from_terminal /\ from_terminal'[k] = from_terminal[k + 1]
        BY <2>1, <3>1, <3>2
      <3>4. ASSUME NoEcho, refusals' = 0, NEW k \in DOMAIN from_terminal'
            PROVE  from_terminal'[k].what \notin AppTexts
        BY <3>3, <3>4, <1>1 DEF NoEcho
      <3>5. NoEcho => NoEcho'
        BY <3>4 DEF NoEcho
      <3> QED
        BY ONLY <2>1, <3>1, <3>5, Zenon
    <2> QED
      BY <2>2, <2>3, <2>4
  <1>3. ClipTypes'
    BY <1>1, <1>2 DEF ClipTypes
  <1> QED
    BY <1>2, <1>3 DEF ClipInv, Remembered

\* A terminal sends up what it has not been sent.
LEMMA CaptureInv == ASSUME ClipInv, capture_if_changed PROVE ClipInv'
  <1>1. /\ ClipTypes /\ connected \in Terminals
        /\ UNCHANGED <<selection, readers, os, to_net, connected, to_terminal, refusals>>
    BY DEF ClipInv, ClipTypes, capture_if_changed, sessionVars, channelVars, clipBounds
  <1>2. CASE os[connected] \in {Empty, last_text[connected]}
    BY <1>1, <1>2, SessionInv DEF capture_if_changed, ClipTypes
  <1>3. CASE os[connected] \notin {Empty, last_text[connected]}
    <2> DEFINE sent_up == [what |-> capped(os[connected]), at |-> connected]
    <2>1. /\ last_text' = [last_text EXCEPT ![connected] = os[connected]]
          /\ from_terminal' = Append(from_terminal, sent_up)
      BY <1>3 DEF capture_if_changed
    <2>2. os[connected] \in Contents /\ sent_up \in Upload
      BY <1>1, <1>3, CappedContent DEF ClipTypes, Upload
    <2>3. Remembered => capped(os[connected]) \notin AppTexts
      BY <1>1, <1>3, ClipboardAssumption DEF Remembered, capped
    <2>4. sent_up.what = capped(os[connected])
      OBVIOUS
    <2> HIDE DEF sent_up
    <2>5. /\ from_terminal \in Seq(Upload) /\ Len(from_terminal) \in Nat
          /\ DOMAIN from_terminal = 1..Len(from_terminal)
      BY <1>1, LenProperties DEF ClipTypes
    <2>6. /\ from_terminal' \in Seq(Upload) /\ Len(from_terminal') = Len(from_terminal) + 1
          /\ \A k \in 1..Len(from_terminal) : from_terminal'[k] = from_terminal[k]
          /\ from_terminal'[Len(from_terminal) + 1] = sent_up
      BY <2>1, <2>2, <2>5, AppendFacts
    <2>7. DOMAIN from_terminal' = 1..Len(from_terminal')
      BY <2>6, LenProperties
    <2>8. ClipTypes'
      BY <1>1, <2>1, <2>2, <2>6 DEF ClipTypes
    <2>9. ASSUME refusals = 0 PROVE Remembered' /\ NoEcho'
      <3>1. Remembered /\ NoEcho
        BY <2>9 DEF ClipInv
      <3>2. Remembered'
        BY <1>1, <2>1, <3>1 DEF Remembered, ClipTypes
      <3>3. ASSUME NEW k \in DOMAIN from_terminal' PROVE from_terminal'[k].what \notin AppTexts
        <4>1. CASE k \in 1..Len(from_terminal)
          BY <1>1, <2>5, <2>6, <2>9, <3>1, <4>1 DEF NoEcho
        <4>2. CASE k = Len(from_terminal) + 1
          BY <2>3, <2>4, <2>6, <3>1, <4>2
        <4> QED
          BY <2>5, <2>6, <2>7, <4>1, <4>2
      <3> QED
        BY <3>2, <3>3 DEF NoEcho
    <2> QED
      BY <1>1, <2>8, <2>9 DEF ClipInv
  <1> QED
    BY <1>2, <1>3

\* What a terminal applies it remembers.
LEMMA ApplyInv == ASSUME ClipInv, apply_remote PROVE ClipInv'
  <1>1. /\ ClipTypes /\ connected \in Terminals /\ to_terminal # <<>> /\ to_terminal' = Tail(to_terminal)
        /\ UNCHANGED <<selection, readers, to_net, connected, from_terminal>>
    BY DEF ClipInv, ClipTypes, apply_remote, sessionVars, channelVars
  <1>2. Head(to_terminal) \in Contents /\ to_terminal' \in Seq(Contents)
    BY <1>1, TailFacts DEF ClipTypes
  <1>3. CASE UNCHANGED <<os, last_text, refusals>>
    BY <1>1, <1>2, <1>3, SessionInv DEF ClipTypes
  <1>4. CASE /\ last_text' = [last_text EXCEPT ![connected] = Head(to_terminal)]
             /\ os' = [os EXCEPT ![connected] = Head(to_terminal)] /\ UNCHANGED refusals
    <2>1. ClipTypes'
      BY <1>1, <1>2, <1>4 DEF ClipTypes
    <2>2. Remembered => Remembered'
      BY <1>1, <1>4 DEF Remembered, ClipTypes
    <2> QED
      BY <1>1, <1>4, <2>1, <2>2 DEF ClipInv, NoEcho
  <1>5. CASE /\ last_text' = [last_text EXCEPT ![connected] = Head(to_terminal)]
             /\ refusals' = refusals + 1 /\ UNCHANGED os
    <2>1. refusals' \in Nat /\ refusals' # 0
      BY <1>1, <1>5 DEF ClipTypes
    <2>2. ClipTypes'
      BY <1>1, <1>2, <1>5, <2>1 DEF ClipTypes
    <2> QED
      BY <2>1, <2>2 DEF ClipInv
  <1> QED
    BY <1>3, <1>4, <1>5 DEF apply_remote

LEMMA CopyInv ==
  ASSUME ClipInv, NEW t \in Terminals, NEW x \in UserTexts, UserCopies(t, x) PROVE ClipInv'
  <1>1. /\ ClipTypes /\ os' = [os EXCEPT ![t] = x] /\ x \in Contents /\ x \notin AppTexts
        /\ UNCHANGED <<selection, readers, to_net, last_text, connected, to_terminal, from_terminal, refusals>>
    BY ClipboardAssumption DEF ClipInv, UserCopies, sessionVars, channelVars, streamVars, Contents
  <1>2. ClipTypes'
    BY <1>1 DEF ClipTypes
  <1>3. Remembered => Remembered'
    BY <1>1 DEF Remembered, ClipTypes
  <1> QED
    BY <1>1, <1>2, <1>3 DEF ClipInv, NoEcho

LEMMA ClipStep == ASSUME ClipInv, [ClipNext]_clipVars PROVE ClipInv'
  <1>1. ClipTypes
    BY DEF ClipInv
  <1>2. /\ to_net \in Seq(Contents) /\ to_terminal \in Seq(Contents) /\ <<>> \in Seq(Contents)
        /\ connected \in Terminals \cup {NoTerminal}
        /\ selection.by = "app" => selection.what \in Contents
        /\ \A r \in readers : r.what \in Contents
    BY <1>1, EmptySeq DEF ClipTypes
  <1>3. to_net # <<>> => Head(to_net) \in Contents /\ Tail(to_net) \in Seq(Contents)
    BY <1>2, TailFacts
  <1>4. CASE UNCHANGED clipVars
    BY <1>2, <1>4, SessionInv
    DEF clipVars, sessionVars, terminalVars, channelVars, streamVars, clipBounds
  <1>5. ASSUME NEW x \in AppTexts \cup Images, new_selection(x) PROVE ClipInv'
    <2>1. selection'.what = x /\ x \in Contents
      BY <1>5 DEF new_selection, Selected, Contents
    <2> QED
      BY <1>2, <1>5, <2>1, SessionInv DEF new_selection, terminalVars, channelVars, streamVars
  <1>6. CASE SelectionCleared
    <2>1. selection'.by # "app"
      BY <1>6 DEF SelectionCleared, NoSelection, Selected
    <2> QED
      BY <1>2, <1>6, <2>1, SessionInv DEF SelectionCleared, terminalVars, channelVars, streamVars, clipBounds
  <1>7. CASE process_pending_clipboard
    <2>1. \A r \in readers' : r.what \in Contents
      BY <1>2, <1>7 DEF process_pending_clipboard
    <2> QED
      BY <1>2, <1>7, <2>1, SessionInv
      DEF process_pending_clipboard, terminalVars, channelVars, streamVars, clipBounds
  <1>8. CASE set_remote_clipboard
    <2>1. selection'.by # "app"
      BY <1>8 DEF set_remote_clipboard, Selected
    <2> QED
      BY <1>2, <1>8, <2>1, SessionInv DEF set_remote_clipboard, terminalVars, streamVars, clipBounds
  <1>9. ASSUME NEW r \in readers, read_selection_and_forward(r) PROVE ClipInv'
    <2>1. capped(r.what) \in Contents
      BY <1>2, CappedContent
    <2>2. Append(to_net, capped(r.what)) \in Seq(Contents)
      BY <1>2, <2>1, AppendFacts
    <2>3. to_net' \in Seq(Contents) /\ readers' \subseteq readers
      BY <1>2, <1>9, <2>2 DEF read_selection_and_forward
    <2> QED
      BY <1>2, <1>9, <2>3, SessionInv DEF read_selection_and_forward, terminalVars, streamVars, clipBounds
  <1>10. CASE check_compositor_commands
    <2>1. Append(to_terminal, Head(to_net)) \in Seq(Contents)
      BY <1>2, <1>3, <1>10, AppendFacts DEF check_compositor_commands
    <2>2. to_net' \in Seq(Contents) /\ to_terminal' \in Seq(Contents)
      BY <1>2, <1>3, <1>10, <2>1 DEF check_compositor_commands
    <2> QED
      BY <1>2, <1>10, <2>2, SessionInv DEF check_compositor_commands, sessionVars, terminalVars, clipBounds
  <1>11. CASE check_shutdown_async
    BY <1>2, <1>3, <1>11, SessionInv DEF check_shutdown_async, sessionVars, terminalVars, streamVars, clipBounds
  <1>12. CASE ReadControl
    BY <1>2, <1>12, SessionInv DEF ReadControl, sessionVars, terminalVars, clipBounds
  <1>13. CASE ReadHalf
    BY <1>2, <1>13, SessionInv DEF ReadHalf, sessionVars, terminalVars, channelVars, clipBounds
  <1>14. CASE InputInterrupts
    BY <1>2, <1>14, SessionInv DEF InputInterrupts, sessionVars, terminalVars, channelVars
  <1>15. CASE ConnectionEnds
    BY <1>2, <1>15, SessionInv DEF ConnectionEnds, sessionVars, terminalVars, channelVars
  <1>16. ASSUME NEW t \in Terminals, Connect(t) PROVE ClipInv'
    BY <1>2, <1>16, SessionInv DEF Connect, sessionVars, terminalVars, channelVars
  <1>17. ASSUME NEW t \in Terminals, FocusGained(t) PROVE ClipInv'
    BY <1>2, <1>17, SessionInv DEF FocusGained, sessionVars, channelVars, streamVars, clipBounds
  <1> QED
    BY <1>4, <1>5, <1>6, <1>7, <1>8, <1>9, <1>10, <1>11, <1>12, <1>13, <1>14, <1>15, <1>16, <1>17,
       CaptureInv, ApplyInv, CopyInv
    DEF ClipNext

\* As long as the OS clipboard takes its writes, no terminal sends up a text of
\* an application: capture_if_changed compares with what apply_remote recorded,
\* which survives every reconnection.
THEOREM TerminalsDoNotEcho == ClipSpec => []NoEcho
  <1>1. ASSUME ClipInit PROVE ClipInv
    <2>1. <<>> \in Seq(Contents) /\ <<>> \in Seq(Upload) /\ DOMAIN <<>> = {}
      BY EmptySeq
    <2>2. selection.by # "app"
      BY <1>1 DEF ClipInit, NoSelection, Selected
    <2>3. ClipTypes
      BY <1>1, <2>1, <2>2 DEF ClipInit, ClipTypes
    <2>4. Remembered
      BY <1>1, ClipboardAssumption DEF ClipInit, Remembered, Contents
    <2>5. NoEcho
      BY <1>1, <2>1 DEF ClipInit, NoEcho
    <2> QED
      BY <2>3, <2>4, <2>5 DEF ClipInv
  <1>2. ClipInv /\ [ClipNext]_clipVars => ClipInv'
    BY ClipStep
  <1>3. ClipInv => NoEcho
    BY DEF ClipInv, NoEcho
  <1> QED
    BY <1>1, <1>2, <1>3, PTL DEF ClipSpec

(***************************************************************************)
(* Keyboard input.                                                         *)
(***************************************************************************)
LEMMA LastIsMentioned == ASSUME NEW q, NEW k, NEW is, SaysLast(q, k, is) PROVE Mentions(q, k)
  BY DEF SaysLast, Mentions, Event

\* What a message says last is said by its second half, or else by its first.
LEMMA SaysConcat ==
  ASSUME NEW q \in Seq(KeyMessage), NEW r \in Seq(KeyMessage), NEW k, NEW is
  PROVE  /\ Mentions(q \o r, k) <=> (Mentions(q, k) \/ Mentions(r, k))
         /\ SaysLast(q \o r, k, is) <=> (SaysLast(r, k, is) \/ (~ Mentions(r, k) /\ SaysLast(q, k, is)))
  <1> DEFINE c == q \o r
  <1>1. /\ Len(q) \in Nat /\ Len(r) \in Nat /\ Len(c) = Len(q) + Len(r)
        /\ \A i \in 1..Len(q) : c[i] = q[i]
        /\ \A i \in 1..Len(r) : c[Len(q) + i] = r[i]
    BY ConcatProperties, LenProperties
  <1> HIDE DEF c
  <1>2. \A i \in 1..Len(q) : i \in 1..Len(c)
    BY <1>1
  <1>2b. \A i \in 1..Len(r) : Len(q) + i \in 1..Len(c)
    BY <1>1
  <1>2c. ASSUME NEW i \in 1..Len(c), i \notin 1..Len(q)
         PROVE  i - Len(q) \in 1..Len(r) /\ c[i] = r[i - Len(q)]
    <2>1. i - Len(q) \in 1..Len(r) /\ Len(q) + (i - Len(q)) = i
      BY <1>1, <1>2c
    <2> QED
      BY <1>1, <2>1
  <1>3. Mentions(c, k) <=> (Mentions(q, k) \/ Mentions(r, k))
    <2>1. ASSUME Mentions(q, k) PROVE Mentions(c, k)
      BY <1>1, <1>2, <2>1 DEF Mentions
    <2>2. ASSUME Mentions(r, k) PROVE Mentions(c, k)
      BY <1>1, <1>2b, <2>2 DEF Mentions
    <2>3. ASSUME Mentions(c, k) PROVE Mentions(q, k) \/ Mentions(r, k)
      BY <1>1, <1>2c, <2>3 DEF Mentions
    <2> QED
      BY <2>1, <2>2, <2>3
  <1>4. ASSUME SaysLast(r, k, is) PROVE SaysLast(c, k, is)
    <2>1. PICK i \in 1..Len(r) : r[i] = Event(k, is) /\ \A j \in (i + 1)..Len(r) : r[j].key # k
      BY <1>4 DEF SaysLast
    <2>2. ASSUME NEW j \in (Len(q) + i + 1)..Len(c) PROVE c[j].key # k
      <3>1. j - Len(q) \in (i + 1)..Len(r) /\ c[j] = r[j - Len(q)]
        BY <1>1, <1>2c
      <3> QED
        BY <2>1, <3>1
    <2>3. Len(q) + i \in 1..Len(c) /\ c[Len(q) + i] = Event(k, is)
      BY <1>1, <1>2b, <2>1
    <2> QED
      BY <2>2, <2>3 DEF SaysLast
  <1>5. ASSUME ~ Mentions(r, k), SaysLast(q, k, is) PROVE SaysLast(c, k, is)
    <2>1. PICK i \in 1..Len(q) : q[i] = Event(k, is) /\ \A j \in (i + 1)..Len(q) : q[j].key # k
      BY <1>5 DEF SaysLast
    <2>2. ASSUME NEW j \in (i + 1)..Len(c) PROVE c[j].key # k
      <3>1. CASE j \in 1..Len(q)
        BY <1>1, <2>1, <3>1
      <3>2. CASE j - Len(q) \in 1..Len(r) /\ c[j] = r[j - Len(q)]
        BY <1>5, <3>2 DEF Mentions
      <3>3. j \in 1..Len(c)
        BY <1>1
      <3> QED
        BY <1>2c, <3>1, <3>2, <3>3
    <2> QED
      BY <1>1, <1>2, <2>1, <2>2 DEF SaysLast
  <1>6. ASSUME SaysLast(c, k, is) PROVE SaysLast(r, k, is) \/ (~ Mentions(r, k) /\ SaysLast(q, k, is))
    <2>1. PICK i \in 1..Len(c) : c[i] = Event(k, is) /\ \A j \in (i + 1)..Len(c) : c[j].key # k
      BY <1>6 DEF SaysLast
    <2>2. CASE i \in 1..Len(q)
      <3>1. ~ Mentions(r, k)
        <4> SUFFICES ASSUME NEW j \in 1..Len(r) PROVE r[j].key # k
          BY DEF Mentions
        <4>1. Len(q) + j \in (i + 1)..Len(c) /\ c[Len(q) + j] = r[j]
          BY <1>1, <2>2
        <4> QED
          BY <2>1, <4>1
      <3>2. q[i] = Event(k, is) /\ \A j \in (i + 1)..Len(q) : q[j].key # k
        <4>1. \A j \in (i + 1)..Len(q) : j \in (i + 1)..Len(c) /\ c[j] = q[j]
          BY <1>1, <2>2
        <4>2. q[i] = c[i]
          BY <1>1, <2>2
        <4> QED
          BY ONLY <2>1, <4>1, <4>2
      <3> QED
        BY <2>2, <3>1, <3>2 DEF SaysLast
    <2>3. CASE i - Len(q) \in 1..Len(r) /\ c[i] = r[i - Len(q)]
      <3>1. \A j \in (i - Len(q) + 1)..Len(r) : Len(q) + j \in (i + 1)..Len(c) /\ c[Len(q) + j] = r[j]
        BY <1>1, <2>3
      <3>2. \A j \in (i - Len(q) + 1)..Len(r) : r[j].key # k
        BY <2>1, <3>1
      <3> QED
        BY <2>1, <2>3, <3>2 DEF SaysLast
    <2> QED
      BY <1>2, <1>2b, <1>2c, <2>2, <2>3
  <1> QED
    BY <1>3, <1>4, <1>5, <1>6 DEF c

LEMMA SaysOne ==
  ASSUME NEW e \in KeyMessage, NEW k, NEW is
  PROVE  /\ <<e>> \in Seq(KeyMessage)
         /\ Mentions(<<e>>, k) <=> e.key = k
         /\ SaysLast(<<e>>, k, is) <=> e = Event(k, is)
  BY DEF Mentions, SaysLast

\* The first message of q counts only if no other one is about its key.
LEMMA SaysTail ==
  ASSUME NEW q \in Seq(KeyMessage), q # <<>>, NEW k, NEW is
  PROVE  /\ Head(q) \in KeyMessage /\ Tail(q) \in Seq(KeyMessage)
         /\ Mentions(q, k) <=> (Head(q).key = k \/ Mentions(Tail(q), k))
         /\ SaysLast(q, k, is) <=> (SaysLast(Tail(q), k, is) \/ (~ Mentions(Tail(q), k) /\ Head(q) = Event(k, is)))
  <1>1. Head(q) \in KeyMessage /\ Tail(q) \in Seq(KeyMessage)
    BY TailFacts
  <1>2. q = <<Head(q)>> \o Tail(q)
    OBVIOUS
  <1>3. <<Head(q)>> \in Seq(KeyMessage)
    BY <1>1
  <1>4. /\ Mentions(<<Head(q)>> \o Tail(q), k) <=> (Mentions(<<Head(q)>>, k) \/ Mentions(Tail(q), k))
        /\ SaysLast(<<Head(q)>> \o Tail(q), k, is)
              <=> (SaysLast(Tail(q), k, is) \/ (~ Mentions(Tail(q), k) /\ SaysLast(<<Head(q)>>, k, is)))
    BY <1>1, <1>3, SaysConcat
  <1>5. /\ Mentions(<<Head(q)>>, k) <=> Head(q).key = k
        /\ SaysLast(<<Head(q)>>, k, is) <=> Head(q) = Event(k, is)
    BY <1>1, SaysOne
  <1> QED
    BY <1>1, <1>2, <1>4, <1>5

LEMMA SaysAppend ==
  ASSUME NEW q \in Seq(KeyMessage), NEW e \in KeyMessage, NEW k, NEW is
  PROVE  /\ Append(q, e) \in Seq(KeyMessage)
         /\ Mentions(Append(q, e), k) <=> (Mentions(q, k) \/ e.key = k)
         /\ SaysLast(Append(q, e), k, is) <=> (e = Event(k, is) \/ (e.key # k /\ SaysLast(q, k, is)))
  <1>1. Append(q, e) = q \o <<e>> /\ Append(q, e) \in Seq(KeyMessage) /\ <<e>> \in Seq(KeyMessage)
    BY AppendProperties
  <1>2. /\ Mentions(q \o <<e>>, k) <=> (Mentions(q, k) \/ Mentions(<<e>>, k))
        /\ SaysLast(q \o <<e>>, k, is)
              <=> (SaysLast(<<e>>, k, is) \/ (~ Mentions(<<e>>, k) /\ SaysLast(q, k, is)))
    BY <1>1, SaysConcat
  <1>3. /\ Mentions(<<e>>, k) <=> e.key = k
        /\ SaysLast(<<e>>, k, is) <=> e = Event(k, is)
    BY SaysOne
  <1> QED
    BY <1>1, <1>2, <1>3

\* The client enqueues messages that end with the truth about every key they
\* are about; of the others the user changes nothing.
LEMMA EnqueueInv ==
  ASSUME KeyInv, NEW M \in Seq(KeyMessage), queue' = queue \o M,
         down' \subseteq Keys \cup Mods, modifiers' = down' \cap Mods,
         UNCHANGED <<wire, link, keyServerVars, keybindings, breaks>>,
         \A k \in Keys \cup Mods : SaysLast(M, k, TRUE) => k \in down',
         \A m \in Mods : SaysLast(M, m, FALSE) => m \notin down',
         \A k \in Keys \cup Mods : ~ Mentions(M, k) => (k \in down <=> k \in down')
  PROVE  KeyInv'
  <1>1. KeyTypes /\ UNCHANGED <<held, pressed_keys, seat>>
    BY DEF KeyInv, keyServerVars
  <1>2. KeyTypes'
    <2>1. queue' \in Seq(KeyMessage)
      BY <1>1, ConcatProperties DEF KeyTypes
    <2> QED
      BY <1>1, <2>1 DEF KeyTypes
  <1>3. ASSUME NEW k \in Keys \cup Mods, NEW is
        PROVE  /\ Mentions(queue', k) <=> (Mentions(queue, k) \/ Mentions(M, k))
               /\ SaysLast(queue', k, is) <=> (SaysLast(M, k, is) \/ (~ Mentions(M, k) /\ SaysLast(queue, k, is)))
    BY <1>1, SaysConcat DEF KeyTypes
  <1>4. ASSUME NEW k \in Keys \cup Mods, NEW is, Pending(k, is)'
        PROVE  SaysLast(M, k, is) \/ (~ Mentions(M, k) /\ Pending(k, is))
    BY <1>3, <1>4 DEF Pending
  <1>5. ASSUME NEW k \in Keys \cup Mods, Arrived(k)' PROVE ~ Mentions(M, k) /\ Arrived(k)
    BY <1>3, <1>5 DEF Arrived
  <1>6. Releases'
    <2>1. ASSUME NEW k \in Keys \cup Mods, SaysLast(queue', k, TRUE) PROVE k \in down'
      BY <1>3, <2>1 DEF KeyInv, Releases
    <2>2. ASSUME link # "broken", NEW k \in Keys \cup Mods
          PROVE  /\ Pending(k, TRUE)' => k \in down'
                 /\ Arrived(k)' /\ k \in held => k \in down'
                 /\ Arrived(k)' /\ k \in seat \ BoundKeys => k \in down'
      BY <1>4, <1>5, <2>2 DEF KeyInv, Releases
    <2> QED
      BY <1>1, <2>1, <2>2 DEF Releases
  <1>7. ASSUME breaks = 0 PROVE Presses'
    <2>1. ASSUME NEW m \in Mods
          PROVE  /\ Pending(m, FALSE)' => m \notin down'
                 /\ Arrived(m)' /\ m \in down' => m \in held
                 /\ Arrived(m)' /\ m \in down' \ BoundKeys => m \in seat
      BY <1>4, <1>5, <1>7 DEF KeyInv, Presses
    <2> QED
      BY <1>1, <1>7, <2>1 DEF KeyInv, Presses
  <1> QED
    BY <1>2, <1>6, <1>7 DEF KeyInv

\* A key, bracketed by Shift events or not.
LEMMA KeyboardInv == ASSUME KeyInv, NEW k \in Keys, KeyboardInput(k) PROVE KeyInv'
  <1>1. PICK is \in BOOLEAN, utf8 \in {"none", "lower", "upper"} :
          /\ ~ is => k \in down
          /\ down' = IF is THEN down \cup {k} ELSE down \ {k}
          /\ Enqueue(convert_keyboard(k, is, utf8, Shift \in modifiers))
    BY DEF KeyboardInput
  <1>2. /\ KeyTypes /\ k \notin Mods /\ Shift \in Mods /\ k # Shift
        /\ UNCHANGED <<modifiers, wire, link, keyServerVars, keybindings, breaks>>
    BY KeyAssumption DEF KeyInv, KeyboardInput
  <1>3. down' \subseteq Keys \cup Mods /\ modifiers' = down' \cap Mods
    BY <1>1, <1>2 DEF KeyTypes
  <1>4. CASE convert_keyboard(k, is, utf8, Shift \in modifiers) = <<Event(k, is)>>
    <2> DEFINE e == Event(k, is)
    <2>1. e \in KeyMessage /\ e.key = k /\ e.pressed = is
      BY DEF Event, KeyMessage
    <2>2. queue' = queue \o <<e>>
      BY <1>1, <1>4 DEF Enqueue
    <2>3. ASSUME NEW x, NEW b PROVE e = Event(x, b) => x = k /\ b = is
      BY <2>1 DEF Event
    <2> HIDE DEF e
    <2>4. ASSUME NEW x, NEW b
          PROVE  /\ <<e>> \in Seq(KeyMessage)
                 /\ Mentions(<<e>>, x) <=> e.key = x
                 /\ SaysLast(<<e>>, x, b) => x = k /\ b = is
      BY <2>1, <2>3, SaysOne
    <2> QED
      BY <1>1, <1>2, <1>3, <2>1, <2>2, <2>4, EnqueueInv
  <1>5. CASE /\ is
             /\ convert_keyboard(k, is, utf8, Shift \in modifiers)
                  = <<Event(Shift, utf8 = "upper"), Press(k), Event(Shift, Shift \in modifiers)>>
    <2> DEFINE s == Event(Shift, utf8 = "upper")
               p == Event(k, TRUE)
               r == Event(Shift, Shift \in modifiers)
               M == <<s, p, r>>
    <2>1. /\ s \in KeyMessage /\ p \in KeyMessage /\ r \in KeyMessage
          /\ s.key = Shift /\ p.key = k /\ r.key = Shift
      BY <1>2 DEF Event, KeyMessage
    <2>2. queue' = queue \o M
      BY <1>1, <1>5 DEF Enqueue, Press, Event
    <2>3. ASSUME NEW x, NEW b
          PROVE  /\ p = Event(x, b) => x = k /\ b = TRUE
                 /\ r = Event(x, b) => x = Shift /\ b = (Shift \in modifiers)
      BY DEF Event
    <2> HIDE DEF s, p, r
    <2>4. M \in Seq(KeyMessage) /\ Len(M) = 3 /\ M[1] = s /\ M[2] = p /\ M[3] = r
      BY <2>1
    <2> HIDE DEF M
    <2>5. \A x : ~ Mentions(M, x) => x # k /\ x # Shift
      BY <2>1, <2>4 DEF Mentions
    <2>6. ASSUME NEW x, NEW b, SaysLast(M, x, b)
          PROVE  (x = k /\ b = TRUE) \/ (x = Shift /\ b = (Shift \in modifiers))
      <3>1. PICK i \in 1..3 : M[i] = Event(x, b) /\ \A j \in (i + 1)..3 : M[j].key # x
        BY <2>4, <2>6 DEF SaysLast
      <3>2. i # 1
        <4>1. Event(x, b).key = x
          BY DEF Event
        <4> QED
          BY <2>1, <2>4, <3>1, <4>1
      <3>3. i = 2 \/ i = 3
        BY <3>2
      <3> QED
        BY <2>3, <2>4, <3>1, <3>3
    <2>7. ASSUME NEW x \in Keys \cup Mods, SaysLast(M, x, TRUE) PROVE x \in down'
      <3>1. x = k \/ (x = Shift /\ Shift \in modifiers)
        BY <2>6, <2>7
      <3> QED
        BY <1>1, <1>2, <1>3, <1>5, <3>1
    <2>8. ASSUME NEW m \in Mods, SaysLast(M, m, FALSE) PROVE m \notin down'
      <3>1. m = Shift /\ Shift \notin modifiers
        BY <1>2, <2>6, <2>8
      <3> QED
        BY <1>2, <1>3, <3>1
    <2>9. \A x \in Keys \cup Mods : ~ Mentions(M, x) => (x \in down <=> x \in down')
      BY <1>1, <2>5
    <2> QED
      BY <1>2, <1>3, <2>2, <2>4, <2>7, <2>8, <2>9, EnqueueInv
  <1> QED
    BY <1>4, <1>5 DEF convert_keyboard

LEMMA ModifiersInv == ASSUME KeyInv, NEW m \in Mods, ModifiersChanged(m) PROVE KeyInv'
  <1> DEFINE e == Event(m, m \in modifiers')
  <1>1. /\ KeyTypes /\ down' = (IF m \in down THEN down \ {m} ELSE down \cup {m})
        /\ modifiers' = down' \cap Mods /\ queue' = queue \o <<e>>
        /\ UNCHANGED <<wire, link, keyServerVars, keybindings, breaks>>
    BY DEF KeyInv, ModifiersChanged, Enqueue
  <1>2. down' \subseteq Keys \cup Mods /\ (m \in modifiers' <=> m \in down')
    BY <1>1 DEF KeyTypes
  <1>3. e \in KeyMessage /\ e.key = m
    BY DEF Event, KeyMessage
  <1>4. ASSUME NEW x, NEW b PROVE e = Event(x, b) => x = m /\ b = (m \in modifiers')
    BY DEF Event
  <1> HIDE DEF e
  <1>5. ASSUME NEW x, NEW b
        PROVE  /\ <<e>> \in Seq(KeyMessage)
               /\ Mentions(<<e>>, x) <=> m = x
               /\ SaysLast(<<e>>, x, b) => x = m /\ b = (m \in modifiers')
    BY <1>3, <1>4, SaysOne
  <1>6. \A x \in Keys \cup Mods : SaysLast(<<e>>, x, TRUE) => x \in down'
    BY <1>2, <1>5
  <1>7. \A x \in Mods : SaysLast(<<e>>, x, FALSE) => x \notin down'
    BY <1>2, <1>5
  <1>8. \A x \in Keys \cup Mods : ~ Mentions(<<e>>, x) => (x \in down <=> x \in down')
    BY <1>1, <1>5
  <1> QED
    BY <1>1, <1>2, <1>5, <1>6, <1>7, <1>8, EnqueueInv

\* A message moves from the channel to the wire: what is said last stays.
LEMMA SendInv == ASSUME KeyInv, send_input PROVE KeyInv'
  <1>1. /\ KeyTypes /\ queue # <<>> /\ queue' = Tail(queue) /\ wire' = Append(wire, Head(queue))
        /\ UNCHANGED <<down, modifiers, link, held, pressed_keys, seat, keybindings, breaks>>
    BY DEF KeyInv, send_input, keyServerVars
  <1>2. Head(queue) \in KeyMessage /\ queue' \in Seq(KeyMessage) /\ wire' \in Seq(KeyMessage)
    BY <1>1, SaysTail, AppendFacts DEF KeyTypes
  <1>3. KeyTypes'
    BY <1>1, <1>2 DEF KeyTypes
  <1>4. ASSUME NEW k, NEW is
        PROVE  /\ Mentions(queue, k) <=> (Head(queue).key = k \/ Mentions(queue', k))
               /\ SaysLast(queue, k, is)
                    <=> (SaysLast(queue', k, is) \/ (~ Mentions(queue', k) /\ Head(queue) = Event(k, is)))
               /\ Mentions(wire', k) <=> (Mentions(wire, k) \/ Head(queue).key = k)
               /\ SaysLast(wire', k, is)
                    <=> (Head(queue) = Event(k, is) \/ (Head(queue).key # k /\ SaysLast(wire, k, is)))
    BY <1>1, <1>2, SaysTail, SaysAppend DEF KeyTypes
  <1>5. \A k, is : Pending(k, is)' => Pending(k, is)
    BY <1>4 DEF Pending
  <1>6. \A k : Arrived(k)' => Arrived(k)
    BY <1>4 DEF Arrived
  <1>7. Releases'
    BY <1>1, <1>4, <1>5, <1>6 DEF KeyInv, Releases
  <1>8. breaks = 0 => Presses'
    BY <1>1, <1>5, <1>6 DEF KeyInv, Presses
  <1> QED
    BY <1>1, <1>3, <1>7, <1>8 DEF KeyInv

\* The server handles a message.  Only what it is about changes.
LEMMA InjectInv == ASSUME KeyInv, inject_network_input PROVE KeyInv'
  <1> DEFINE ev == Head(wire)
             mask == on_key(held, ev)
             chord == <<ev.key, mask>>
  <1>1. /\ KeyTypes /\ wire # <<>> /\ wire' = Tail(wire) /\ held' = mask
        /\ UNCHANGED <<down, modifiers, queue, link, keybindings, breaks>>
    BY DEF KeyInv, inject_network_input
  <1>2. \/ chord \in keybindings /\ UNCHANGED <<pressed_keys, seat>>
        \/ /\ chord \notin keybindings /\ on_key_binding(ev, mask)
           /\ UNCHANGED <<pressed_keys, seat>>
        \/ /\ chord \notin keybindings /\ ~ on_key_binding(ev, mask)
           /\ seat' = (IF ev.pressed THEN seat \cup {ev.key} ELSE seat \ {ev.key})
           /\ pressed_keys' = (IF ev.pressed THEN pressed_keys \cup {ev.key} ELSE pressed_keys \ {ev.key})
    BY DEF inject_network_input, check_key_binding
  <1>3. /\ ev \in KeyMessage /\ ev.key \in Keys \cup Mods /\ ev.pressed \in BOOLEAN
        /\ wire' \in Seq(KeyMessage) /\ ev = Event(ev.key, ev.pressed)
    <2>1. ev \in KeyMessage /\ wire' \in Seq(KeyMessage)
      BY <1>1, SaysTail DEF KeyTypes
    <2> QED
      BY <2>1 DEF KeyMessage, Event
  <1>4. /\ held' \subseteq Mods
        /\ \A k \in held' : k \in held \/ (k = ev.key /\ ev.pressed)
        /\ ev.key \in held' => ev.pressed \/ ev.key \notin Mods
        /\ \A k \in held : k \in held' \/ (k = ev.key /\ ~ ev.pressed)
        /\ ev.key \in Mods /\ ev.pressed => ev.key \in held'
    BY <1>1, <1>3 DEF on_key, KeyTypes
  <1>5. chord \in keybindings => ev.key \in BoundKeys
    BY <1>1 DEF KeyTypes, BoundKeys
  <1>6. /\ seat' \subseteq Keys \cup Mods /\ pressed_keys' = seat'
        /\ \A k : k # ev.key => (k \in seat' <=> k \in seat)
        /\ ev.key \in seat' \ BoundKeys => ev.pressed
    BY <1>1, <1>2, <1>3, <1>5 DEF KeyTypes, on_key_binding
  <1>7. ev.key \in Mods \ BoundKeys /\ ev.pressed => ev.key \in seat'
    <2>1. ev.key \in Mods => ~ on_key_binding(ev, mask)
      BY KeyAssumption DEF on_key_binding
    <2> QED
      BY <1>2, <1>5, <2>1
  <1> HIDE DEF chord, mask, ev
  <1>8. KeyTypes'
    BY <1>1, <1>3, <1>4, <1>6 DEF KeyTypes
  <1>9. ASSUME NEW k, NEW is
        PROVE  /\ Mentions(wire, k) <=> (ev.key = k \/ Mentions(wire', k))
               /\ SaysLast(wire, k, is) <=> (SaysLast(wire', k, is) \/ (~ Mentions(wire', k) /\ ev = Event(k, is)))
    BY <1>1, SaysTail DEF KeyTypes, ev
  <1>10. \A k, is : Pending(k, is)' => Pending(k, is)
    BY <1>1, <1>9 DEF Pending
  <1>11. \A k : (Arrived(k)' /\ k # ev.key) => Arrived(k)
    BY <1>1, <1>9 DEF Arrived
  <1>12. ASSUME NEW k, Arrived(k)', k = ev.key
         PROVE  (ev.pressed => Pending(k, TRUE)) /\ (~ ev.pressed => Pending(k, FALSE))
    <2>1. ~ Mentions(wire', k) /\ ~ Mentions(queue, k)
      BY <1>1, <1>12 DEF Arrived
    <2>2. (ev.pressed => ev = Event(k, TRUE)) /\ (~ ev.pressed => ev = Event(k, FALSE))
      BY <1>3, <1>12
    <2> QED
      BY <1>9, <2>1, <2>2 DEF Pending
  <1>13. Releases'
    <2>1. ASSUME link # "broken", NEW k \in Keys \cup Mods
          PROVE  /\ Pending(k, TRUE)' => k \in down
                 /\ Arrived(k)' /\ k \in held' => k \in down
                 /\ Arrived(k)' /\ k \in seat' \ BoundKeys => k \in down
      <3>1. CASE k = ev.key
        <4>1. k \in held' \/ k \in seat' \ BoundKeys => ev.pressed
          BY <1>1, <1>3, <1>4, <1>6, <3>1, KeyAssumption DEF KeyTypes
        <4>2. Pending(k, TRUE) => k \in down
          BY <2>1 DEF KeyInv, Releases
        <4>3. Arrived(k)' /\ ev.pressed => k \in down
          BY <1>12, <3>1, <4>2
        <4> QED
          BY <1>10, <4>1, <4>2, <4>3
      <3>2. CASE k # ev.key
        BY <1>4, <1>6, <1>10, <1>11, <2>1, <3>2 DEF KeyInv, Releases
      <3> QED
        BY <3>1, <3>2
    <2> QED
      BY <1>1, <2>1 DEF KeyInv, Releases
  <1>14. ASSUME breaks = 0 PROVE Presses'
    <2>1. ASSUME NEW m \in Mods
          PROVE  /\ Pending(m, FALSE)' => m \notin down
                 /\ Arrived(m)' /\ m \in down => m \in held'
                 /\ Arrived(m)' /\ m \in down \ BoundKeys => m \in seat'
      <3>1. CASE m = ev.key
        <4>1. Arrived(m)' /\ m \in down => ev.pressed
          <5>1. Pending(m, FALSE) => m \notin down
            BY <1>14 DEF KeyInv, Presses
          <5> QED
            BY <1>12, <3>1, <5>1
        <4> QED
          BY <1>4, <1>7, <1>10, <1>14, <3>1, <4>1 DEF KeyInv, Presses
      <3>2. CASE m # ev.key
        BY <1>4, <1>6, <1>10, <1>11, <1>14, <3>2 DEF KeyInv, Presses
      <3> QED
        BY <3>1, <3>2
    <2> QED
      BY <1>1, <1>14, <2>1 DEF KeyInv, Presses
  <1> QED
    BY <1>1, <1>8, <1>13, <1>14 DEF KeyInv

\* What is lost with a connection makes no difference once all keys are released.
LEMMA BreakInv == ASSUME KeyInv, Break PROVE KeyInv'
  <1>1. /\ KeyTypes /\ link' = "broken" /\ breaks' = breaks + 1
        /\ UNCHANGED <<down, modifiers, held, pressed_keys, seat, keybindings>>
    BY DEF KeyInv, Break, keyServerVars
  <1>2. wire' \in Seq(KeyMessage)
    <2>1. PICK n \in 0..Len(wire) : wire' = SubSeq(wire, 1, n)
      BY DEF Break
    <2>2. wire \in Seq(KeyMessage) /\ n \in Nat /\ n <= Len(wire)
      BY <1>1, LenProperties DEF KeyTypes
    <2>3. \A i \in 1..n : wire[i] \in KeyMessage
      BY <2>2, ElementOfSeq, LenProperties
    <2> QED
      BY <2>1, <2>2, <2>3, SubSeqProperties
  <1>3. /\ queue' \in Seq(KeyMessage)
        /\ \A k \in Keys \cup Mods : SaysLast(queue', k, TRUE) => SaysLast(queue, k, TRUE)
    <2>1. queue' = queue \/ (queue # <<>> /\ queue' = Tail(queue))
      BY DEF Break
    <2> QED
      BY <1>1, <2>1, SaysTail DEF KeyTypes
  <1>4. KeyTypes'
    BY <1>1, <1>2, <1>3 DEF KeyTypes
  <1>5. Releases'
    BY <1>1, <1>3 DEF KeyInv, Releases
  <1>6. breaks' # 0
    BY <1>1 DEF KeyTypes
  <1> QED
    BY <1>4, <1>5, <1>6 DEF KeyInv

\* Everything is released, and what the channel still holds ends with the truth.
LEMMA KeysReleasedInv == ASSUME KeyInv, HandleDisconnected PROVE KeyInv'
  <1>1. /\ KeyTypes /\ link = "broken" /\ wire = <<>> /\ link' = "down"
        /\ held' = {} /\ pressed_keys' = {} /\ seat' = seat \ pressed_keys
        /\ UNCHANGED <<down, modifiers, queue, wire, keybindings, breaks>>
    BY DEF KeyInv, HandleDisconnected, release_all_keys
  <1>2. seat' = {}
    BY <1>1 DEF KeyTypes
  <1>3. KeyTypes'
    BY <1>1, <1>2 DEF KeyTypes
  <1>4. \A k : ~ SaysLast(wire, k, TRUE)
    BY <1>1 DEF SaysLast
  <1>5. Releases'
    BY <1>1, <1>2, <1>4 DEF KeyInv, Releases, Pending
  <1>6. breaks # 0
    BY <1>1 DEF KeyInv, Presses
  <1> QED
    BY <1>1, <1>3, <1>5, <1>6 DEF KeyInv

LEMMA KeyStep == ASSUME KeyInv, [KeyNext]_keyVars PROVE KeyInv'
  <1>1. CASE UNCHANGED keyVars
    BY <1>1 DEF KeyInv, KeyTypes, Releases, Presses, Pending, Arrived, keyVars
  <1>2. CASE Reconnect
    <2>1. link = "down" /\ link' = "up" /\ UNCHANGED <<down, modifiers, queue, wire, keyServerVars, keybindings, breaks>>
      BY <1>2 DEF Reconnect
    <2>2. breaks # 0
      BY <2>1 DEF KeyInv, Presses
    <2> QED
      BY <2>1, <2>2 DEF KeyInv, KeyTypes, Releases, Pending, Arrived, keyServerVars
  <1>3. CASE BindKey
    <2>1. /\ keybindings' \subseteq Bindable
          /\ UNCHANGED <<down, modifiers, queue, wire, link, held, pressed_keys, seat, breaks>>
      BY <1>3 DEF BindKey, KeyInv, KeyTypes, keyServerVars
    <2> QED
      BY <2>1 DEF KeyInv, KeyTypes, Releases, Presses, Pending, Arrived
  <1> QED
    BY <1>1, <1>2, <1>3, KeyboardInv, ModifiersInv, SendInv, BreakInv, InjectInv, KeysReleasedInv DEF KeyNext

LEMMA KeyStart == ASSUME KeyInit PROVE KeyInv
  <1>1. /\ queue \in Seq(KeyMessage) /\ wire \in Seq(KeyMessage)
        /\ \A k, is : ~ SaysLast(queue, k, is) /\ ~ SaysLast(wire, k, is)
    BY EmptySeq DEF KeyInit, SaysLast
  <1>2. KeyTypes
    BY <1>1 DEF KeyInit, KeyTypes
  <1>3. Releases /\ Presses
    BY <1>1 DEF KeyInit, Releases, Presses, Pending
  <1> QED
    BY <1>2, <1>3 DEF KeyInv

LEMMA NothingSaid == ASSUME Settled PROVE \A k : Arrived(k)
  BY DEF Settled, Arrived, Mentions

\* A key that nobody holds is not left down, whatever is lost with connections
\* (release_all_keys of the disconnect) and whatever the built-in WM's chords
\* swallow, which is presses only (inject_network_input).
THEOREM KeysComeUp == KeySpec => []NoStuckKeys
  <1>1. KeyInit => KeyInv
    BY KeyStart
  <1>2. KeyInv /\ [KeyNext]_keyVars => KeyInv'
    BY KeyStep
  <1>3. ASSUME KeyInv PROVE NoStuckKeys
    BY <1>3, NothingSaid DEF KeyInv, KeyTypes, Releases, NoStuckKeys, Settled
  <1> QED
    BY <1>1, <1>2, <1>3, PTL DEF KeySpec

\* Until a connection is lost the tracker and the seat follow the user's
\* modifiers, through the Shift brackets of convert_keyboard and repeats.
THEOREM ModifiersFollow == KeySpec => []ModifiersInStep
  <1>1. KeyInit => KeyInv
    BY KeyStart
  <1>2. KeyInv /\ [KeyNext]_keyVars => KeyInv'
    BY KeyStep
  <1>3. ASSUME KeyInv PROVE ModifiersInStep
    <2> SUFFICES ASSUME breaks = 0, Settled
                 PROVE  /\ held = modifiers
                        /\ seat \cap (Mods \ BoundKeys) = modifiers \ BoundKeys
      BY DEF ModifiersInStep
    <2>1. \A m \in Mods : Arrived(m)
      BY NothingSaid
    <2>2. \A m \in Mods : m \in held => m \in down
      BY <1>3, <2>1 DEF KeyInv, Releases, Settled
    <2>3. \A m \in Mods \ BoundKeys : m \in seat => m \in down
      BY <1>3, <2>1 DEF KeyInv, Releases, Settled
    <2>4. \A m \in Mods : /\ m \in down => m \in held
                          /\ m \in down \ BoundKeys => m \in seat
      BY <1>3, <2>1 DEF KeyInv, Presses
    <2> QED
      BY <1>3, <2>2, <2>3, <2>4 DEF KeyInv, KeyTypes
  <1> QED
    BY <1>1, <1>2, <1>3, PTL DEF KeySpec

-----------------------------------------------------------------------------
(***************************************************************************)
(* Workspaces, for any windows, names, tags and outputs.  The active       *)
(* workspaces and tags need no invariant: neither result depends on what   *)
(* an output falls back to.                                                *)
(***************************************************************************)
\* The inductive invariant: the shape of the per-window maps, and one mode at
\* a time.
WsInv ==
  /\ window_workspace \in [WindowIds -> Names \cup {NoName}]
  /\ window_tags \in [WindowIds -> (SUBSET Tags) \cup {NoTags}]
  /\ window_output \in [WindowIds -> Outputs \cup {NoOutput}]
  /\ ModesExclusive

LEMMA WsInitInv == WsInit => WsInv
BY DEF WsInit, WsInv, ModesExclusive

LEMMA WsNextInv == WsInv /\ [WsNext]_wsVars => WsInv'
<1> SUFFICES ASSUME WsInv, [WsNext]_wsVars PROVE WsInv'
  OBVIOUS
<1> USE DEF WsInv, ModesExclusive
<1>1. ASSUME NEW n \in Names, create_workspace(n) PROVE WsInv'
  BY <1>1 DEF create_workspace
<1>2. ASSUME NEW n \in Names, destroy_workspace(n) PROVE WsInv'
  BY <1>2 DEF destroy_workspace
<1>3. ASSUME NEW o \in Outputs, NEW n \in Names, set_active_workspace(o, n) PROVE WsInv'
  BY <1>3 DEF set_active_workspace
<1>4. ASSUME NEW o \in Outputs, NEW t \in SUBSET Tags, set_active_tags(o, t) PROVE WsInv'
  BY <1>4 DEF set_active_tags
<1>5. ASSUME NEW w \in WindowIds, NEW n \in Names, assign_window(w, n) PROVE WsInv'
  BY <1>5 DEF assign_window
<1>6. ASSUME NEW w \in WindowIds, NEW t \in SUBSET Tags, set_window_tags(w, t) PROVE WsInv'
  BY <1>6 DEF set_window_tags
<1>7. ASSUME NEW w \in WindowIds, NEW o \in Outputs, set_window_output(w, o) PROVE WsInv'
  BY <1>7 DEF set_window_output
<1>8. CASE UNCHANGED wsVars
  BY <1>8 DEF wsVars
<1> QED
  BY <1>1, <1>2, <1>3, <1>4, <1>5, <1>6, <1>7, <1>8 DEF WsNext

\* In every reachable state a window follows its bitmask or its workspace,
\* never both (assign_window and set_window_tags each clear the other).
THEOREM ModesAlwaysExclusive == WsSpec => []ModesExclusive
<1>1. WsInv => ModesExclusive
  BY DEF WsInv
<1> QED
  BY WsInitInv, WsNextInv, <1>1, PTL DEF WsSpec

\* An output that stands for the default one still does after a workspace is
\* destroyed: nothing is ever made active on an output that had nothing.
LEMMA DestroyKeepsDefault ==
  ASSUME NEW n \in Names, NEW o \in Outputs,
         destroy_workspace(n), output_key(o) = DefaultOutput
  PROVE  output_key(o)' = DefaultOutput
<1>1. CASE o = DefaultOutput
  BY <1>1 DEF output_key
<1>2. CASE o # DefaultOutput
  <2>1. active[o] = NoName /\ activeTags[o] = NoTags
    BY <1>2 DEF output_key
  <2>2. active'[o] = NoName /\ activeTags'[o] = NoTags
    BY <2>1, WorkspacesAssumption DEF destroy_workspace
  <2> QED
    BY <1>2, <2>2 DEF output_key
<1> QED
  BY <1>1, <1>2

\* The same, step by step: destroying a workspace leaves every window that is
\* on the screen there.
LEMMA DestroyShowsOn ==
  ASSUME WsInv, NEW n \in Names, destroy_workspace(n),
         NEW w \in WindowIds, is_visible(w, DefaultOutput)
  PROVE  is_visible(w, DefaultOutput)'
<1>1. DefaultOutput \in Outputs /\ output_key(DefaultOutput) = DefaultOutput
                              /\ output_key(DefaultOutput)' = DefaultOutput
  BY WorkspacesAssumption DEF output_key
<1>2. window_output'[w] # NoOutput => output_key(window_output[w])' = DefaultOutput
  <2>1. SUFFICES ASSUME window_output[w] # NoOutput
                 PROVE  output_key(window_output[w])' = DefaultOutput
    BY DEF destroy_workspace
  <2>2. window_output[w] \in Outputs /\ output_key(window_output[w]) = DefaultOutput
    BY <1>1, <2>1 DEF WsInv, is_visible
  <2>3. output_key(window_output[w]) = DefaultOutput /\ window_output'[w] = window_output[w]
    BY <2>2 DEF destroy_workspace
  <2> QED
    BY <2>2, <2>3, DestroyKeepsDefault DEF output_key, destroy_workspace
<1>3. window_tags'[w] # NoTags => window_tags'[w] \cap active_tags_for(DefaultOutput)' # {}
  BY <1>1 DEF is_visible, active_tags_for, destroy_workspace
<1>4. (window_tags'[w] = NoTags /\ window_workspace'[w] # NoName)
        => active_workspace_for(DefaultOutput)' = window_workspace'[w]
  BY <1>1 DEF is_visible, active_workspace_for, destroy_workspace, WsInv
<1> QED
  BY <1>1, <1>2, <1>3, <1>4 DEF is_visible

\* No step that destroys a workspace takes a window off the screen.
THEOREM DestroyNeverHides == WsSpec => DestroyHidesNothing
<1>1. WsInv /\ [WsNext]_wsVars =>
        [\A n \in Names : destroy_workspace(n) =>
           \A w \in WindowIds : is_visible(w, DefaultOutput) => is_visible(w, DefaultOutput)']_wsVars
  BY DestroyShowsOn
<1> QED
  BY WsInitInv, WsNextInv, <1>1, PTL DEF WsSpec, DestroyHidesNothing

-----------------------------------------------------------------------------
(***************************************************************************)
(* Certificate pinning, for any servers and processes: a server that can   *)
(* save its identity presents one fingerprint, and a process, or a user    *)
(* who runs one process at a time, accepts one for each server.            *)
(***************************************************************************)
Files == {"default", "temp"}
Fingerprint == Nat \cup {None}

IdentityTypes ==
  /\ cert_der \in [Dirs -> Fingerprint] /\ key_der \in [Dirs -> Fingerprint]
  /\ served \in [Servers -> Fingerprint]
  /\ boot \in [Servers -> {"down", "cert", "key", "up"}]
  /\ next_cert \in Nat
  /\ presented \in [Servers -> SUBSET Nat]

StoreTypes ==
  /\ known_hosts \in [Files -> [Servers -> Fingerprint]]
  /\ store \in [Processes -> Files \cup {None}]
  /\ pins \in [Processes -> [Servers -> Fingerprint]]
  /\ saving \in [Processes -> {NotSaving} \cup [step : {"open", "write"}, for : Servers]]
  /\ accepted \in [Processes -> [Servers -> SUBSET Nat]]
  /\ trusted \in [Servers -> SUBSET Nat]
  /\ alone \in BOOLEAN

BoundTypes == ephemeral \in Nat /\ crashes \in Nat /\ failures \in Nat

\* A server that runs has an identity.
ServesOne == \A s \in Servers : boot[s] # "down" => served[s] # None

PinTypes == IdentityTypes /\ StoreTypes /\ BoundTypes /\ ServesOne

-----------------------------------------------------------------------------
(***************************************************************************)
(* The inductive invariants.                                               *)
(***************************************************************************)

\* A key is only ever written behind its certificate, and as long as one is
\* there nothing else is presented.
Identity(s) ==
  /\ key_der[cert_dir(s)] # None => cert_der[cert_dir(s)] = key_der[cert_dir(s)]
  /\ boot[s] \in {"cert", "key"} => key_der[cert_dir(s)] = None
  /\ boot[s] = "key" => cert_der[cert_dir(s)] = served[s]
  /\ presented[s] \subseteq {key_der[cert_dir(s)]}

IdentityInv == ephemeral = 0 => \A s \in Servers : Identity(s)

\* The fingerprint that counts for s, where pinned are the pins.
Pinned(s, pinned) == IF s \in Configured THEN 1 ELSE pinned[s]

\* What a process accepts is what it has pinned, and nothing before its start.
ProcessInv(p) ==
  /\ \A s \in Servers : accepted[p][s] \subseteq {Pinned(s, pins[p])}
  /\ store[p] = None => saving[p] = NotSaving /\ \A s \in Servers : accepted[p][s] = {}
  /\ saving[p] # NotSaving => saving[p].for \notin Configured /\ pins[p][saving[p].for] # None

Calm == alone /\ crashes = 0 /\ failures = 0

\* One process uses the file at a time, and what the user trusts is what it
\* has in memory or, when there is none, what is in the file.
UserInv ==
  /\ \A p, q \in Processes : (store[p] # None /\ store[q] # None) => p = q
  /\ \A p \in Processes : store[p] # None =>
       /\ store[p] = "default"
       /\ \A s \in Servers : trusted[s] \subseteq {Pinned(s, pins[p])}
       /\ saving[p] = NotSaving => known_hosts["default"] = pins[p]
  /\ (\A p \in Processes : store[p] = None) =>
       \A s \in Servers : trusted[s] \subseteq {Pinned(s, known_hosts["default"])}

PinInv ==
  /\ \A p \in Processes : ProcessInv(p)
  /\ Calm => UserInv

-----------------------------------------------------------------------------
LEMMA AtMostOne == ASSUME NEW S, NEW x, S \subseteq {x} PROVE Cardinality(S) <= 1
  <1>1. IsFiniteSet({x}) /\ Cardinality({x}) = 1
    BY FS_Singleton
  <1> QED
    BY <1>1, FS_Subset

(***************************************************************************)
(* Types.                                                                  *)
(***************************************************************************)

LEMMA ServerTyped ==
  ASSUME PinTypes, NEW s \in Servers,
         \/ load_or_generate_cert(s) \/ WriteCert(s) \/ WriteKey(s) \/ ServeEphemeral(s) \/ ServerStops(s)
  PROVE  PinTypes'
  <1>1. IdentityTypes /\ StoreTypes /\ BoundTypes /\ ServesOne /\ cert_dir(s) \in Dirs
    BY PinAssumption DEF PinTypes
  <1>2. UNCHANGED pinVars
    BY DEF load_or_generate_cert, WriteCert, WriteKey, ServeEphemeral, ServerStops
  <1>3. StoreTypes'
    BY <1>1, <1>2 DEF StoreTypes, pinVars
  <1>4. CASE load_or_generate_cert(s)
    <2>1. next_cert + 1 \in Nat /\ next_cert + 1 # None
      BY <1>1, PinAssumption DEF IdentityTypes
    <2>2. BoundTypes'
      BY <1>1, <1>4 DEF load_or_generate_cert, BoundTypes, bounds
    <2>3. IdentityTypes' /\ ServesOne'
      BY <1>1, <1>4, <2>1 DEF load_or_generate_cert, Serve, IdentityTypes, ServesOne, Fingerprint
    <2> QED
      BY <1>3, <2>2, <2>3 DEF PinTypes
  <1>5. CASE WriteCert(s)
    <2>1. BoundTypes' /\ IdentityTypes' /\ ServesOne'
      BY <1>1, <1>5 DEF WriteCert, IdentityTypes, BoundTypes, ServesOne, bounds
    <2> QED
      BY <1>3, <2>1 DEF PinTypes
  <1>6. CASE WriteKey(s)
    <2>1. served[s] \in Nat
      BY <1>1, <1>6 DEF WriteKey, IdentityTypes, ServesOne, Fingerprint
    <2>2. BoundTypes' /\ IdentityTypes' /\ ServesOne'
      BY <1>1, <1>6, <2>1 DEF WriteKey, Serve, IdentityTypes, BoundTypes, ServesOne, bounds, Fingerprint
    <2> QED
      BY <1>3, <2>2 DEF PinTypes
  <1>7. CASE ServeEphemeral(s)
    <2>1. served[s] \in Nat
      BY <1>1, <1>7 DEF ServeEphemeral, IdentityTypes, ServesOne, Fingerprint
    <2>2. IdentityTypes' /\ ServesOne'
      BY <1>1, <1>7, <2>1 DEF ServeEphemeral, Serve, IdentityTypes, ServesOne, Fingerprint
    <2>3. BoundTypes'
      BY <1>1, <1>7 DEF ServeEphemeral, BoundTypes
    <2> QED
      BY <1>3, <2>2, <2>3 DEF PinTypes
  <1>8. CASE ServerStops(s)
    <2>1. IdentityTypes' /\ ServesOne'
      BY <1>1, <1>8 DEF ServerStops, IdentityTypes, ServesOne, Fingerprint
    <2>2. BoundTypes'
      BY <1>1, <1>8 DEF ServerStops, BoundTypes
    <2> QED
      BY <1>3, <2>1, <2>2 DEF PinTypes
  <1> QED
    BY <1>4, <1>5, <1>6, <1>7, <1>8

\* A server that is up presents a fingerprint.
LEMMA ServedUp == ASSUME PinTypes, NEW s \in Servers, boot[s] = "up" PROVE served[s] \in Nat
  BY DEF PinTypes, IdentityTypes, ServesOne, Fingerprint

LEMMA ProcessTyped ==
  ASSUME PinTypes, NEW p \in Processes, PinInv,
         \/ open_default(p) \/ PersistOpens(p) \/ PersistWrites(p) \/ PersistFails(p) \/ ProcessStops(p)
         \/ \E s \in Servers : check_pin(p, s)
  PROVE  PinTypes' /\ UNCHANGED serverVars /\ ephemeral' = ephemeral
  <1>1. IdentityTypes /\ StoreTypes /\ BoundTypes /\ ServesOne /\ ProcessInv(p)
    BY DEF PinTypes, PinInv
  <1>2. UNCHANGED serverVars /\ ephemeral' = ephemeral
    BY DEF open_default, PersistOpens, PersistWrites, PersistFails, ProcessStops, check_pin, bounds
  <1>3. IdentityTypes' /\ ServesOne'
    BY <1>1, <1>2 DEF IdentityTypes, ServesOne, serverVars
  <1>4. BoundTypes'
    BY <1>1, <1>2 DEF BoundTypes, open_default, PersistOpens, PersistWrites, PersistFails, ProcessStops,
                      check_pin, bounds
  <1>5. ASSUME NEW s \in Servers, saving[p] # NotSaving, s = saving[p].for PROVE pins[p][s] \in Nat
    BY <1>1, <1>5 DEF ProcessInv, StoreTypes, Fingerprint
  <1>6. CASE open_default(p)
    BY <1>1, <1>2, <1>3, <1>4, <1>6 DEF PinTypes, StoreTypes, open_default, Files
  <1>7. CASE PersistOpens(p)
    <2>1. saving[p] # NotSaving /\ store[p] \in Files /\ saving[p] \in [step : {"open", "write"}, for : Servers]
      BY <1>1, <1>7 DEF PersistOpens, ProcessInv, StoreTypes, NotSaving, Files
    <2>2. NoPins \in [Servers -> Fingerprint]
      BY DEF NoPins, Fingerprint
    <2> QED
      <3>1. [saving[p] EXCEPT !.step = "write"] \in [step : {"open", "write"}, for : Servers]
        BY <2>1
      <3>2. saving' = [saving EXCEPT ![p] = [saving[p] EXCEPT !.step = "write"]]
        BY <1>1, <1>7 DEF PersistOpens, StoreTypes
      <3>3. saving' \in [Processes -> {NotSaving} \cup [step : {"open", "write"}, for : Servers]]
        BY <1>1, <3>1, <3>2 DEF StoreTypes
      <3> QED
        BY <1>1, <1>2, <1>3, <1>4, <1>7, <2>1, <2>2, <3>3 DEF PinTypes, StoreTypes, PersistOpens
  <1>8. CASE PersistWrites(p)
    <2>1. saving[p] # NotSaving /\ store[p] \in Files /\ saving[p].for \in Servers
      BY <1>1, <1>8 DEF PersistWrites, ProcessInv, StoreTypes, NotSaving, Files
    <2>2. pins[p][saving[p].for] \in Nat
      BY <1>5, <2>1
    <2> QED
      BY <1>1, <1>2, <1>3, <1>4, <1>8, <2>1, <2>2 DEF PinTypes, StoreTypes, PersistWrites, Accept
  <1>9. CASE PersistFails(p)
    BY <1>1, <1>2, <1>3, <1>4, <1>9 DEF PinTypes, StoreTypes, PersistFails
  <1>10. CASE ProcessStops(p)
    <2>1. NoPins \in [Servers -> Fingerprint]
      BY DEF NoPins, Fingerprint
    <2> QED
      BY <1>1, <1>2, <1>3, <1>4, <1>10, <2>1 DEF PinTypes, StoreTypes, ProcessStops
  <1>11. ASSUME NEW s \in Servers, check_pin(p, s) PROVE PinTypes'
    <2>1. served[s] \in Nat /\ served[s] \in Fingerprint
      BY <1>11, ServedUp DEF check_pin, Fingerprint
    <2>2. [step |-> "open", for |-> s] \in [step : {"open", "write"}, for : Servers]
      OBVIOUS
    <2>3. StoreTypes'
      <3>1. ASSUME NEW fp \in Nat, Accept(p, s, fp)
            PROVE  accepted' \in [Processes -> [Servers -> SUBSET Nat]] /\ trusted' \in [Servers -> SUBSET Nat]
        BY <1>1, <3>1 DEF StoreTypes, Accept
      <3>2. \/ UNCHANGED <<pins, saving>> /\ \E fp \in Nat : Accept(p, s, fp)
            \/ UNCHANGED <<pins, saving, accepted, trusted>>
            \/ /\ pins' = [pins EXCEPT ![p][s] = served[s]]
               /\ saving' = [saving EXCEPT ![p] = [step |-> "open", for |-> s]]
               /\ UNCHANGED <<accepted, trusted>>
        BY <1>11, <2>1 DEF check_pin, verify_or_remember
      <3>3. accepted' \in [Processes -> [Servers -> SUBSET Nat]] /\ trusted' \in [Servers -> SUBSET Nat]
        BY <1>1, <3>1, <3>2 DEF StoreTypes
      <3>4. /\ pins' \in [Processes -> [Servers -> Fingerprint]]
            /\ saving' \in [Processes -> {NotSaving} \cup [step : {"open", "write"}, for : Servers]]
        <4>1. /\ [pins EXCEPT ![p][s] = served[s]] \in [Processes -> [Servers -> Fingerprint]]
              /\ [saving EXCEPT ![p] = [step |-> "open", for |-> s]]
                   \in [Processes -> {NotSaving} \cup [step : {"open", "write"}, for : Servers]]
          BY <1>1, <2>1, <2>2 DEF StoreTypes
        <4> QED
          BY <1>1, <3>2, <4>1 DEF StoreTypes
      <3> QED
        BY <1>1, <1>11, <3>3, <3>4 DEF StoreTypes, check_pin
    <2> QED
      BY <1>3, <1>4, <2>3 DEF PinTypes
  <1> QED
    BY <1>2, <1>6, <1>7, <1>8, <1>9, <1>10, <1>11

(***************************************************************************)
(* Identities.                                                             *)
(***************************************************************************)

\* Every server keeps its identity in a directory of its own.
OwnDirs == \A s, t \in Servers : cert_dir(s) = cert_dir(t) => s = t

LEMMA LoadIdentity ==
  ASSUME PinTypes, IdentityInv, NEW s \in Servers, load_or_generate_cert(s) PROVE IdentityInv'
  <1> SUFFICES ASSUME ephemeral = 0, NEW t \in Servers PROVE Identity(t)'
    BY DEF load_or_generate_cert, bounds, IdentityInv
  <1> QED
    BY DEF load_or_generate_cert, Serve, IdentityInv, Identity, PinTypes, IdentityTypes

LEMMA CertIdentity == ASSUME OwnDirs, PinTypes, IdentityInv, NEW s \in Servers, WriteCert(s) PROVE IdentityInv'
  <1> SUFFICES ASSUME ephemeral = 0, NEW t \in Servers PROVE Identity(t)'
    BY DEF WriteCert, bounds, IdentityInv
  <1>1. cert_dir(s) \in Dirs /\ cert_dir(t) \in Dirs /\ (t # s => cert_dir(t) # cert_dir(s))
    BY PinAssumption DEF OwnDirs
  <1> QED
    BY <1>1 DEF WriteCert, IdentityInv, Identity, PinTypes, IdentityTypes

\* The key goes where there was none, so nothing has been presented yet.
LEMMA KeyIdentity == ASSUME OwnDirs, PinTypes, IdentityInv, NEW s \in Servers, WriteKey(s) PROVE IdentityInv'
  <1> SUFFICES ASSUME ephemeral = 0, NEW t \in Servers PROVE Identity(t)'
    BY DEF WriteKey, bounds, IdentityInv
  <1>1. cert_dir(s) \in Dirs /\ cert_dir(t) \in Dirs /\ (t # s => cert_dir(t) # cert_dir(s))
    BY PinAssumption DEF OwnDirs
  <1>2. presented[s] = {}
    BY PinAssumption DEF WriteKey, IdentityInv, Identity, PinTypes, IdentityTypes
  <1> QED
    BY <1>1, <1>2 DEF WriteKey, Serve, IdentityInv, Identity, PinTypes, IdentityTypes

LEMMA EphemeralIdentity == ASSUME PinTypes, NEW s \in Servers, ServeEphemeral(s) PROVE IdentityInv'
  <1>1. ephemeral' # 0
    BY DEF ServeEphemeral, PinTypes, BoundTypes
  <1> QED
    BY <1>1 DEF IdentityInv

LEMMA StopIdentity == ASSUME PinTypes, IdentityInv, NEW s \in Servers, ServerStops(s) PROVE IdentityInv'
  BY DEF ServerStops, IdentityInv, Identity, PinTypes, IdentityTypes

(***************************************************************************)
(* Pins.                                                                   *)
(***************************************************************************)

\* What the servers do does not touch a pin.
LEMMA PinsKept ==
  ASSUME PinTypes, PinInv, UNCHANGED pinVars, failures' = failures, crashes' = crashes \/ crashes' = crashes + 1
  PROVE  PinInv'
  <1>1. \A p \in Processes : ProcessInv(p)'
    BY DEF PinInv, ProcessInv, pinVars
  <1>2. Calm' => Calm
    BY DEF Calm, PinTypes, BoundTypes, pinVars
  <1>3. UserInv => UserInv'
    BY DEF UserInv, pinVars
  <1> QED
    BY <1>1, <1>2, <1>3 DEF PinInv

\* A process does nothing to what another one has accepted.
LEMMA OthersKept ==
  ASSUME NEW q \in Processes, ProcessInv(q), accepted'[q] = accepted[q], pins'[q] = pins[q],
         store'[q] = store[q], saving'[q] = saving[q]
  PROVE  ProcessInv(q)'
  BY DEF ProcessInv

LEMMA OpenPins == ASSUME PinTypes, PinInv, NEW p \in Processes, open_default(p) PROVE PinInv'
  <1>1. StoreTypes /\ BoundTypes /\ ProcessInv(p) /\ store[p] = None
    BY DEF PinTypes, PinInv, open_default
  <1>2. ASSUME NEW q \in Processes PROVE ProcessInv(q)'
    <2>1. CASE q = p
      BY <1>1, <2>1, PinAssumption DEF ProcessInv, StoreTypes, open_default, Pinned
    <2>2. CASE q # p
      BY <1>1, <2>2, OthersKept DEF PinInv, StoreTypes, open_default
    <2> QED
      BY <2>1, <2>2
  <1>3. ASSUME Calm' PROVE UserInv'
    <2>1. /\ Calm
          /\ \A q \in Processes : store[q] = None
          /\ store' = [store EXCEPT ![p] = "default"]
          /\ pins' = [pins EXCEPT ![p] = known_hosts["default"]]
      <3>1. PICK w \in {"default", "temp"} :
              /\ failures' = IF w = "temp" THEN failures + 1 ELSE failures
              /\ store' = [store EXCEPT ![p] = w] /\ pins' = [pins EXCEPT ![p] = known_hosts[w]]
        BY DEF open_default
      <3>2. w = "default" /\ failures = 0
        BY <1>1, <1>3, <3>1 DEF Calm, BoundTypes
      <3>3. alone /\ \A q \in Processes : store[q] = None
        BY <1>3, Zenon DEF Calm, open_default
      <3> QED
        BY <1>3, <3>1, <3>2, <3>3 DEF Calm, open_default
    <2>2. UserInv
      BY <2>1 DEF PinInv
    <2> QED
      BY <1>1, <2>1, <2>2, PinAssumption DEF UserInv, StoreTypes, open_default, Pinned
  <1> QED
    BY <1>2, <1>3 DEF PinInv

\* A handshake: a fingerprint is accepted only if it is the pinned one.
LEMMA CheckPins == ASSUME PinTypes, PinInv, NEW p \in Processes, NEW s \in Servers, check_pin(p, s) PROVE PinInv'
  <1>1. /\ StoreTypes /\ BoundTypes /\ ProcessInv(p) /\ store[p] # None /\ saving[p] = NotSaving
        /\ served[s] \in Nat /\ served[s] # None
        /\ UNCHANGED <<store, known_hosts, alone, crashes, failures>>
    BY ServedUp, PinAssumption DEF PinTypes, PinInv, check_pin, bounds
  <1>2. Calm' => Calm
    BY <1>1 DEF Calm
  <1>3. ASSUME s \notin Configured, pins[p][s] = None
        PROVE  accepted[p][s] = {} /\ (Calm => trusted[s] = {})
    BY <1>1, <1>3, PinAssumption DEF PinInv, UserInv, ProcessInv, StoreTypes, Pinned
  <1>4. CASE \E fp \in {Pinned(s, pins[p])} :
               Accept(p, s, fp) /\ UNCHANGED <<pins, saving>>
    <2>1. ASSUME NEW q \in Processes PROVE ProcessInv(q)'
      <3>1. CASE q = p
        BY <1>1, <1>4, <3>1 DEF ProcessInv, StoreTypes, Accept
      <3>2. CASE q # p
        BY <1>1, <1>4, <3>2, OthersKept DEF PinInv, StoreTypes, Accept
      <3> QED
        BY <3>1, <3>2
    <2>2. ASSUME Calm' PROVE UserInv'
      BY <1>1, <1>2, <1>4, <2>2 DEF PinInv, UserInv, StoreTypes, Accept
    <2> QED
      BY <2>1, <2>2 DEF PinInv
  <1>5. CASE UNCHANGED <<pins, saving, accepted, trusted>>
    <2>1. \A q \in Processes : ProcessInv(q)'
      BY <1>1, <1>5, OthersKept DEF PinInv
    <2>2. ASSUME Calm' PROVE UserInv'
      BY <1>1, <1>2, <1>5, <2>2 DEF PinInv, UserInv
    <2> QED
      BY <2>1, <2>2 DEF PinInv
  <1>6. CASE /\ s \notin Configured /\ pins[p][s] = None
             /\ pins' = [pins EXCEPT ![p][s] = served[s]]
             /\ saving' = [saving EXCEPT ![p] = [step |-> "open", for |-> s]]
             /\ UNCHANGED <<accepted, trusted>>
    <2>1. /\ pins' \in [Processes -> [Servers -> Fingerprint]] /\ pins'[p][s] = served[s]
          /\ \A q \in Processes : q # p => pins'[q] = pins[q] /\ saving'[q] = saving[q]
          /\ \A t \in Servers : t # s => pins'[p][t] = pins[p][t]
          /\ saving'[p].step = "open" /\ saving'[p].for = s /\ saving'[p] # NotSaving
      BY <1>1, <1>6 DEF StoreTypes, Fingerprint, NotSaving
    <2>2. ASSUME NEW q \in Processes PROVE ProcessInv(q)'
      <3>1. CASE q = p
        BY <1>1, <1>3, <1>6, <2>1, <3>1 DEF ProcessInv, Pinned
      <3>2. CASE q # p
        BY <1>1, <1>6, <2>1, <3>2, OthersKept DEF PinInv
      <3> QED
        BY <3>1, <3>2
    <2>3. ASSUME Calm' PROVE UserInv'
      <3>1. UserInv
        BY <1>2, <2>3 DEF PinInv
      <3>2. \A t \in Servers : trusted[t] \subseteq {Pinned(t, pins'[p])}
        BY <1>1, <1>2, <1>3, <1>6, <2>1, <2>3, <3>1 DEF UserInv, Pinned
      <3>3. \A q \in Processes : store[q] # None => q = p
        BY <1>1, <3>1 DEF UserInv
      <3> QED
        BY <1>1, <1>6, <2>1, <3>1, <3>2, <3>3 DEF UserInv
    <2> QED
      BY <2>2, <2>3 DEF PinInv
  <1> QED
    <2>1. CASE s \in Configured
      BY <1>4, <2>1 DEF check_pin, Pinned
    <2>2. CASE s \notin Configured
      BY <1>4, <1>5, <1>6, <2>2 DEF check_pin, verify_or_remember, Pinned
    <2> QED
      BY <2>1, <2>2

\* While the file is being written the pins are in the process's memory only.
LEMMA PersistOpensPins == ASSUME PinTypes, PinInv, NEW p \in Processes, PersistOpens(p) PROVE PinInv'
  <1>1. /\ StoreTypes /\ ProcessInv(p) /\ saving[p].step = "open" /\ saving[p] # NotSaving
        /\ UNCHANGED <<store, pins, accepted, trusted, alone, crashes, failures>>
    BY DEF PinTypes, PinInv, PersistOpens, bounds, NotSaving
  <1>2. /\ saving'[p].for = saving[p].for /\ saving'[p] # NotSaving
        /\ \A q \in Processes : q # p => saving'[q] = saving[q]
    <2>1. saving[p] \in [step : {"open", "write"}, for : Servers]
      BY <1>1 DEF StoreTypes
    <2> QED
      BY <1>1, <2>1 DEF PersistOpens, StoreTypes, NotSaving
  <1>3. ASSUME NEW q \in Processes PROVE ProcessInv(q)'
    <2>1. CASE q = p
      BY <1>1, <1>2, <2>1 DEF ProcessInv
    <2>2. CASE q # p
      BY <1>1, <1>2, <2>2, OthersKept DEF PinInv
    <2> QED
      BY <2>1, <2>2
  <1>4. ASSUME Calm' PROVE UserInv'
    <2>1. UserInv
      BY <1>1, <1>4 DEF PinInv, Calm
    <2>2. store[p] # None
      BY <1>1 DEF ProcessInv
    <2> QED
      BY <1>1, <1>2, <2>1, <2>2 DEF UserInv
  <1> QED
    BY <1>3, <1>4 DEF PinInv

LEMMA PersistWritesPins == ASSUME PinTypes, PinInv, NEW p \in Processes, PersistWrites(p) PROVE PinInv'
  <1> DEFINE s == saving[p].for
  <1>1. /\ StoreTypes /\ ProcessInv(p) /\ saving[p].step = "write" /\ saving[p] # NotSaving
        /\ s \in Servers /\ s \notin Configured /\ store[p] # None
        /\ UNCHANGED <<store, pins, alone, crashes, failures>>
    BY DEF PinTypes, PinInv, ProcessInv, StoreTypes, PersistWrites, bounds, NotSaving
  <1>2. /\ saving' = [saving EXCEPT ![p] = NotSaving]
        /\ known_hosts' = [known_hosts EXCEPT ![store[p]] = pins[p]]
        /\ accepted' = [accepted EXCEPT ![p][s] = @ \cup {pins[p][s]}]
        /\ trusted' = [trusted EXCEPT ![s] = @ \cup {pins[p][s]}]
    BY DEF PersistWrites, Accept
  <1> HIDE DEF s
  <1>3. ASSUME NEW q \in Processes PROVE ProcessInv(q)'
    <2>1. CASE q = p
      BY <1>1, <1>2, <2>1 DEF ProcessInv, StoreTypes, Pinned
    <2>2. CASE q # p
      BY <1>1, <1>2, <2>2, OthersKept DEF PinInv, StoreTypes
    <2> QED
      BY <2>1, <2>2
  <1>4. ASSUME Calm' PROVE UserInv'
    <2>1. UserInv
      BY <1>1, <1>4 DEF PinInv, Calm
    <2>2. store[p] = "default" /\ \A q \in Processes : store[q] # None => q = p
      BY <1>1, <2>1 DEF UserInv
    <2>3. \A t \in Servers : trusted'[t] \subseteq {Pinned(t, pins[p])}
      BY <1>1, <1>2, <2>1 DEF UserInv, StoreTypes, Pinned
    <2>4. known_hosts'["default"] = pins[p]
      BY <1>1, <1>2, <2>2 DEF StoreTypes, Files
    <2> QED
      BY <1>1, <2>1, <2>2, <2>3, <2>4 DEF UserInv
  <1> QED
    BY <1>3, <1>4 DEF PinInv

LEMMA PersistFailsPins == ASSUME PinTypes, PinInv, NEW p \in Processes, PersistFails(p) PROVE PinInv'
  <1>1. /\ StoreTypes /\ BoundTypes /\ ProcessInv(p) /\ saving' = [saving EXCEPT ![p] = NotSaving]
        /\ failures' = failures + 1
        /\ UNCHANGED <<store, pins, accepted>>
    BY DEF PinTypes, PinInv, PersistFails
  <1>2. \A q \in Processes : ProcessInv(q)'
    BY <1>1 DEF PinInv, ProcessInv, StoreTypes
  <1>3. ~ Calm'
    BY <1>1 DEF Calm, BoundTypes
  <1> QED
    BY <1>2, <1>3 DEF PinInv

\* A process that stops with nothing to write leaves its pins in the file.
LEMMA StopPins == ASSUME PinTypes, PinInv, NEW p \in Processes, ProcessStops(p) PROVE PinInv'
  <1>1. /\ StoreTypes /\ BoundTypes /\ ProcessInv(p) /\ store[p] # None
        /\ store' = [store EXCEPT ![p] = None] /\ pins' = [pins EXCEPT ![p] = NoPins]
        /\ saving' = [saving EXCEPT ![p] = NotSaving]
        /\ accepted' = [accepted EXCEPT ![p] = [s \in Servers |-> {}]]
        /\ UNCHANGED <<known_hosts, trusted, alone, failures>>
    BY DEF PinTypes, PinInv, ProcessStops
  <1>2. ASSUME NEW q \in Processes PROVE ProcessInv(q)'
    <2>1. CASE q = p
      BY <1>1, <2>1 DEF ProcessInv, StoreTypes
    <2>2. CASE q # p
      BY <1>1, <2>2, OthersKept DEF PinInv, StoreTypes
    <2> QED
      BY <2>1, <2>2
  <1>3. ASSUME Calm' PROVE UserInv'
    <2>1. Calm /\ saving[p] = NotSaving
      BY <1>1, <1>3 DEF Calm, ProcessStops, BoundTypes
    <2>2. UserInv /\ known_hosts["default"] = pins[p]
      BY <1>1, <2>1 DEF PinInv, UserInv
    <2>3. \A q \in Processes : store'[q] = None
      BY <1>1, <2>2 DEF UserInv, StoreTypes
    <2>4. \A s \in Servers : trusted[s] \subseteq {Pinned(s, known_hosts["default"])}
      BY <1>1, <2>2 DEF UserInv
    <2> QED
      BY <1>1, <2>3, <2>4 DEF UserInv
  <1> QED
    BY <1>2, <1>3 DEF PinInv

-----------------------------------------------------------------------------
(***************************************************************************)
(* The theorems.                                                           *)
(***************************************************************************)

LEMMA PinStart == ASSUME PinInit PROVE PinTypes /\ PinInv /\ IdentityInv
  <1>1. PinTypes
    BY DEF PinInit, PinTypes, IdentityTypes, StoreTypes, BoundTypes, ServesOne, Fingerprint, NoPins, Files
  <1>2. \A p \in Processes : ProcessInv(p)
    BY DEF PinInit, ProcessInv
  <1>3. UserInv
    BY DEF PinInit, UserInv
  <1>4. IdentityInv
    BY DEF PinInit, IdentityInv, Identity
  <1> QED
    BY <1>1, <1>2, <1>3, <1>4 DEF PinInv

LEMMA PinStep == ASSUME PinTypes, PinInv, [PinNext]_pinStoreVars PROVE PinTypes' /\ PinInv'
  <1>1. CASE UNCHANGED pinStoreVars
    <2>1. PinTypes'
      BY <1>1 DEF PinTypes, IdentityTypes, StoreTypes, BoundTypes, ServesOne, pinStoreVars, serverVars, pinVars, bounds
    <2> QED
      BY <1>1, <2>1, PinsKept DEF pinStoreVars, bounds
  <1>2. ASSUME NEW s \in Servers,
               \/ load_or_generate_cert(s) \/ WriteCert(s) \/ WriteKey(s) \/ ServeEphemeral(s) \/ ServerStops(s)
        PROVE  PinTypes' /\ PinInv'
    <2>1. UNCHANGED pinVars /\ failures' = failures /\ (crashes' = crashes \/ crashes' = crashes + 1)
      BY <1>2 DEF load_or_generate_cert, WriteCert, WriteKey, ServeEphemeral, ServerStops, bounds
    <2> QED
      BY <1>2, <2>1, ServerTyped, PinsKept
  <1>3. ASSUME NEW p \in Processes,
               \/ open_default(p) \/ PersistOpens(p) \/ PersistWrites(p) \/ PersistFails(p) \/ ProcessStops(p)
               \/ \E s \in Servers : check_pin(p, s)
        PROVE  PinTypes' /\ PinInv'
    BY <1>3, ProcessTyped, OpenPins, PersistOpensPins, PersistWritesPins, PersistFailsPins, StopPins, CheckPins
  <1> QED
    BY <1>1, <1>2, <1>3 DEF PinNext

LEMMA IdentityStep ==
  ASSUME OwnDirs, PinTypes, PinInv, IdentityInv, [PinNext]_pinStoreVars PROVE IdentityInv'
  <1>1. ASSUME UNCHANGED serverVars, ephemeral' = ephemeral PROVE IdentityInv'
    BY <1>1 DEF IdentityInv, Identity, serverVars
  <1>2. CASE UNCHANGED pinStoreVars
    BY <1>1, <1>2 DEF pinStoreVars, bounds
  <1>3. ASSUME NEW s \in Servers,
               \/ load_or_generate_cert(s) \/ WriteCert(s) \/ WriteKey(s) \/ ServeEphemeral(s) \/ ServerStops(s)
        PROVE  IdentityInv'
    BY <1>3, LoadIdentity, CertIdentity, KeyIdentity, EphemeralIdentity, StopIdentity
  <1>4. ASSUME NEW p \in Processes,
               \/ open_default(p) \/ PersistOpens(p) \/ PersistWrites(p) \/ PersistFails(p) \/ ProcessStops(p)
               \/ \E s \in Servers : check_pin(p, s)
        PROVE  IdentityInv'
    BY <1>1, <1>4, ProcessTyped
  <1> QED
    BY <1>2, <1>3, <1>4 DEF PinNext

\* As long as its files can be written, a server presents one fingerprint over
\* all its restarts, wherever between the two writes it died
\* (load_or_generate_cert), if no other server keeps its identity there.
THEOREM IdentityIsStable == ASSUME OwnDirs PROVE PinSpec => []FingerprintStable
  <1> DEFINE I == PinTypes /\ PinInv /\ IdentityInv
  <1>1. PinInit => I
    BY PinStart
  <1>2. I /\ [PinNext]_pinStoreVars => I'
    BY PinStep, IdentityStep
  <1>3. I => FingerprintStable
    BY AtMostOne DEF IdentityInv, Identity, FingerprintStable
  <1> QED
    BY <1>1, <1>2, <1>3, PTL DEF PinSpec

\* Trust on first use: a process accepts one fingerprint for an address
\* whatever the others do to the file, and so does the user over all restarts
\* if one process at a time uses the store and its writes succeed.
THEOREM PinsAreEnforced == PinSpec => []PinEnforced
  <1> DEFINE I == PinTypes /\ PinInv
  <1>1. PinInit => I
    BY PinStart
  <1>2. I /\ [PinNext]_pinStoreVars => I'
    BY PinStep
  <1>3. ASSUME I PROVE PinEnforced
    <2>1. ASSUME NEW p \in Processes, NEW s \in Servers PROVE Cardinality(accepted[p][s]) <= 1
      BY <1>3, AtMostOne DEF PinInv, ProcessInv
    <2>2. ASSUME Calm, NEW s \in Servers PROVE Cardinality(trusted[s]) <= 1
      BY <1>3, <2>2, AtMostOne DEF PinInv, UserInv
    <2> QED
      BY <2>1, <2>2 DEF PinEnforced, Calm
  <1> QED
    BY <1>1, <1>2, <1>3, PTL DEF PinSpec

-----------------------------------------------------------------------------
(***************************************************************************)
(* Framing.  pipe is all that has been written and not been read, and the  *)
(* invariant says where in it each message starts.  While a length has     *)
(* been read and its payload has not, the message under way starts one     *)
(* element before the pipe.                                                *)
(***************************************************************************)
pipe == arrived \o stream
under_way == Len(received) + 1

\* The header of message m is the element after start, its payload follows.
StandsAt(m, start) ==
  /\ start >= 0 => pipe[start + 1] = <<0, sent[m]>>
  /\ \A i \in 1..sent[m] : pipe[start + 1 + i] = <<m, i>>

Starts(start) ==
  /\ start[under_way] = IF expected = -1 THEN 0 ELSE -1
  /\ start[Len(sent) + 1] = Len(pipe)
  /\ \A m \in under_way..Len(sent) :
       start[m + 1] = start[m] + 1 + sent[m] /\ StandsAt(m, start[m])
  /\ \A m, n \in under_way..(Len(sent) + 1) : m <= n => start[m] <= start[n]

FramingTypes ==
  /\ sent \in Seq(Sizes)
  /\ stream \in Seq(Nat \X Nat) /\ arrived \in Seq(Nat \X Nat)
  /\ expected \in Nat \cup {-1}
  /\ received \in Seq(Seq(Nat \X Nat))
  /\ open \in BOOLEAN

\* What was decoded is what was written.
Decoded ==
  /\ Len(received) <= Len(sent)
  /\ \A m \in 1..Len(received) : received[m] = Payload(m, sent[m])

\* The length that was read is that of the message under way.
LengthIsRight == (open /\ expected # -1) => under_way <= Len(sent) /\ expected = sent[under_way]

InFrame == open => \E start \in [under_way..(Len(sent) + 1) -> Int] : Starts(start)

FramingInv == FramingTypes /\ Decoded /\ LengthIsRight /\ InFrame

\* A payload's length fits the prefix: encode does not check it, and the
\* reader could not tell a length that was cut from another.
LengthsFit == \A size \in Sizes : size < PrefixWidth

LEMMA FramingInitially ==
  ASSUME FramingInit
  PROVE  FramingInv
<1>1. FramingTypes BY DEF FramingInit, FramingTypes
<1>2. Decoded /\ LengthIsRight BY DEF FramingInit, Decoded, LengthIsRight
<1>3. InFrame
  <2> DEFINE start == [m \in under_way..(Len(sent) + 1) |-> 0]
  <2>1. under_way = 1 /\ Len(sent) = 0 /\ Len(pipe) = 0 BY DEF FramingInit, under_way, pipe
  <2>2. start \in [under_way..(Len(sent) + 1) -> Int] OBVIOUS
  <2>3. Starts(start) BY <2>1 DEF FramingInit, Starts
  <2>4. QED BY <2>2, <2>3 DEF InFrame
<1>4. QED BY <1>1, <1>2, <1>3 DEF FramingInv

\* What is written is added at the end of the pipe.
LEMMA PipeGrows ==
  ASSUME NEW T, arrived \in Seq(T), stream \in Seq(T), NEW added \in Seq(T),
         arrived' = arrived, stream' = stream \o added
  PROVE  /\ pipe \in Seq(T) /\ pipe' = pipe \o added /\ Len(pipe) \in Nat
         /\ Len(pipe') = Len(pipe) + Len(added)
         /\ \A i \in 1..Len(pipe) : pipe'[i] = pipe[i]
         /\ \A i \in 1..Len(added) : pipe'[Len(pipe) + i] = added[i]
<1>1. pipe \in Seq(T) /\ Len(pipe) \in Nat BY DEF pipe
<1>2. pipe' = arrived \o (stream \o added) BY DEF pipe
<1>3. arrived \o (stream \o added) = (arrived \o stream) \o added OBVIOUS
<1>4. pipe' = pipe \o added BY <1>2, <1>3 DEF pipe
<1> HIDE DEF pipe
<1>5. Len(pipe \o added) = Len(pipe) + Len(added) BY <1>1
<1>6. \A i \in 1..Len(pipe) : (pipe \o added)[i] = pipe[i] BY <1>1
<1>7. ASSUME NEW i \in 1..Len(added) PROVE (pipe \o added)[Len(pipe) + i] = added[i] BY <1>1
<1>8. QED BY <1>1, <1>4, <1>5, <1>6, <1>7

\* Every message that has not been read is in the pipe, but for the length of
\* the one under way.
LEMMA StartsWithin ==
  ASSUME FramingInv, NEW start \in [under_way..(Len(sent) + 1) -> Int], Starts(start),
         NEW m \in under_way..Len(sent)
  PROVE  /\ start[m] \in Int /\ start[under_way] <= start[m] /\ start[m + 1] <= Len(pipe)
         /\ under_way < m => start[under_way + 1] <= start[m]
<1>1. under_way \in 1..(Len(sent) + 1) /\ Len(sent) \in Nat
  BY DEF FramingInv, FramingTypes, Decoded, under_way
<1>2. /\ m \in under_way..(Len(sent) + 1) /\ m + 1 \in under_way..(Len(sent) + 1)
      /\ under_way \in under_way..(Len(sent) + 1) /\ Len(sent) + 1 \in under_way..(Len(sent) + 1)
      /\ under_way <= m /\ m + 1 <= Len(sent) + 1
      /\ under_way < m => under_way + 1 \in under_way..(Len(sent) + 1) /\ under_way + 1 <= m
  BY <1>1
<1>3. start[under_way] <= start[m] /\ start[m + 1] <= start[Len(sent) + 1] BY <1>2 DEF Starts
<1>4. under_way < m => start[under_way + 1] <= start[m] BY <1>2 DEF Starts
<1>5. QED BY <1>2, <1>3, <1>4 DEF Starts

\* A message that is written starts where the pipe ended.
LEMMA WriteMessageStep ==
  ASSUME FramingAssumption, LengthsFit, FramingInv, NEW size \in Sizes, write_message(size)
  PROVE  FramingInv'
<1> DEFINE N == Len(sent)
           added == encode(N + 1, size)
<1>1. /\ N = Len(sent) /\ open /\ sent \in Seq(Sizes) /\ sent' = Append(sent, size) /\ size \in Nat
      /\ N \in Nat /\ Len(sent') = N + 1
      /\ UNCHANGED <<arrived, expected, received, open>>
  BY DEF write_message, FramingInv, FramingTypes, FramingAssumption
<1>2. /\ added \in Seq(Nat \X Nat) /\ Len(added) = size + 1 /\ added[1] = <<0, size>>
      /\ \A i \in 1..size : added[i + 1] = <<N + 1, i>>
  <2> DEFINE hd == << <<0, size>> >>
             tl == Payload(N + 1, size)
  <2>1. size % PrefixWidth = size BY <1>1 DEF LengthsFit, FramingAssumption
  <2>2. added = hd \o tl BY <2>1 DEF encode
  <2>3. hd \in Seq(Nat \X Nat) /\ Len(hd) = 1 /\ hd[1] = <<0, size>> BY <1>1
  <2>4. tl \in Seq(Nat \X Nat) /\ Len(tl) = size /\ \A i \in 1..size : tl[i] = <<N + 1, i>>
    BY <1>1 DEF Payload
  <2> HIDE DEF hd, tl, added
  <2>5. /\ added \in Seq(Nat \X Nat) /\ Len(added) = Len(hd) + Len(tl)
        /\ \A i \in 1..(Len(hd) + Len(tl)) : added[i] = IF i <= Len(hd) THEN hd[i] ELSE tl[i - Len(hd)]
    BY <2>2, <2>3, <2>4, ConcatProperties
  <2>6. Len(added) = size + 1 /\ added[1] = <<0, size>> BY <1>1, <2>3, <2>4, <2>5
  <2>7. ASSUME NEW i \in 1..size PROVE added[i + 1] = <<N + 1, i>>
    <3>1. i \in Nat /\ i + 1 \in 1..(1 + size) /\ ~ (i + 1 <= 1) /\ (i + 1) - 1 = i BY <1>1
    <3>2. QED BY <2>3, <2>4, <2>5, <3>1
  <2>8. QED BY <2>5, <2>6, <2>7
<1>3. stream' = stream \o added BY <1>1 DEF write_message
<1> HIDE DEF added, N
<1>4. FramingTypes' BY <1>1, <1>2, <1>3 DEF FramingInv, FramingTypes
<1>5. Decoded'
  BY <1>1 DEF FramingInv, FramingTypes, Decoded
<1>6. LengthIsRight'
  BY <1>1 DEF FramingInv, FramingTypes, LengthIsRight, under_way
<1>7. InFrame'
  <2>1. PICK start \in [under_way..(N + 1) -> Int] : Starts(start)
    BY <1>1 DEF FramingInv, InFrame
  <2>2. /\ pipe \in Seq(Nat \X Nat) /\ pipe' = pipe \o added /\ Len(pipe) \in Nat
        /\ Len(pipe') = Len(pipe) + size + 1
        /\ \A i \in 1..Len(pipe) : pipe'[i] = pipe[i]
        /\ \A i \in 1..(size + 1) : pipe'[Len(pipe) + i] = added[i]
    <3>1. arrived \in Seq(Nat \X Nat) /\ stream \in Seq(Nat \X Nat) BY DEF FramingInv, FramingTypes
    <3>2. arrived' = arrived BY <1>1
    <3>3. /\ pipe \in Seq(Nat \X Nat) /\ pipe' = pipe \o added /\ Len(pipe) \in Nat
          /\ Len(pipe') = Len(pipe) + Len(added)
          /\ \A i \in 1..Len(pipe) : pipe'[i] = pipe[i]
          /\ \A i \in 1..Len(added) : pipe'[Len(pipe) + i] = added[i]
      BY <1>2, <1>3, <3>1, <3>2, PipeGrows
    <3>4. QED BY <1>1, <1>2, <3>3
  <2>3. under_way' = under_way /\ under_way \in 1..(N + 1)
    BY <1>1 DEF under_way, FramingInv, FramingTypes, Decoded
  <2>4. PICK S : S = [m \in under_way..(N + 2) |-> IF m = N + 2 THEN Len(pipe) + size + 1 ELSE start[m]]
    OBVIOUS
  <2>5. /\ S \in [under_way..(N + 2) -> Int]
        /\ S[N + 2] = Len(pipe) + size + 1
        /\ \A m \in under_way..(N + 1) : S[m] = start[m] /\ S[m] \in Int
    <3>1. ASSUME NEW m \in under_way..(N + 1)
          PROVE  m \in under_way..(N + 2) /\ m # N + 2 /\ S[m] = start[m] /\ start[m] \in Int
      <4>1. m \in under_way..(N + 2) /\ m # N + 2 BY <1>1, <2>3
      <4>2. QED BY <2>4, <4>1
    <3>2. N + 2 \in under_way..(N + 2) BY <1>1, <2>3
    <3>3. S[N + 2] = Len(pipe) + size + 1 BY <2>4, <3>2
    <3>4. \A m \in under_way..(N + 2) : m = N + 2 \/ m \in under_way..(N + 1) BY <1>1, <2>3
    <3>5. Len(pipe) + size + 1 \in Int BY <1>1, <2>2
    <3>6. S \in [under_way..(N + 2) -> Int] BY <2>4, <3>1, <3>4, <3>5
    <3>7. QED BY <3>1, <3>3, <3>6
  <2>6. S[under_way] = start[under_way] /\ S[N + 1] = Len(pipe)
    <3>1. under_way \in under_way..(N + 1) /\ N + 1 \in under_way..(N + 1) BY <1>1, <2>3
    <3>2. start[N + 1] = Len(pipe) BY <1>1, <2>1 DEF Starts
    <3>3. QED BY <2>5, <3>1, <3>2
  <2>7. \A m \in 1..N : sent'[m] = sent[m] /\ sent[m] \in Nat
    <3>1. ASSUME NEW m \in 1..N PROVE sent'[m] = sent[m] /\ sent[m] \in Sizes BY <1>1
    <3>2. QED BY <3>1 DEF FramingAssumption
  <2>8. sent'[N + 1] = size BY <1>1
  <2>9. ASSUME NEW m \in under_way..(N + 1)
        PROVE  S[m + 1] = S[m] + 1 + sent'[m] /\ StandsAt(m, S[m])'
    <3>1. CASE m = N + 1
      <4>1. S[m] = Len(pipe) /\ S[m + 1] = Len(pipe) + 1 + size /\ sent'[m] = size
        BY <1>1, <2>2, <2>5, <2>6, <2>8, <3>1
      <4>2. pipe'[Len(pipe) + 1] = <<0, size>> BY <1>1, <1>2, <2>2
      <4>3. ASSUME NEW i \in 1..size PROVE pipe'[Len(pipe) + 1 + i] = <<m, i>>
        <5>1. i + 1 \in 1..(size + 1) /\ Len(pipe) + 1 + i = Len(pipe) + (i + 1)
          BY <1>1, <2>2
        <5>2. pipe'[Len(pipe) + (i + 1)] = added[i + 1] BY <2>2, <5>1
        <5>3. QED BY <1>2, <3>1, <5>1, <5>2
      <4>4. StandsAt(m, S[m])' BY <4>1, <4>2, <4>3 DEF StandsAt
      <4>5. QED BY <1>1, <2>2, <4>1, <4>4
    <3>2. CASE m # N + 1
      <4>1. m \in under_way..N /\ m \in 1..N /\ m + 1 \in under_way..(N + 1) BY <1>1, <2>3, <3>2
      <4>2. /\ start[m + 1] = start[m] + 1 + sent[m] /\ StandsAt(m, start[m])
            /\ -1 <= start[m] /\ start[m + 1] <= Len(pipe)
        <5>1. start[m] \in Int /\ start[under_way] <= start[m] /\ start[m + 1] <= Len(pipe)
          BY <1>1, <2>1, <4>1, StartsWithin
        <5>2. start[under_way] \in {0, -1} BY <2>1 DEF Starts
        <5>3. QED BY <1>1, <2>1, <4>1, <5>1, <5>2 DEF Starts
      <4>3. S[m] = start[m] /\ S[m + 1] = start[m + 1] /\ S[m] \in Int /\ sent'[m] = sent[m] /\ sent[m] \in Nat
        BY <2>5, <2>7, <4>1
      <4>4. S[m + 1] = S[m] + 1 + sent'[m] BY <4>2, <4>3
      <4>5. S[m] >= 0 => pipe'[S[m] + 1] = <<0, sent'[m]>>
        <5>1. S[m] >= 0 => S[m] + 1 \in 1..Len(pipe)
          <6>1. Len(pipe) \in Nat BY <2>2
          <6>2. QED BY <4>2, <4>3, <6>1
        <5>2. QED BY <2>2, <4>2, <4>3, <5>1 DEF StandsAt
      <4>6. ASSUME NEW i \in 1..sent[m] PROVE pipe'[S[m] + 1 + i] = <<m, i>>
        <5>1. S[m] + 1 + i \in 1..Len(pipe)
          <6>1. Len(pipe) \in Nat BY <2>2
          <6>2. i \in Nat /\ 1 <= i /\ i <= sent[m] BY <4>3
          <6>3. QED BY <4>2, <4>3, <6>1, <6>2
        <5>2. QED BY <2>2, <4>2, <4>3, <5>1 DEF StandsAt
      <4>7. StandsAt(m, S[m])' BY <4>3, <4>5, <4>6 DEF StandsAt
      <4>8. QED BY <4>4, <4>7
    <3>3. QED BY <3>1, <3>2
  <2>10. S[under_way'] = IF expected' = -1 THEN 0 ELSE -1 BY <1>1, <2>1, <2>3, <2>6 DEF Starts
  <2>11. S[Len(sent') + 1] = Len(pipe') BY <1>1, <2>2, <2>5
  <2>12. Starts(S)'
    <3>1. ASSUME NEW m \in under_way..(N + 2), NEW n \in under_way..(N + 2), m <= n
          PROVE  S[m] <= S[n]
      <4>1. N + 1 \in under_way..(N + 1) /\ Len(pipe) \in Nat /\ (m # N + 2 => m \in under_way..(N + 1))
            /\ (n # N + 2 => n \in under_way..(N + 1) /\ m # N + 2)
        BY <1>1, <2>2, <2>3, <3>1
      <4>2. m # N + 2 => S[m] \in Int /\ S[m] <= Len(pipe)
        BY <1>1, <2>1, <2>5, <4>1 DEF Starts
      <4>3. n # N + 2 => S[m] <= S[n] BY <1>1, <2>1, <2>5, <3>1, <4>1 DEF Starts
      <4>4. n = N + 2 => S[m] <= S[n] BY <1>1, <2>5, <4>1, <4>2
      <4>5. QED BY <4>3, <4>4
    <3>2. under_way'..(Len(sent') + 1) = under_way..(N + 2) /\ under_way'..Len(sent') = under_way..(N + 1)
      BY <1>1, <2>3
    <3>3. QED BY <2>9, <2>10, <2>11, <3>1, <3>2 DEF Starts
  <2>13. S \in [under_way'..(Len(sent') + 1) -> Int] BY <1>1, <2>3, <2>5
  <2>14. QED BY <2>12, <2>13 DEF InFrame
<1>8. QED BY <1>4, <1>5, <1>6, <1>7 DEF FramingInv

\* A sequence cut in two.
LEMMA CutInTwo ==
  ASSUME NEW T, NEW q \in Seq(T), NEW n \in 1..Len(q)
  PROVE  /\ SubSeq(q, 1, n) \in Seq(T) /\ SubSeq(q, n + 1, Len(q)) \in Seq(T)
         /\ q = SubSeq(q, 1, n) \o SubSeq(q, n + 1, Len(q))
<1>1. Len(q) \in Nat /\ n \in Nat /\ n + 1 \in Int /\ q = SubSeq(q, 1, Len(q)) BY SubSeqFull
<1>2. 1 \in 1..(Len(q) + 1) /\ n \in (1 - 1)..Len(q) /\ Len(q) \in n..Len(q)
  BY <1>1
<1>3. SubSeq(q, 1, n) \o SubSeq(q, n + 1, Len(q)) = SubSeq(q, 1, Len(q))
  BY <1>2, ConcatAdjacentSubSeq, Zenon
<1>4. 1 \in Int /\ n \in Int /\ n + 1 \in Int /\ Len(q) \in Int BY <1>1
<1>5. \A i \in 1..n : q[i] \in T BY <1>1
<1>6. \A i \in (n + 1)..Len(q) : q[i] \in T BY <1>1
<1>7. SubSeq(q, 1, n) \in Seq(T) BY ONLY <1>4, <1>5, SubSeqProperties
<1>8. SubSeq(q, n + 1, Len(q)) \in Seq(T) BY ONLY <1>4, <1>6, SubSeqProperties
<1>9. QED BY <1>1, <1>3, <1>7, <1>8, Zenon

\* Delivery moves what is in the pipe from one end to the other.
LEMMA DeliverStep == ASSUME FramingInv, Deliver PROVE FramingInv'
<1> DEFINE T == Nat \X Nat
<1>1. arrived \in Seq(T) /\ stream \in Seq(T) BY DEF FramingInv, FramingTypes
<1>2. PICK n \in 1..Len(stream) : /\ arrived' = arrived \o SubSeq(stream, 1, n)
                                  /\ stream' = SubSeq(stream, n + 1, Len(stream))
  BY Zenon DEF Deliver
<1> HIDE DEF T
<1>3. /\ SubSeq(stream, 1, n) \in Seq(T) /\ SubSeq(stream, n + 1, Len(stream)) \in Seq(T)
      /\ stream = SubSeq(stream, 1, n) \o SubSeq(stream, n + 1, Len(stream))
  BY ONLY <1>1, CutInTwo, Zenon
<1>4. PICK fst \in Seq(T), rest \in Seq(T) :
        stream = fst \o rest /\ arrived' = arrived \o fst /\ stream' = rest
  BY ONLY <1>2, <1>3, Zenon
<1>5. arrived' = arrived \o fst /\ stream' = rest BY <1>4
<1>6. (arrived \o fst) \o rest = arrived \o (fst \o rest) BY <1>1, <1>4
<1>7. pipe' = pipe BY <1>4, <1>5, <1>6 DEF pipe
<1>8. arrived \o fst \in Seq(T) BY <1>1, <1>4
<1>9. arrived' \in Seq(T) /\ stream' \in Seq(T) BY <1>4, <1>5, <1>8
<1>10. UNCHANGED <<sent, expected, received, open>> BY DEF Deliver
<1>11. FramingTypes' BY <1>9, <1>10 DEF FramingInv, FramingTypes, T
<1>12. Decoded' /\ LengthIsRight'
  BY <1>10 DEF FramingInv, Decoded, LengthIsRight, under_way
<1>13. InFrame'
  <2>1. CASE ~ open BY <1>10, <2>1 DEF InFrame
  <2>2. CASE open
    <3>1. PICK start \in [under_way..(Len(sent) + 1) -> Int] : Starts(start)
      BY <2>2 DEF FramingInv, InFrame
    <3>2. under_way' = under_way BY <1>10 DEF under_way
    <3>3. Starts(start)' BY <1>7, <1>10, <3>1, <3>2 DEF Starts, StandsAt
    <3>4. QED BY <1>10, <3>1, <3>2, <3>3 DEF InFrame
  <2>3. QED BY <2>1, <2>2
<1>14. QED BY <1>11, <1>12, <1>13 DEF FramingInv

\* What is read is the beginning of the pipe: the rest of it stands n lower.
LEMMA PipeShrinks ==
  ASSUME NEW T, arrived \in Seq(T), stream \in Seq(T), NEW n \in 0..Len(arrived),
         arrived' = SubSeq(arrived, n + 1, Len(arrived)), stream' = stream
  PROVE  /\ pipe \in Seq(T) /\ arrived' \in Seq(T) /\ Len(pipe) \in Nat
         /\ n <= Len(pipe) /\ Len(pipe') = Len(pipe) - n
         /\ \A i \in 1..n : pipe[i] = arrived[i]
         /\ \A i \in (n + 1)..Len(pipe) : pipe'[i - n] = pipe[i]
<1>1. PICK rest : rest = SubSeq(arrived, n + 1, Len(arrived)) OBVIOUS
<1>2. /\ rest \in Seq(T) /\ Len(rest) = Len(arrived) - n
      /\ \A i \in 1..(Len(arrived) - n) : rest[i] = arrived[n + i]
  BY <1>1
<1>3. pipe = arrived \o stream /\ pipe' = rest \o stream BY <1>1 DEF pipe
<1>4. Len(arrived) \in Nat /\ Len(stream) \in Nat /\ n \in Nat OBVIOUS
<1>5. /\ pipe \in Seq(T) /\ Len(pipe) = Len(arrived) + Len(stream)
      /\ \A i \in 1..(Len(arrived) + Len(stream)) :
           pipe[i] = IF i <= Len(arrived) THEN arrived[i] ELSE stream[i - Len(arrived)]
  BY <1>3, ConcatProperties
<1>6. /\ Len(pipe') = Len(rest) + Len(stream)
      /\ \A i \in 1..(Len(rest) + Len(stream)) :
           pipe'[i] = IF i <= Len(rest) THEN rest[i] ELSE stream[i - Len(rest)]
  BY <1>2, <1>3, ConcatProperties
<1>7. ASSUME NEW i \in 1..n PROVE pipe[i] = arrived[i]
  <2>1. i \in 1..(Len(arrived) + Len(stream)) /\ i <= Len(arrived) BY <1>4
  <2>2. QED BY <1>5, <2>1
<1>8. ASSUME NEW i \in (n + 1)..Len(pipe) PROVE pipe'[i - n] = pipe[i]
  <2>1. i \in Nat /\ i - n \in 1..(Len(rest) + Len(stream)) /\ i \in 1..(Len(arrived) + Len(stream))
    BY <1>2, <1>4, <1>5
  <2>2. CASE i <= Len(arrived)
    <3>1. i - n <= Len(rest) /\ i - n \in 1..(Len(arrived) - n) /\ n + (i - n) = i
      BY <1>2, <1>4, <2>1, <2>2
    <3>2. QED BY <1>2, <1>5, <1>6, <2>1, <2>2, <3>1
  <2>3. CASE ~ (i <= Len(arrived))
    <3>1. ~ (i - n <= Len(rest)) /\ (i - n) - Len(rest) = i - Len(arrived) BY <1>2, <1>4, <2>1, <2>3
    <3>2. QED BY <1>5, <1>6, <2>1, <2>3, <3>1
  <2>4. QED BY <2>2, <2>3
<1>9. QED BY <1>1, <1>2, <1>4, <1>5, <1>6, <1>7, <1>8

\* Where the messages stand when the first n elements of the pipe are read.
LEMMA StartsLower ==
  ASSUME NEW T, arrived \in Seq(T), stream \in Seq(T), NEW n \in 0..Len(arrived),
         arrived' = SubSeq(arrived, n + 1, Len(arrived)), stream' = stream, sent' = sent,
         NEW m \in Nat, m >= 1, sent[m] \in Nat,
         NEW start \in Int, n <= start + 1, start + 1 + sent[m] <= Len(pipe),
         StandsAt(m, start)
  PROVE  StandsAt(m, start - n)'
<1>1. /\ Len(pipe) \in Nat /\ n \in Nat
      /\ \A i \in (n + 1)..Len(pipe) : pipe'[i - n] = pipe[i]
  <2>1. /\ pipe \in Seq(T) /\ arrived' \in Seq(T) /\ Len(pipe) \in Nat
        /\ n <= Len(pipe) /\ Len(pipe') = Len(pipe) - n
        /\ \A i \in 1..n : pipe[i] = arrived[i]
        /\ \A i \in (n + 1)..Len(pipe) : pipe'[i - n] = pipe[i]
    BY ONLY PipeShrinks, arrived \in Seq(T), stream \in Seq(T), n \in 0..Len(arrived),
            arrived' = SubSeq(arrived, n + 1, Len(arrived)), stream' = stream, SMTT(20)
  <2>2. Len(arrived) \in Nat OBVIOUS
  <2>3. QED BY <2>1, <2>2
<1>2. start - n >= 0 => pipe'[(start - n) + 1] = <<0, sent[m]>>
  <2> SUFFICES ASSUME start - n >= 0 PROVE pipe'[(start - n) + 1] = <<0, sent[m]>>
    OBVIOUS
  <2>1. start + 1 \in (n + 1)..Len(pipe) /\ (start + 1) - n = (start - n) + 1 /\ start >= 0 BY <1>1
  <2>2. pipe'[(start + 1) - n] = pipe[start + 1] BY <1>1, <2>1
  <2>3. QED BY <2>1, <2>2 DEF StandsAt
<1>3. ASSUME NEW i \in 1..sent[m] PROVE pipe'[(start - n) + 1 + i] = <<m, i>>
  <2>1. i \in Nat /\ start + 1 + i \in (n + 1)..Len(pipe) /\ (start + 1 + i) - n = (start - n) + 1 + i
    <3>1. i \in Nat /\ 1 <= i /\ i <= sent[m] OBVIOUS
    <3>2. Len(pipe) \in Nat /\ n \in Nat BY <1>1
    <3>3. QED BY <3>1, <3>2
  <2>2. pipe'[(start + 1 + i) - n] = pipe[start + 1 + i] BY <1>1, <2>1
  <2>3. QED BY <2>1, <2>2 DEF StandsAt
<1>4. QED BY <1>2, <1>3 DEF StandsAt

\* The head of the pipe is the length of the message under way.
LEMMA HeadIsLength ==
  ASSUME FramingAssumption, FramingInv, open, expected = -1, arrived # <<>>
  PROVE  /\ under_way \in 1..Len(sent) /\ sent[under_way] \in Nat
         /\ arrived[1] = <<0, sent[under_way]>>
<1>1. /\ arrived \in Seq(Nat \X Nat) /\ stream \in Seq(Nat \X Nat) /\ sent \in Seq(Sizes)
      /\ under_way \in 1..(Len(sent) + 1) /\ Len(sent) \in Nat
  BY DEF FramingInv, FramingTypes, Decoded, under_way
<1>2. PICK start \in [under_way..(Len(sent) + 1) -> Int] : Starts(start)
  BY DEF FramingInv, InFrame
<1>3. start[under_way] = 0 /\ start[Len(sent) + 1] = Len(pipe) BY <1>2 DEF Starts
<1>4. Len(arrived) \in Nat /\ Len(arrived) >= 1 /\ Len(stream) \in Nat BY <1>1
<1>5. Len(pipe) = Len(arrived) + Len(stream) /\ pipe[1] = arrived[1]
  BY <1>1, <1>4, ConcatProperties DEF pipe
<1>6. under_way # Len(sent) + 1 BY <1>3, <1>4, <1>5
<1>7. under_way \in under_way..Len(sent) /\ under_way \in 1..Len(sent) BY <1>1, <1>6
<1>8. StandsAt(under_way, 0) BY <1>2, <1>3, <1>7 DEF Starts
<1>9. sent[under_way] \in Nat
  <2>1. sent[under_way] \in Sizes BY <1>1, <1>7
  <2>2. QED BY <2>1 DEF FramingAssumption
<1>10. QED BY <1>5, <1>7, <1>8, <1>9 DEF StandsAt

LEMMA ReadLengthStep == ASSUME FramingAssumption, FramingInv, ReadLength PROVE FramingInv'
<1> DEFINE T == Nat \X Nat
<1>1. /\ open /\ expected = -1 /\ arrived # <<>> /\ arrived' = Tail(arrived)
      /\ UNCHANGED <<sent, stream, received>>
  BY DEF ReadLength
<1>2. /\ arrived \in Seq(T) /\ stream \in Seq(T) /\ sent \in Seq(Sizes) /\ Len(sent) \in Nat
      /\ under_way \in 1..(Len(sent) + 1)
  BY DEF FramingInv, FramingTypes, Decoded, under_way
<1>3. /\ under_way \in 1..Len(sent) /\ sent[under_way] \in Nat
      /\ arrived[1] = <<0, sent[under_way]>>
  BY <1>1, HeadIsLength
<1>4. Head(arrived)[1] = 0 /\ Head(arrived)[2] = sent[under_way] BY <1>2, <1>3
<1>5. \/ expected' = sent[under_way] /\ open' = open
      \/ open' = FALSE /\ expected' = expected
  BY <1>4 DEF ReadLength
<1>6. arrived' \in Seq(T) /\ arrived' = SubSeq(arrived, 2, Len(arrived)) /\ Len(arrived) \in Nat /\ Len(arrived) >= 1
  <2>1. Len(arrived) \in Nat /\ Len(arrived) >= 1 BY <1>1, <1>2
  <2>2. Tail(arrived) = SubSeq(arrived, 2, Len(arrived)) BY <1>1, <1>2, TailIsSubSeq
  <2>3. QED BY <1>1, <1>2, <2>1, <2>2, HeadTailProperties
<1>7. FramingTypes'
  BY <1>1, <1>3, <1>5, <1>6 DEF FramingInv, FramingTypes
<1>8. Decoded' BY <1>1 DEF FramingInv, Decoded
<1>9. under_way' = under_way BY <1>1 DEF under_way
<1>10. LengthIsRight' BY <1>1, <1>2, <1>3, <1>5, <1>9 DEF LengthIsRight
<1>11. InFrame'
  <2>1. CASE open' = FALSE BY <2>1 DEF InFrame
  <2>2. CASE expected' = sent[under_way] /\ open' = open
    <3>1. PICK start \in [under_way..(Len(sent) + 1) -> Int] : Starts(start)
      BY <1>1 DEF FramingInv, InFrame
    <3>2. PICK S : S = [m \in under_way..(Len(sent) + 1) |-> start[m] - 1] OBVIOUS
    <3>3. S \in [under_way..(Len(sent) + 1) -> Int] BY <3>1, <3>2
    <3>4. /\ Len(pipe) \in Nat /\ Len(pipe') = Len(pipe) - 1
      <4>1. 1 \in 0..Len(arrived) /\ stream' = stream /\ 1 + 1 = 2 BY <1>1, <1>6
      <4>2. arrived' = SubSeq(arrived, 1 + 1, Len(arrived)) BY <1>6, <4>1
      <4>3. QED BY ONLY PipeShrinks, <1>2, <4>1, <4>2
    <3>5. \A m \in under_way..(Len(sent) + 1) : S[m] = start[m] - 1 /\ start[m] \in Int BY <3>1, <3>2
    <3>6. S[under_way] = -1 /\ S[Len(sent) + 1] = Len(pipe')
      <4>1. under_way \in under_way..(Len(sent) + 1) /\ Len(sent) + 1 \in under_way..(Len(sent) + 1)
        BY <1>2
      <4>2. start[under_way] = 0 /\ start[Len(sent) + 1] = Len(pipe) BY <1>1, <3>1 DEF Starts
      <4>3. S[under_way] = 0 - 1 /\ S[Len(sent) + 1] = Len(pipe) - 1 BY <3>5, <4>1, <4>2
      <4>4. QED BY <3>4, <4>3
    <3>7. ASSUME NEW m \in under_way..Len(sent)
          PROVE  S[m + 1] = S[m] + 1 + sent[m] /\ StandsAt(m, S[m])'
      <4>1. /\ m \in Nat /\ m >= 1 /\ m \in under_way..(Len(sent) + 1)
            /\ m + 1 \in under_way..(Len(sent) + 1) /\ m \in 1..Len(sent)
        BY <1>2
      <4>2. S[m] = start[m] - 1 /\ start[m] \in Int /\ S[m + 1] = start[m + 1] - 1 BY <3>5, <4>1
      <4>3. sent[m] \in Nat
        <5>1. sent[m] \in Sizes BY <1>2, <4>1
        <5>2. QED BY <5>1 DEF FramingAssumption
      <4>4. start[m + 1] = start[m] + 1 + sent[m] /\ StandsAt(m, start[m])
        BY <3>1 DEF Starts
      <4>5. start[m] >= 0 /\ start[m + 1] <= Len(pipe)
        <5>1. start[under_way] = 0 BY <1>1, <3>1 DEF Starts
        <5>2. start[under_way] <= start[m] /\ start[m + 1] <= Len(pipe) BY <3>1, StartsWithin
        <5>3. QED BY <4>2, <5>1, <5>2
      <4>6. StandsAt(m, start[m] - 1)'
        <5>1. 1 \in 0..Len(arrived) /\ stream' = stream /\ sent' = sent /\ 1 + 1 = 2 BY <1>1, <1>6
        <5>2. arrived' = SubSeq(arrived, 1 + 1, Len(arrived)) BY <1>6, <5>1
        <5>3. 1 <= start[m] + 1 /\ start[m] + 1 + sent[m] <= Len(pipe) BY <4>2, <4>3, <4>4, <4>5
        <5>4. QED BY ONLY StartsLower, <1>2, <4>1, <4>2, <4>3, <4>4, <5>1, <5>2, <5>3
      <4>7. QED BY <4>2, <4>3, <4>4, <4>6
    <3>8. Starts(S)'
      <4>1. expected' # -1 BY <1>3, <2>2
      <4>2. \A m, n \in under_way..(Len(sent) + 1) : m <= n => S[m] <= S[n]
        BY <3>1, <3>5 DEF Starts
      <4>3. QED BY <1>1, <1>9, <3>6, <3>7, <4>1, <4>2 DEF Starts
    <3>9. QED BY <1>1, <1>9, <3>3, <3>8 DEF InFrame
  <2>3. QED BY <1>5, <2>1, <2>2
<1>12. QED BY <1>7, <1>8, <1>10, <1>11 DEF FramingInv

\* The payload of the message under way is at the head of what has arrived.
LEMMA PayloadIsWhole ==
  ASSUME FramingAssumption, FramingInv, ReadPayload
  PROVE  /\ under_way \in 1..Len(sent) /\ expected = sent[under_way] /\ expected \in 0..Len(arrived)
         /\ SubSeq(arrived, 1, expected) = Payload(under_way, sent[under_way])
<1> DEFINE T == Nat \X Nat
<1>1. /\ open /\ expected # -1 /\ Len(arrived) >= expected /\ expected \in Nat
      /\ arrived \in Seq(T) /\ stream \in Seq(T)
      /\ under_way \in Nat /\ under_way >= 1 /\ Len(sent) \in Nat /\ Len(arrived) \in Nat
  BY DEF ReadPayload, FramingInv, FramingTypes, under_way
<1>2. under_way \in 1..Len(sent) /\ expected = sent[under_way]
  BY <1>1 DEF FramingInv, LengthIsRight
<1>3. PICK start \in [under_way..(Len(sent) + 1) -> Int] : Starts(start)
  BY <1>1 DEF FramingInv, InFrame
<1>4. StandsAt(under_way, -1)
  <2>1. under_way \in under_way..Len(sent) BY <1>1, <1>2
  <2>2. QED BY <1>1, <1>3, <2>1 DEF Starts
<1>5. ASSUME NEW i \in 1..expected PROVE arrived[i] = <<under_way, i>>
  <2>1. i \in Nat /\ i \in 1..(Len(arrived) + Len(stream)) /\ i <= Len(arrived) /\ (-1) + 1 + i = i
    BY <1>1
  <2>2. pipe[i] = arrived[i] BY <1>1, <2>1, ConcatProperties DEF pipe
  <2>3. QED BY <1>2, <1>4, <2>1, <2>2 DEF StandsAt
<1>6. /\ SubSeq(arrived, 1, expected) \in Seq(T) /\ Len(SubSeq(arrived, 1, expected)) = expected
      /\ \A i \in 1..expected : SubSeq(arrived, 1, expected)[i] = arrived[i]
  <2> DEFINE fst == SubSeq(arrived, 1, expected)
  <2>1. 1 \in Int /\ expected \in Int /\ \A i \in 1..expected : arrived[i] \in T BY <1>1
  <2>2. /\ fst \in Seq(T) /\ Len(fst) = (IF 1 <= expected THEN expected - 1 + 1 ELSE 0)
        /\ \A i \in 1..(expected - 1 + 1) : fst[i] = arrived[1 + i - 1]
    BY ONLY <2>1, SubSeqProperties
  <2> HIDE DEF fst
  <2>3. Len(fst) = expected BY <1>1, <2>2
  <2>4. ASSUME NEW i \in 1..expected PROVE fst[i] = arrived[i]
    <3>1. i \in 1..(expected - 1 + 1) /\ 1 + i - 1 = i BY <1>1
    <3>2. QED BY <2>2, <3>1
  <2>5. QED BY <2>2, <2>3, <2>4 DEF fst
<1>7. /\ Payload(under_way, expected) \in Seq(T) /\ Len(Payload(under_way, expected)) = expected
      /\ \A i \in 1..expected : Payload(under_way, expected)[i] = <<under_way, i>>
  BY <1>1, SMTT(20) DEF Payload
<1>8. SubSeq(arrived, 1, expected) = Payload(under_way, expected)
  <2>1. \A i \in 1..expected : SubSeq(arrived, 1, expected)[i] = Payload(under_way, expected)[i]
    BY <1>5, <1>6, <1>7
  <2> HIDE DEF T
  <2>2. QED BY <1>6, <1>7, <2>1, SeqEqual
<1>9. QED BY <1>1, <1>2, <1>8

LEMMA ReadPayloadStep == ASSUME FramingAssumption, FramingInv, ReadPayload PROVE FramingInv'
<1> DEFINE T == Nat \X Nat
<1>0. PICK n : n = expected OBVIOUS
<1>1. /\ open /\ expected' = -1 /\ received' = Append(received, SubSeq(arrived, 1, n))
      /\ arrived' = SubSeq(arrived, n + 1, Len(arrived))
      /\ UNCHANGED <<sent, stream, open>>
  BY <1>0 DEF ReadPayload
<1>2. /\ arrived \in Seq(T) /\ stream \in Seq(T) /\ sent \in Seq(Sizes) /\ Len(sent) \in Nat
      /\ received \in Seq(Seq(T)) /\ Len(received) \in Nat /\ Len(arrived) \in Nat
      /\ under_way = Len(received) + 1
  BY DEF FramingInv, FramingTypes, Decoded, under_way
<1>3. /\ under_way \in 1..Len(sent) /\ n = sent[under_way] /\ n \in 0..Len(arrived) /\ n \in Nat
      /\ SubSeq(arrived, 1, n) = Payload(under_way, sent[under_way])
  BY <1>0, <1>2, PayloadIsWhole
<1>4. SubSeq(arrived, 1, n) \in Seq(T) /\ arrived' \in Seq(T)
  <2> HIDE DEF T
  <2>1. \A i \in 1..Len(arrived) : arrived[i] \in T BY <1>2
  <2>2. 1 \in Int /\ n \in Int /\ n + 1 \in Int /\ Len(arrived) \in Int BY <1>2, <1>3
  <2>3. \A i \in 1..n : arrived[i] \in T BY <1>2, <1>3, <2>1
  <2>4. \A i \in (n + 1)..Len(arrived) : arrived[i] \in T BY <1>2, <1>3, <2>1
  <2>5. SubSeq(arrived, 1, n) \in Seq(T) BY ONLY <2>2, <2>3, SubSeqProperties
  <2>6. SubSeq(arrived, n + 1, Len(arrived)) \in Seq(T) BY ONLY <2>2, <2>4, SubSeqProperties
  <2>7. QED BY <1>1, <2>5, <2>6
<1>5. /\ received' \in Seq(Seq(T)) /\ Len(received') = Len(received) + 1
      /\ received'[Len(received) + 1] = SubSeq(arrived, 1, n)
      /\ \A m \in 1..Len(received) : received'[m] = received[m]
  <2> DEFINE payload == SubSeq(arrived, 1, n)
             TT == Seq(T)
  <2>1. payload \in TT /\ received \in Seq(TT) /\ received' = Append(received, payload) BY <1>1, <1>2, <1>4
  <2> HIDE DEF payload, TT
  <2>2. received' \in Seq(TT) /\ Len(received') = Len(received) + 1 BY <2>1
  <2>3. received'[Len(received) + 1] = payload BY <2>1
  <2>4. \A m \in 1..Len(received) : received'[m] = received[m] BY <2>1
  <2>5. QED BY <2>2, <2>3, <2>4 DEF payload, TT
<1>6. FramingTypes' BY <1>1, <1>4, <1>5 DEF FramingInv, FramingTypes
<1>7. Decoded'
  <2>1. Len(received') <= Len(sent') BY <1>1, <1>2, <1>3, <1>5
  <2>2. ASSUME NEW m \in 1..Len(received') PROVE received'[m] = Payload(m, sent'[m])
    <3>1. CASE m = Len(received) + 1 BY <1>1, <1>2, <1>3, <1>5, <3>1
    <3>2. CASE m # Len(received) + 1
      <4>1. m \in 1..Len(received) BY <1>2, <1>5, <3>2
      <4>2. QED BY <1>1, <1>5, <4>1 DEF FramingInv, Decoded
    <3>3. QED BY <3>1, <3>2
  <2>3. QED BY <2>1, <2>2 DEF Decoded
<1>8. LengthIsRight' BY <1>1 DEF LengthIsRight
<1>9. under_way' = under_way + 1 BY <1>2, <1>5 DEF under_way
<1>10. InFrame'
  <2> HIDE DEF T
  <2>1. PICK start \in [under_way..(Len(sent) + 1) -> Int] : Starts(start)
    BY <1>1 DEF FramingInv, InFrame
  <2>2. PICK S : S = [m \in (under_way + 1)..(Len(sent) + 1) |-> start[m] - n] OBVIOUS
  <2>3. ASSUME NEW m \in (under_way + 1)..(Len(sent) + 1)
        PROVE  S[m] = start[m] - n /\ start[m] \in Int /\ m \in under_way..(Len(sent) + 1)
    <3>1. m \in under_way..(Len(sent) + 1) BY <1>3
    <3>2. QED BY <2>2, <3>1
  <2>4. S \in [(under_way + 1)..(Len(sent) + 1) -> Int] BY <1>3, <2>2, <2>3
  <2>5. /\ Len(pipe) \in Nat /\ Len(pipe') = Len(pipe) - n
    <3>1. stream' = stream /\ arrived' = SubSeq(arrived, n + 1, Len(arrived)) BY <1>1
    <3>2. QED BY ONLY PipeShrinks, <1>2, <1>3, <3>1
  <2>6. under_way \in under_way..Len(sent) /\ under_way \in 1..Len(sent) /\ Len(sent) \in Nat BY <1>2, <1>3
  <2>7. start[under_way + 1] = n
    <3>1. start[under_way] = -1
      <4>1. expected # -1 BY DEF ReadPayload
      <4>2. QED BY <2>1, <4>1 DEF Starts
    <3>2. start[under_way + 1] = start[under_way] + 1 + sent[under_way] BY <2>1, <2>6 DEF Starts
    <3>3. QED BY <1>3, <3>1, <3>2
  <2>8. S[under_way + 1] = 0 /\ S[Len(sent) + 1] = Len(pipe')
    <3>1. under_way + 1 \in (under_way + 1)..(Len(sent) + 1) /\ Len(sent) + 1 \in (under_way + 1)..(Len(sent) + 1)
      BY <2>6
    <3>2. start[Len(sent) + 1] = Len(pipe) BY <2>1 DEF Starts
    <3>3. S[under_way + 1] = n - n /\ S[Len(sent) + 1] = Len(pipe) - n BY <2>3, <2>7, <3>1, <3>2
    <3>4. n \in Nat BY <1>3
    <3>5. QED BY <2>5, <3>3, <3>4
  <2>9. ASSUME NEW m \in (under_way + 1)..Len(sent)
        PROVE  S[m + 1] = S[m] + 1 + sent[m] /\ StandsAt(m, S[m])'
    <3>1. /\ m \in Nat /\ m >= 1 /\ m \in under_way..Len(sent) /\ m \in 1..Len(sent) /\ under_way < m
          /\ m \in (under_way + 1)..(Len(sent) + 1) /\ m + 1 \in (under_way + 1)..(Len(sent) + 1)
      BY <2>6
    <3>2. S[m] = start[m] - n /\ start[m] \in Int /\ S[m + 1] = start[m + 1] - n BY <2>3, <3>1
    <3>3. sent[m] \in Nat
      <4>1. sent[m] \in Sizes BY <1>2, <3>1
      <4>2. QED BY <4>1 DEF FramingAssumption
    <3>4. start[m + 1] = start[m] + 1 + sent[m] /\ StandsAt(m, start[m]) BY <2>1, <3>1 DEF Starts
    <3>5. n <= start[m] /\ start[m + 1] <= Len(pipe) BY <2>1, <2>7, <3>1, StartsWithin
    <3>6. StandsAt(m, start[m] - n)'
      <4>1. n <= start[m] + 1 /\ start[m] + 1 + sent[m] <= Len(pipe)
        <5>1. n \in Nat BY <1>3
        <5>2. QED BY <3>2, <3>3, <3>4, <3>5, <5>1
      <4>2. stream' = stream /\ sent' = sent /\ arrived' = SubSeq(arrived, n + 1, Len(arrived)) BY <1>1
      <4>3. QED BY ONLY StartsLower, <1>2, <1>3, <3>1, <3>2, <3>3, <3>4, <4>1, <4>2
    <3>7. QED BY <1>3, <3>2, <3>3, <3>4, <3>6
  <2>10. Starts(S)'
    <3>1. \A m, k \in (under_way + 1)..(Len(sent) + 1) : m <= k => S[m] <= S[k]
      BY <1>3, <2>1, <2>3 DEF Starts
    <3>2. QED BY <1>1, <1>9, <2>8, <2>9, <3>1 DEF Starts
  <2>11. QED BY <1>1, <1>9, <2>4, <2>10 DEF InFrame
<1>11. QED BY <1>6, <1>7, <1>8, <1>10 DEF FramingInv

LEMMA FramingStep ==
  ASSUME FramingAssumption, LengthsFit, FramingInv, [FramingNext]_frameVars
  PROVE  FramingInv'
<1>1. CASE \E size \in Sizes : write_message(size) BY <1>1, WriteMessageStep
<1>2. CASE Deliver BY <1>2, DeliverStep
<1>3. CASE ReadLength BY <1>3, ReadLengthStep
<1>4. CASE ReadPayload BY <1>4, ReadPayloadStep
<1>5. CASE UNCHANGED frameVars
  <2>1. UNCHANGED <<sent, stream, arrived, expected, received, open>> BY <1>5 DEF frameVars
  <2>2. under_way' = under_way /\ pipe' = pipe BY <2>1 DEF under_way, pipe
  <2>3. FramingTypes' /\ Decoded' BY <2>1 DEF FramingInv, FramingTypes, Decoded
  <2>4. LengthIsRight' BY <2>1, <2>2 DEF FramingInv, LengthIsRight
  <2>5. InFrame'
    <3>1. CASE ~ open BY <2>1, <3>1 DEF InFrame
    <3>2. CASE open
      <4>1. PICK start \in [under_way..(Len(sent) + 1) -> Int] : Starts(start)
        BY <3>2 DEF FramingInv, InFrame
      <4>2. Starts(start)' BY <2>1, <2>2, <4>1 DEF Starts, StandsAt
      <4>3. QED BY <2>1, <2>2, <4>1, <4>2 DEF InFrame
    <3>3. QED BY <3>1, <3>2
  <2>6. QED BY <2>3, <2>4, <2>5 DEF FramingInv
<1>6. QED BY <1>1, <1>2, <1>3, <1>4, <1>5 DEF FramingNext

\* MessagesIntact: when every length fits the prefix, the reader of a stream
\* decodes what write_message wrote, message for message, however the stream
\* is cut into pieces.
THEOREM MessagesAreIntact == ASSUME LengthsFit PROVE FramingSpec => []MessagesIntact
<1>1. FramingInit => FramingInv BY FramingInitially
<1>2. FramingInv /\ [FramingNext]_frameVars => FramingInv' BY FramingAssumption, FramingStep
<1>3. FramingInv => MessagesIntact
  <2> SUFFICES ASSUME FramingInv PROVE MessagesIntact
    OBVIOUS
  <2> DEFINE whole == [m \in 1..Len(sent) |-> Payload(m, sent[m])]
  <2>1. received \in Seq(Seq(Nat \X Nat)) /\ Len(received) \in Nat /\ Len(received) <= Len(sent) /\ Len(sent) \in Nat
    BY DEF FramingInv, FramingTypes, Decoded
  <2>2. Len(whole) = Len(sent) /\ \A m \in 1..Len(sent) : whole[m] = Payload(m, sent[m]) BY <2>1
  <2>3. \A m \in 1..Len(received) : received[m] = whole[m]
    BY <2>1, <2>2 DEF FramingInv, Decoded
  <2> HIDE DEF whole
  <2>4. received = SubSeq(whole, 1, Len(received)) BY <2>1, <2>2, <2>3
  <2>5. IsPrefix(received, whole) BY <2>1, <2>2, <2>4 DEF IsPrefix
  <2>6. QED BY <2>5 DEF MessagesIntact, whole
<1>4. QED BY <1>1, <1>2, <1>3, PTL DEF FramingSpec

(***************************************************************************)
(* The cut of a long text.  f[n] is the encoding of the first n characters *)
(* of a text; the cut falls into, or just behind, the last character that  *)
(* begins before the limit.                                                *)
(***************************************************************************)
ByteClasses == {"ascii", "lead", "cont"}

Encoding(f, chars) ==
  /\ f[0] = <<>>
  /\ \A n \in 1..Len(chars) : f[n] = f[n - 1] \o Bytes(chars[n])
  /\ Encoded(chars) = f[Len(chars)]

LEMMA BytesTyped ==
  ASSUME NEW char \in 1..4
  PROVE  /\ Bytes(char) \in Seq(ByteClasses) /\ Len(Bytes(char)) = char
         /\ Bytes(char)[1] = (IF char = 1 THEN "ascii" ELSE "lead")
         /\ \A i \in 2..char : Bytes(char)[i] = "cont"
<1> DEFINE byte(i) == IF char = 1 THEN "ascii" ELSE IF i = 1 THEN "lead" ELSE "cont"
<1>1. Bytes(char) = [i \in 1..char |-> byte(i)] BY DEF Bytes
<1>2. \A i \in 1..char : byte(i) \in ByteClasses BY DEF ByteClasses
<1>3. char \in Nat /\ 1 \in 1..char OBVIOUS
<1>4. byte(1) = (IF char = 1 THEN "ascii" ELSE "lead") OBVIOUS
<1>5. \A i \in 2..char : i \in 1..char /\ byte(i) = "cont" OBVIOUS
<1> HIDE DEF byte
<1>6. Bytes(char) \in Seq(ByteClasses) /\ Len(Bytes(char)) = char BY <1>1, <1>2, <1>3
<1>7. \A i \in 1..char : Bytes(char)[i] = byte(i) BY <1>1
<1>8. QED BY <1>3, <1>4, <1>5, <1>6, <1>7

LEMMA EncodedFold ==
  ASSUME NEW chars \in Seq(1..4)
  PROVE  \E f \in [0..Len(chars) -> Seq(ByteClasses)] : Encoding(f, chars)
<1> DEFINE N == Len(chars)
           T == Seq(ByteClasses)
<1>0. <<>> \in T /\ \A st \in T, c \in 1..4 : st \o Bytes(c) \in T BY BytesTyped
<1> HIDE DEF T
<1> DEFINE step == [n \in 1..N |-> [st \in T |-> st \o Bytes(chars[n])]]
           Body(h) == [s \in SUBSET DOMAIN chars |-> IF s = {} THEN <<>>
                        ELSE h[s \ {Max(s)}] \o Bytes(chars[Max(s)])]
           it == CHOOSE h : h = Body(h)
<1>1. N \in Nat /\ DOMAIN chars = 1..N /\ \A n \in 1..N : chars[n] \in 1..4 OBVIOUS
<1>2. step \in [1..N -> [T -> T]] BY <1>0, <1>1
<1> HIDE DEF N
<1>3. PICK g \in [SUBSET (1..N) -> T] : Recursion(g, <<>>, step, 1..N)
  BY <1>0, <1>1, <1>2, FoldExists
<1>4. ASSUME NEW s \in SUBSET (1..N), s # {}
      PROVE  g[s] = g[s \ {Max(s)}] \o Bytes(chars[Max(s)])
  <2>1. Max(s) \in 1..N BY <1>1, <1>4, MaxOfPositions
  <2>2. g[s \ {Max(s)}] \in T OBVIOUS
  <2>3. g[s] = step[Max(s)][g[s \ {Max(s)}]] BY <1>3, <1>4 DEF Recursion
  <2>4. QED BY <2>1, <2>2, <2>3
<1>5. g = Body(g)
  <2>1. {} \in SUBSET (1..N) OBVIOUS
  <2>2. g[{}] = <<>> BY <1>3, <2>1, Zenon DEF Recursion
  <2>3. QED BY <1>1, <1>4, <2>2
<1>6. it = Body(it) BY <1>5, Zenon
<1>7. Encoded(chars) = it[1..N]
  BY <1>1 DEF Encoded, FoldLeft, MapThenFoldSet
<1> HIDE DEF it, step
<1>8. it[1..0] = <<>>
  <2>1. 1..0 = {} /\ {} \in SUBSET DOMAIN chars OBVIOUS
  <2>2. QED BY <1>6, <2>1
<1>9. ASSUME NEW n \in 1..N PROVE it[1..n] = it[1..(n - 1)] \o Bytes(chars[n])
  <2>1. 1..n \in SUBSET DOMAIN chars /\ 1..n # {} /\ Max(1..n) = n /\ (1..n) \ {n} = 1..(n - 1)
    BY <1>1, Positions
  <2>2. QED BY <1>6, <2>1
<1> HIDE DEF Body
<1>10. \A n \in 0..N : it[1..n] \in T
  <2> DEFINE P == { n \in 0..N : it[1..n] \in T }
  <2>1. 0 \in P BY <1>0, <1>1, <1>8
  <2>2. ASSUME NEW n \in 1..N, n - 1 \in P PROVE n \in P
    <3>1. it[1..(n - 1)] \in T /\ chars[n] \in 1..4 /\ n \in 0..N BY <1>1, <2>2
    <3>2. it[1..(n - 1)] \o Bytes(chars[n]) \in T BY ONLY <1>0, <3>1
    <3>3. QED BY <1>9, <3>1, <3>2
  <2> HIDE DEF P
  <2>3. \A n \in 0..N : n \in P BY <1>1, <2>1, <2>2, InductionTo
  <2>4. QED BY <2>3 DEF P
<1> DEFINE f == [n \in 0..N |-> it[1..n]]
<1>11. f \in [0..N -> T] BY <1>10
<1>12. f[0] = <<>> /\ \A n \in 1..N : f[n] = f[n - 1] \o Bytes(chars[n])
  <2>1. 0 \in 0..N /\ \A n \in 1..N : n \in 0..N /\ n - 1 \in 0..N BY <1>1
  <2>2. QED BY <1>8, <1>9, <2>1
<1>13. Encoded(chars) = f[N] BY <1>1, <1>7
<1> HIDE DEF f
<1>14. QED BY <1>11, <1>12, <1>13 DEF Encoding, N, T

\* The encoding of a character goes behind those of the characters before it.
Grows(f, chars, n) ==
  /\ Len(f[n - 1]) \in Nat /\ Len(f[n]) = Len(f[n - 1]) + chars[n] /\ chars[n] \in 1..4
  /\ \A i \in 1..Len(f[n - 1]) : f[n][i] = f[n - 1][i]
  /\ f[n][Len(f[n - 1]) + 1] = (IF chars[n] = 1 THEN "ascii" ELSE "lead")
  /\ \A i \in (Len(f[n - 1]) + 2)..Len(f[n]) : f[n][i] = "cont"

LEMMA EncodingGrows ==
  ASSUME NEW chars \in Seq(1..4), NEW f \in [0..Len(chars) -> Seq(ByteClasses)], Encoding(f, chars),
         NEW n \in 1..Len(chars)
  PROVE  Grows(f, chars, n)
<1> DEFINE p == f[n - 1]
           q == Bytes(chars[n])
           r == f[n]
           L == Len(f[n - 1])
<1>1. n - 1 \in 0..Len(chars) /\ chars[n] \in 1..4 OBVIOUS
<1>2. p \in Seq(ByteClasses) BY <1>1
<1>3. /\ q \in Seq(ByteClasses) /\ Len(q) = chars[n]
      /\ q[1] = (IF chars[n] = 1 THEN "ascii" ELSE "lead")
      /\ \A i \in 2..chars[n] : q[i] = "cont"
  BY <1>1, BytesTyped
<1>4. r = p \o q BY DEF Encoding
<1>5. L = Len(p) OBVIOUS
<1> HIDE DEF p, q, r, L
<1>6. q \in Seq(ByteClasses) BY <1>3
<1>7. r \in Seq(ByteClasses) /\ Len(r) = Len(p) + Len(q) /\ Len(p) \in Nat BY ONLY <1>2, <1>4, <1>6
<1>8. \A i \in 1..Len(p) : r[i] = p[i] BY ONLY <1>2, <1>4, <1>6
<1>9. \A i \in 1..Len(q) : r[Len(p) + i] = q[i] BY ONLY <1>2, <1>4, <1>6
<1>10. ASSUME NEW i \in (L + 2)..Len(r) PROVE r[i] = "cont"
  <2>1. i - L \in 2..chars[n] /\ i - L \in 1..Len(q) /\ i = L + (i - L) BY <1>1, <1>3, <1>5, <1>7
  <2>2. r[i] = q[i - L] BY <1>5, <1>9, <2>1
  <2>3. QED BY <1>3, <2>1, <2>2
<1>11. r[L + 1] = q[1] BY <1>1, <1>3, <1>5, <1>9
<1>12. QED BY <1>1, <1>3, <1>5, <1>7, <1>8, <1>10, <1>11 DEF p, r, L, Grows

\* The first characters of a text have the first bytes of its encoding.
LEMMA EncodingPrefix ==
  ASSUME NEW chars \in Seq(1..4), NEW f \in [0..Len(chars) -> Seq(ByteClasses)], Encoding(f, chars),
         NEW k \in 0..Len(chars)
  PROVE  \A n \in 0..Len(chars) : n >= k =>
           Len(f[k]) <= Len(f[n]) /\ \A i \in 1..Len(f[k]) : f[n][i] = f[k][i]
<1> DEFINE N == Len(chars)
           P == { n \in 0..N : n >= k =>
                    Len(f[k]) <= Len(f[n]) /\ \A i \in 1..Len(f[k]) : f[n][i] = f[k][i] }
<1>1. N \in Nat /\ \A n \in 0..N : Len(f[n]) \in Nat OBVIOUS
<1>2. 0 \in P
  <2>1. 0 >= k => k = 0 OBVIOUS
  <2>2. QED BY <1>1, <2>1
<1>3. ASSUME NEW n \in 1..N, n - 1 \in P PROVE n \in P
  <2>1. CASE n = k BY <1>1, <2>1
  <2>2. CASE n < k BY <2>2
  <2>3. CASE n > k
    <3>1. /\ n - 1 \in 0..N /\ n - 1 >= k
          /\ Len(f[k]) <= Len(f[n - 1]) /\ \A i \in 1..Len(f[k]) : f[n - 1][i] = f[k][i]
      BY <1>3, <2>3
    <3>2. /\ Len(f[n]) = Len(f[n - 1]) + chars[n] /\ chars[n] \in 1..4
          /\ \A i \in 1..Len(f[n - 1]) : f[n][i] = f[n - 1][i]
      <4>1. Grows(f, chars, n) BY EncodingGrows
      <4>2. QED BY <4>1 DEF Grows
    <3>3. Len(f[k]) <= Len(f[n]) BY <1>1, <3>1, <3>2
    <3>4. ASSUME NEW i \in 1..Len(f[k]) PROVE f[n][i] = f[k][i]
      <4>1. i \in 1..Len(f[n - 1]) BY <1>1, <3>1
      <4>2. QED BY <3>1, <3>2, <4>1
    <3>5. n \in 0..N OBVIOUS
    <3>6. QED BY <3>3, <3>4, <3>5
  <2>4. QED BY <2>1, <2>2, <2>3
<1> HIDE DEF P
<1>4. \A n \in 0..N : n \in P BY <1>1, <1>2, <1>3, InductionTo
<1>5. QED BY <1>4 DEF P

LEMMA EncodedPrefix ==
  ASSUME NEW chars \in Seq(1..4), NEW f \in [0..Len(chars) -> Seq(ByteClasses)], Encoding(f, chars),
         NEW k \in 0..Len(chars)
  PROVE  Encoded(SubSeq(chars, 1, k)) = f[k]
<1> DEFINE some == SubSeq(chars, 1, k)
<1>1. some \in Seq(1..4) /\ Len(some) = k /\ \A n \in 1..k : some[n] = chars[n] OBVIOUS
<1> HIDE DEF some
<1>2. PICK g \in [0..Len(some) -> Seq(ByteClasses)] : Encoding(g, some) BY <1>1, EncodedFold
<1> DEFINE P == { n \in 0..k : g[n] = f[n] }
<1>3. 0 \in P BY <1>2 DEF Encoding
<1>4. ASSUME NEW n \in 1..k, n - 1 \in P PROVE n \in P
  <2>1. n \in 1..Len(chars) /\ n \in 1..Len(some) /\ n \in 0..k BY <1>1
  <2>2. f[n] = f[n - 1] \o Bytes(chars[n]) /\ g[n] = g[n - 1] \o Bytes(some[n]) BY <1>2, <2>1 DEF Encoding
  <2>3. some[n] = chars[n] /\ g[n - 1] = f[n - 1] BY <1>1, <1>4
  <2>4. QED BY <2>1, <2>2, <2>3
<1> HIDE DEF P
<1>5. \A n \in 0..k : n \in P 
  <2>1. k \in Nat OBVIOUS
  <2>2. QED BY <1>3, <1>4, <2>1, InductionTo
<1>6. g[k] = f[k] BY <1>5 DEF P
<1>7. QED BY <1>1, <1>2, <1>6 DEF Encoding, some

\* The character the limit cuts through, or that ends at the limit.
LEMMA CharacterAtLimit ==
  ASSUME NEW chars \in Seq(1..4), NEW f \in [0..Len(chars) -> Seq(ByteClasses)], Encoding(f, chars),
         NEW L \in Nat, L > 0, L <= Len(f[Len(chars)])
  PROVE  \E n \in 1..Len(chars) : Len(f[n - 1]) < L /\ L <= Len(f[n])
<1> DEFINE N == Len(chars)
           P == { n \in 0..N : Len(f[n]) < L }
<1>1. N \in Nat /\ \A n \in 0..N : Len(f[n]) \in Nat OBVIOUS
<1> SUFFICES ASSUME ~ (\E n \in 1..N : Len(f[n - 1]) < L /\ L <= Len(f[n])) PROVE FALSE OBVIOUS
<1>2. 0 \in P BY <1>1 DEF Encoding
<1>3. ASSUME NEW n \in 1..N, n - 1 \in P PROVE n \in P BY <1>1, <1>3
<1> HIDE DEF P
<1>4. \A n \in 0..N : n \in P BY <1>1, <1>2, <1>3, InductionTo
<1>5. Len(f[N]) < L BY <1>1, <1>4 DEF P
<1>6. QED BY <1>1, <1>5

\* Where BackOff cuts: just before or just behind that character.
LEMMA BackOffCuts ==
  ASSUME NEW chars \in Seq(1..4), NEW f \in [0..Len(chars) -> Seq(ByteClasses)], Encoding(f, chars),
         NEW L \in Nat, NEW n \in 1..Len(chars), Len(f[n - 1]) < L, L <= Len(f[n])
  PROVE  BackOff(SubSeq(f[Len(chars)], 1, L)) = IF chars[n] = 1 THEN f[n] ELSE f[n - 1]
<1> DEFINE data == f[Len(chars)]
           head == SubSeq(data, 1, L)
           s == Len(f[n - 1])
           kept == { i \in 1..Len(head) : head[i] # "cont" }
           cut == IF chars[n] = 1 THEN n ELSE n - 1
<1>1. /\ Len(chars) \in 0..Len(chars) /\ n \in 0..Len(chars) /\ n - 1 \in 0..Len(chars)
      /\ Len(chars) >= n /\ Len(chars) >= n - 1 /\ cut \in 0..Len(chars) /\ Len(chars) >= cut
  OBVIOUS
<1>2. /\ Len(f[n]) <= Len(data) /\ \A i \in 1..Len(f[n]) : data[i] = f[n][i]
      /\ Len(f[cut]) <= Len(data) /\ \A i \in 1..Len(f[cut]) : data[i] = f[cut][i]
  <2> HIDE DEF cut
  <2>1. QED BY <1>1, EncodingPrefix
<1>3. Grows(f, chars, n) BY EncodingGrows
<1>4. data \in Seq(ByteClasses) /\ f[n] \in Seq(ByteClasses) /\ s \in Nat /\ Len(f[n]) \in Nat BY <1>1
<1>5. head \in Seq(ByteClasses) /\ Len(head) = L /\ \A i \in 1..L : head[i] = data[i] BY <1>2, <1>4
<1> HIDE DEF data, head, s, cut
<1>6. \A i \in 1..L : head[i] = f[n][i] BY <1>2, <1>4, <1>5
<1>7. s + 1 \in 1..L /\ head[s + 1] # "cont" /\ (head[s + 1] = "ascii" <=> chars[n] = 1)
  <2>1. s + 1 \in 1..L BY <1>4 DEF s
  <2>2. head[s + 1] = (IF chars[n] = 1 THEN "ascii" ELSE "lead") BY <1>3, <1>6, <2>1 DEF Grows, s
  <2>3. QED BY <2>1, <2>2
<1>8. \A i \in 1..L : i > s + 1 => head[i] = "cont"
  <2> SUFFICES ASSUME NEW i \in 1..L, i > s + 1 PROVE head[i] = "cont" OBVIOUS
  <2>1. i \in (s + 2)..Len(f[n]) BY <1>4
  <2>2. QED BY <1>3, <1>6, <2>1 DEF Grows, s
<1>9. kept # {} /\ Max(kept) = s + 1
  <2>1. kept \in SUBSET (1..L) /\ s + 1 \in kept BY <1>5, <1>7
  <2>2. \A i \in kept : i <= s + 1 BY <1>4, <1>5, <1>8
  <2> HIDE DEF kept
  <2>3. Max(kept) \in kept /\ \A i \in kept : i <= Max(kept) BY <2>1, MaxOfPositions
  <2>4. Max(kept) \in 1..L /\ Max(kept) <= s + 1 /\ s + 1 <= Max(kept) BY ONLY <2>1, <2>2, <2>3
  <2>5. QED BY <1>4, <2>1, <2>4
<1>10. BackOff(head) = SubSeq(head, 1, Len(f[cut]))
  <2> DEFINE last == IF kept = {} THEN 0 ELSE Max(kept)
             end == IF last > 0 /\ head[last] # "ascii" THEN last - 1 ELSE last
  <2>1. BackOff(head) = SubSeq(head, 1, end) BY DEF BackOff
  <2> HIDE DEF kept
  <2>2. last = s + 1 BY <1>9
  <2> HIDE DEF last
  <2>3. end = Len(f[cut]) BY <1>3, <1>4, <1>7, <2>2 DEF Grows, s, cut
  <2> HIDE DEF end
  <2>4. QED BY <2>1, <2>3
<1>11. SubSeq(head, 1, Len(f[cut])) = f[cut]
  <2>1. f[cut] \in Seq(ByteClasses) /\ Len(f[cut]) \in Nat BY <1>1
  <2>2. Len(f[cut]) <= L BY <1>3, <1>4, <1>7 DEF Grows, s, cut
  <2>3. \A i \in 1..Len(f[cut]) : head[i] = f[cut][i] BY <1>2, <1>5, <2>1, <2>2
  <2> DEFINE p == f[cut]
  <2> HIDE DEF p
  <2>4. p = [i \in 1..Len(p) |-> p[i]]
    <3>1. p \in Seq(ByteClasses) BY <2>1 DEF p
    <3>2. QED BY ONLY <3>1
  <2>5. SubSeq(head, 1, Len(f[cut])) = [i \in 1..Len(f[cut]) |-> head[i]] BY <1>5, <2>1, <2>2
  <2>6. QED BY ONLY <2>3, <2>4, <2>5 DEF p
<1>12. QED BY <1>10, <1>11 DEF cut, head, data

\* The cut of a clipboard text that is too long, wherever the limit falls:
\* the payload encodes the first characters of the text, keeps to the limit,
\* and loses no more than the character at the limit (cap_clipboard_payload).
THEOREM CutTextsStayText == ClipTextSpec => []CutStaysText
<1> DEFINE Inv == limit \in Nat /\ text \in Seq(1..4)
<1>1. ClipTextInit => Inv BY ClipTextAssumption DEF ClipTextInit
<1>2. Inv /\ [Write]_<<limit, text>> => Inv'
  <2>1. ASSUME Inv, Write PROVE Inv'
    <3>1. PICK char \in 1..4 : text' = Append(text, char) BY <2>1 DEF Write
    <3>2. limit' = limit BY <2>1 DEF Write
    <3>3. text \in Seq(1..4) /\ limit \in Nat BY <2>1
    <3>4. Append(text, char) \in Seq(1..4) BY ONLY <3>3
    <3>5. QED BY <3>1, <3>2, <3>3, <3>4
  <2>2. ASSUME Inv, UNCHANGED <<limit, text>> PROVE Inv' BY <2>2
  <2>3. QED BY <2>1, <2>2
<1>3. ASSUME Inv PROVE CutStaysText
  <2> DEFINE N == Len(text)
             data == Encoded(text)
             payload == cap_clipboard_payload(data, "text")
  <2>1. limit \in Nat /\ text \in Seq(1..4) /\ N \in Nat /\ N \in 0..N BY <1>3
  <2>2. PICK f \in [0..N -> Seq(ByteClasses)] : Encoding(f, text) BY <2>1, EncodedFold
  <2>3. \A n \in 0..N : Encoded(SubSeq(text, 1, n)) = f[n] /\ Len(f[n]) \in Nat
    BY <2>1, <2>2, EncodedPrefix
  <2>4. data = f[N] BY <2>2 DEF Encoding
  <2>5. ASSUME NEW n \in 0..N, payload = f[n], Len(f[n]) <= limit,
               IF Len(data) <= limit THEN payload = data ELSE Len(f[n]) >= limit - 4
        PROVE  CutStaysText
    BY <2>3, <2>5 DEF CutStaysText
  <2>6. CASE Len(data) <= limit
    <3>1. payload = f[N] BY <2>4, <2>6 DEF cap_clipboard_payload
    <3>2. QED BY <2>1, <2>4, <2>5, <2>6, <3>1
  <2>7. CASE ~ (Len(data) <= limit)
    <3>1. payload = BackOff(SubSeq(f[N], 1, limit)) BY <2>4, <2>7 DEF cap_clipboard_payload
    <3>2. Len(data) \in Nat /\ limit < Len(data) BY <2>1, <2>3, <2>4, <2>7
    <3> HIDE DEF data, payload
    <3>3. CASE limit = 0
      <4>1. SubSeq(f[N], 1, 0) = <<>> BY <2>1
      <4>2. BackOff(<<>>) = <<>>
        <5>1. { n \in 1..Len(<<>>) : <<>>[n] # "cont" } = {} OBVIOUS
        <5>2. BackOff(<<>>) = SubSeq(<<>>, 1, 0) BY <5>1 DEF BackOff
        <5>3. QED BY <5>2
      <4>3. f[0] = <<>> /\ 0 \in 0..N /\ Len(f[0]) = 0 BY <2>1, <2>2 DEF Encoding
      <4>4. payload = f[0] BY <3>1, <3>3, <4>1, <4>2, <4>3
      <4>5. QED BY <2>1, <2>5, <2>7, <3>3, <4>3, <4>4
    <3>4. CASE limit > 0
      <4>1. PICK n \in 1..N : Len(f[n - 1]) < limit /\ limit <= Len(f[n])
        <5>1. limit \in Nat /\ limit > 0 /\ limit <= Len(f[N]) BY <2>1, <2>4, <3>2, <3>4
        <5>2. QED BY <2>1, <2>2, <5>1, CharacterAtLimit
      <4>2. payload = IF text[n] = 1 THEN f[n] ELSE f[n - 1]
        BY <2>1, <2>2, <3>1, <4>1, BackOffCuts
      <4>3. Len(f[n - 1]) \in Nat /\ Len(f[n]) = Len(f[n - 1]) + text[n] /\ text[n] \in 1..4
        BY <2>1, <2>2, EncodingGrows DEF Grows
      <4>4. n \in 0..N /\ n - 1 \in 0..N BY <2>1
      <4>5. CASE text[n] = 1
        <5>1. payload = f[n] /\ Len(f[n]) = limit BY <2>1, <4>1, <4>2, <4>3, <4>5
        <5>2. QED BY <2>1, <2>5, <2>7, <4>4, <5>1
      <4>6. CASE text[n] # 1
        <5>1. payload = f[n - 1] /\ Len(f[n - 1]) <= limit /\ Len(f[n - 1]) >= limit - 4
          BY <2>1, <4>1, <4>2, <4>3, <4>6
        <5>2. QED BY <2>5, <2>7, <4>4, <5>1
      <4>7. QED BY <4>5, <4>6
    <3>5. QED BY <2>1, <3>3, <3>4
  <2>8. QED BY <2>6, <2>7
<1>4. QED BY <1>1, <1>2, <1>3, PTL DEF ClipTextSpec
=============================================================================
