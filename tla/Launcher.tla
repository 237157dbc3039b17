------------------------------ MODULE Launcher ------------------------------
(***************************************************************************)
(* The session launcher: wrsrvd tells wrsessd of the sessions it creates   *)
(* and destroys (launcher_link.rs), wrsessd starts and kills the programs  *)
(* of a session (wrsessd/main.rs), and the greeter asks it for the desktop *)
(* (wrlogin).  The module follows ONE token.  Events go through a queue    *)
(* and one connection each; wrsessd serves connections one at a time, in   *)
(* the order they were made (transport.rs), so a delivery is one step.     *)
(***************************************************************************)
EXTENDS Integers, Sequences, FiniteSets

CONSTANTS
  Token, Unknown,  \* the token, and what a greeter that was given none says
  NoSession,
  MaxSessions,     \* bound: sessions created for the token
  MaxProcs,        \* bound: programs started
  MaxFaults        \* bound: crashes and restarts

Program == [n : 1..MaxProcs, kind : {"greeter", "desktop"}]

ASSUME LauncherAssumption ==
  /\ Token # Unknown /\ \A children \in SUBSET Program : NoSession # children
  /\ MaxSessions \in Nat /\ MaxProcs \in Nat /\ MaxFaults \in Nat

VARIABLES
  live,      \* whether the registry has a session for the token
  events,    \* LauncherEvents the link's worker has yet to deliver
  up,        \* whether wrsessd runs
  managed,   \* children of its session for the token, or NoSession
  procs,     \* programs running
  login,     \* what the last login came to: "none", "started" or "failed"
  started, created, faults

launcherVars == <<live, events, up, managed, procs, login, started, created, faults>>

(***************************************************************************)
(* The compositor and its link.                                            *)
(***************************************************************************)
session_created ==
  /\ ~ live /\ created < MaxSessions
  /\ live' = TRUE /\ created' = created + 1
  /\ events' = Append(events, "created")
  /\ UNCHANGED <<login, up, managed, procs, started, faults>>

\* The sweep destroys the session, which nobody has resumed.
session_destroyed ==
  /\ live /\ live' = FALSE
  /\ events' = Append(events, "destroyed")
  /\ UNCHANGED <<login, up, managed, procs, started, created, faults>>

\* Starting a program may fail; its session is registered all the same.
Spawn(kind, children) ==
  \/ /\ started < MaxProcs /\ started' = started + 1
     /\ procs' = procs \cup {[n |-> started', kind |-> kind]}
     /\ managed' = children \cup {[n |-> started', kind |-> kind]}
  \/ managed' = children /\ UNCHANGED <<started, procs>>

\* The entry of the token is replaced, whatever children it had.
handle_session_requested == Spawn("greeter", {})

\* Mutant: only the greeter is killed.
LogoutGreeterOnly ==
  /\ managed' = NoSession
  /\ procs' = IF managed = NoSession THEN procs ELSE procs \ { p \in managed : p.kind = "greeter" }
  /\ UNCHANGED started

handle_session_logout ==
  /\ managed' = NoSession
  /\ procs' = IF managed = NoSession THEN procs ELSE procs \ managed
  /\ UNCHANGED started

\* Mutant: the newest event is delivered first.
NewestFirst ==
  /\ events # <<>> /\ events' = SubSeq(events, 1, Len(events) - 1)
  /\ \/ up /\ events[Len(events)] = "created"   /\ handle_session_requested
     \/ up /\ events[Len(events)] = "destroyed" /\ handle_session_logout
     \/ ~ up /\ UNCHANGED <<managed, procs, started>>
  /\ UNCHANGED <<login, live, up, created, faults>>

\* The link's worker delivers the oldest event; if wrsessd is not there the
\* event is logged and dropped.
worker ==
  /\ events # <<>> /\ events' = Tail(events)
  /\ \/ up /\ Head(events) = "created"   /\ handle_session_requested
     \/ up /\ Head(events) = "destroyed" /\ handle_session_logout
     \/ ~ up /\ UNCHANGED <<managed, procs, started>>
  /\ UNCHANGED <<login, live, up, created, faults>>

(***************************************************************************)
(* Logins and administration.                                              *)
(***************************************************************************)

\* SessionAuthenticated: one component of the desktop is started (the list
\* is the user's; wrsessd starts all of it in one go).  A token without a
\* session, and a wrsessd that is not there, are errors the greeter shows.
handle_session_authenticated(token) ==
  /\ IF up /\ token = Token /\ managed # NoSession
     THEN Spawn("desktop", managed) /\ login' = "started"
     ELSE login' = "failed" /\ UNCHANGED <<managed, procs, started>>
  /\ UNCHANGED <<live, events, up, created, faults>>

\* wrsessd gives the greeter it starts WAYLAND_DISPLAY and nothing else.
GreeterToken == Unknown

\* The user logs in at the greeter that wrsessd started.
GreeterLogin ==
  /\ \E p \in procs : p.kind = "greeter"
  /\ handle_session_authenticated(GreeterToken)

\* Someone who knows the token logs in through a greeter of their own.
OtherLogin == handle_session_authenticated(Token)

\* wradm kills the session; the registry does not hear of it.
kill_session ==
  /\ up /\ managed # NoSession
  /\ managed' = NoSession /\ procs' = procs \ managed
  /\ UNCHANGED <<login, live, events, up, started, created, faults>>

Exit(p) ==
  /\ p \in procs /\ procs' = procs \ {p}
  /\ UNCHANGED <<login, live, events, up, managed, started, created, faults>>

(***************************************************************************)
(* Faults.  The children of a wrsessd that dies go on running.             *)
(***************************************************************************)
LauncherCrash ==
  /\ up /\ faults < MaxFaults /\ faults' = faults + 1
  /\ up' = FALSE /\ managed' = NoSession
  /\ UNCHANGED <<login, live, events, procs, started, created>>

LauncherStart ==
  /\ ~ up /\ up' = TRUE
  /\ UNCHANGED <<login, live, events, managed, procs, started, created, faults>>

\* wrsrvd restarts, with a database that kept the session or without.
ServerRestart ==
  /\ faults < MaxFaults /\ faults' = faults + 1
  /\ live' \in {live, FALSE} /\ events' = <<>>
  /\ UNCHANGED <<login, up, managed, procs, started, created>>

LauncherInit ==
  /\ live = FALSE /\ events = <<>> /\ up = TRUE /\ managed = NoSession
  /\ procs = {} /\ login = "none" /\ started = 0 /\ created = 0 /\ faults = 0

LauncherNext ==
  \/ session_created \/ session_destroyed \/ worker
  \/ GreeterLogin \/ OtherLogin \/ kill_session
  \/ \E p \in Program : Exit(p)
  \/ LauncherCrash \/ LauncherStart \/ ServerRestart

LauncherSpec == LauncherInit /\ [][LauncherNext]_launcherVars

\* The worker is a thread of its own that never waits for the compositor, and
\* wrsessd answers at once.  Nobody has to log in.
LauncherFairSpec == LauncherSpec /\ WF_launcherVars(worker)

-----------------------------------------------------------------------------
\* As long as nothing has crashed, every program that runs belongs to the
\* session wrsessd manages now: a logout still queued when the token gets a
\* new session, a login racing a logout, and an administrator who kills the
\* session leave no program without an owner.  Programs that outlive their
\* session are about to be killed: the logout is the last event queued.
NoOrphans ==
  faults = 0 =>
    /\ procs \subseteq (IF managed = NoSession THEN {} ELSE managed)
    /\ ~ live /\ procs # {} => events # <<>> /\ events[Len(events)] = "destroyed"

\* Without crashes, once its session is gone the token's programs are gone
\* too, or it has a new session.
LogoutTakesEffect == (~ live) ~> (procs = {} \/ live)

(***************************************************************************)
(* What the repository says and the code does not do: TLC refutes each of  *)
(* these (README, Deviations).                                             *)
(***************************************************************************)

\* "session_logout: Clean up child processes": when a logout has been handled
\* no program of the token is left.
LogoutCleansUp ==
  [][(/\ up /\ events # <<>> /\ Head(events) = "destroyed" /\ events' = Tail(events)
      /\ managed # NoSession /\ managed' = NoSession)
        => procs' = {}]_launcherVars

\* "The session token is passed via environment variable by the launcher": a
\* login at the greeter of the session starts the desktop.
LoginStartsDesktop ==
  [][(/\ up /\ managed # NoSession /\ \E p \in procs : p \in managed /\ p.kind = "greeter"
      /\ login' # login)
        => login' = "started"]_launcherVars
=============================================================================
