----------------------------- MODULE MCLiveness -----------------------------
(***************************************************************************)
(* What must eventually happen, component by component, on instances small *)
(* enough for TLC's search for fair cycles.  As in MCParts a behaviour     *)
(* picks one component and runs it; fairness is that of the component's    *)
(* own specification, asked of the one that was picked.                    *)
(***************************************************************************)
EXTENDS Integers, Sequences, SequencesExt

CONSTANTS
  Tokens, Users, NoUser, Timeouts, DefaultTimeout, MaxAge, MaxId, MaxOps, MaxRestarts,
  Conns, NoConn,
  Tiles, Colors, Black, MaxConns, MaxDraws,
  Servers, NoServer, Client, NoClient, MaxRedirects, MaxCrashes, MaxInbox,
  Token, Unknown, NoSession, MaxSessions, MaxProcs,
  AppTexts, UserTexts, Empty, Long, Cut, Terminals, NoTerminal, MaxCopies,
  Admins, MaxRequests, MaxChanges

VARIABLES
  part,
  sessions, token_index, next_id, store, ops, db, restarts, failures,
  token_of, waiting, pc, cur, hello, channel, reply, active_session, client_connected,
  client_addr, keys_down,
  screen, rendered, previous_frame, force_keyframe, frames_since_keyframe, viewer, to_net, to_comp,
  stage, conn, answered, keyframe_seen, writing, wire, from_client, got, in_step, framebuffer,
  keyframe_pending, painted, lost, draws,
  session, published, remote, inbox, denied, serving, up, phase, at, cand, hop, first, answer, faults, crashes,
  unlisted,
  live, events, launcher, managed, procs, login, started, created, mishaps,
  selection, pending_selection, readers, pushes, connected, to_terminal, from_terminal, reading,
  captures, os, last_text, focus, copies, cuts, inputs, refusals,
  registry, dialled, backlog, admin, asked, requests, queries, rx, slot, filled, answers

\* The order clients try the servers in.
Order == SetToSeq(Servers)

Reg == INSTANCE HotDesk WITH Clustered <- TRUE, MaxInput <- 0, MaxFailures <- 0

\* A stream that never makes a write wait: one chunk per update, a wide window.
Display == INSTANCE FrameStream WITH
  KeyframeInterval <- 1, Parts <- 1, Window <- 6, MaxInput <- 0,
  client_connected <- viewer, pc <- stage, up <- from_client

Peers == INSTANCE Cluster WITH
  Clients <- {Client}, OldClients <- {}, Candidates <- Order, MaxFaults <- 0

Programs == INSTANCE Launcher WITH MaxFaults <- 0, up <- launcher, faults <- mishaps

\* Connections last, and no input cuts a push that is being read.
Clip == INSTANCE Clipboard WITH
  Images <- {}, Capable <- Terminals, MaxCuts <- 0, MaxInputs <- 0, MaxRefusals <- 1,
  to_net <- pushes, to_comp <- captures

Adm == INSTANCE Admin WITH Clients <- Admins, cur <- admin

regVars ==
  <<sessions, token_index, next_id, store, ops, db, restarts, failures>>
deskVars ==
  <<token_of, waiting, pc, cur, hello, channel, reply, active_session, client_connected,
    client_addr, keys_down>>
displayVars ==
  <<screen, rendered, previous_frame, force_keyframe, frames_since_keyframe, viewer, to_net, to_comp,
    stage, conn, answered, keyframe_seen, writing, wire, from_client, got, in_step, framebuffer,
    keyframe_pending, painted, lost, draws>>
serversVars ==
  <<session, published, remote, inbox, denied, serving, up, phase, at, cand, hop, first, answer, faults,
    crashes>>
programsVars ==
  <<live, events, launcher, managed, procs, login, started, created, mishaps>>
clipVars ==
  <<selection, pending_selection, readers, pushes, connected, to_terminal, from_terminal, reading,
    captures, os, last_text, focus, copies, cuts, inputs, refusals>>
admVars ==
  <<registry, dialled, backlog, admin, asked, requests, queries, rx, slot, filled, answers>>

LivenessInit ==
  /\ part \in {"registry", "desk", "display", "servers", "programs", "clipboard", "admin"}
  /\ Reg!Init /\ (part # "registry" => store = "null") /\ Reg!NobodyYet
  /\ Display!FrameInit /\ (part # "display" => screen = Display!Blank)
  /\ Peers!ClusterInit /\ (part # "servers" => unlisted = {} /\ ~ \E s \in Servers : published[s])
  /\ Programs!LauncherInit /\ Clip!ClipInit /\ Adm!AdminInit

RegNext == part = "registry" /\ Reg!Next
           /\ UNCHANGED <<deskVars, displayVars, serversVars, programsVars, clipVars, admVars>>
DeskNext == part = "desk" /\ Reg!HotDeskNext
            /\ UNCHANGED <<displayVars, serversVars, programsVars, clipVars, admVars>>
DisplayNext == part = "display" /\ Display!FrameNext
               /\ UNCHANGED <<regVars, deskVars, serversVars, programsVars, clipVars, admVars>>
ServersNext == part = "servers" /\ Peers!ClusterNext
               /\ UNCHANGED <<regVars, deskVars, displayVars, programsVars, clipVars, admVars>>
ProgramsNext == part = "programs" /\ Programs!LauncherNext
                /\ UNCHANGED <<regVars, deskVars, displayVars, serversVars, clipVars, admVars>>
ClipboardNext == part = "clipboard" /\ Clip!ClipNext
                 /\ UNCHANGED <<regVars, deskVars, displayVars, serversVars, programsVars, admVars>>
AdminNext == part = "admin" /\ Adm!AdminNext
             /\ UNCHANGED <<regVars, deskVars, displayVars, serversVars, programsVars, clipVars>>

LivenessNext ==
  /\ RegNext \/ DeskNext \/ DisplayNext \/ ServersNext \/ ProgramsNext \/ ClipboardNext \/ AdminNext
  /\ UNCHANGED <<part, unlisted>>

allVars == <<part, unlisted, regVars, deskVars, displayVars, serversVars, programsVars, clipVars, admVars>>

LivenessSpec ==
  /\ LivenessInit /\ [][LivenessNext]_allVars
  /\ WF_regVars(part \in {"registry", "desk"} /\ Reg!Tick)
  /\ WF_regVars(part \in {"registry", "desk"} /\ Reg!CleanupExpired)
  /\ WF_<<regVars, deskVars>>(part = "desk" /\ Reg!Compositor)
  /\ WF_displayVars(part = "display" /\ Display!Render)
  /\ WF_displayVars(part = "display" /\ Display!HandleEvent)
  /\ WF_displayVars(part = "display" /\ Display!DrainIdle)
  /\ WF_displayVars(part = "display" /\ Display!Greet)
  /\ WF_displayVars(part = "display" /\ Display!RelayFrame)
  /\ WF_displayVars(part = "display" /\ Display!WriteMore)
  /\ WF_displayVars(part = "display" /\ Display!RelayControl)
  /\ WF_displayVars(part = "display" /\ Display!ReadChunk)
  /\ WF_serversVars(part = "servers" /\ (\/ Peers!Backoff(Client) \/ Peers!Dial(Client)
                                         \/ Peers!DialFails(Client)))
  /\ \A s \in Servers :
       /\ WF_serversVars(part = "servers" /\ (Peers!HandleConnected(s) \/ Peers!HandleDisconnected(s)))
       /\ WF_serversVars(part = "servers" /\ (Peers!Greet(s) \/ Peers!FollowRedirect(s)))
       /\ WF_serversVars(part = "servers" /\ Peers!ForgetRemote(s))
       /\ WF_serversVars(part = "servers" /\ Peers!Restart(s))
  /\ WF_programsVars(part = "programs" /\ Programs!worker)
  /\ WF_clipVars(part = "clipboard" /\ Clip!set_remote_clipboard)
  /\ WF_clipVars(part = "clipboard" /\ Clip!ReadControl)
  /\ WF_clipVars(part = "clipboard" /\ Clip!capture_if_changed)
  /\ \A t \in Terminals : WF_clipVars(part = "clipboard" /\ Clip!Connect(t))
  /\ WF_admVars(part = "admin" /\ Adm!serve_json)
  /\ WF_admVars(part = "admin" /\ Adm!dispatch)
  /\ WF_admVars(part = "admin" /\ (Adm!Reply \/ Adm!ReplyTimeout))
  /\ \A c \in Admins : WF_admVars(part = "admin" /\ Adm!HangUp(c))

-----------------------------------------------------------------------------
\* A suspended session nobody resumes is reclaimed, restarts included.
SuspendedIsReclaimed == Reg!SuspendedIsReclaimed

\* After the last connection is gone no session stays active.
AbandonedIsSuspended == Reg!AbandonedIsSuspended

\* A client that stays connected comes to show the screen.
CatchesUp == Display!CatchesUp

\* A client that lost its connection is connected again.
Reconnects == Peers!Reconnects

\* Once its session is gone the token's programs are gone, or it has a new one.
LogoutTakesEffect == Programs!LogoutTakesEffect

\* A text copied at a terminal becomes the session's selection, as long as its
\* connection lasts and no input arrives while the push is read.
LocalCopyArrives == Clip!LocalCopyArrives

\* Every request of an administrator is answered.
AdminAnswered == Adm!AdminAnswered
=============================================================================
