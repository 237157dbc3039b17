----------------------------- MODULE FrameStream -----------------------------
(***************************************************************************)
(* The display path of one wrsrvd and the client it serves: the compositor *)
(* renders and encodes frames (backend/headless.rs), the network thread    *)
(* forwards them on the connection being served (network.rs), and wrclient *)
(* rebuilds the picture from them (main.rs, run_session_loop).             *)
(*                                                                         *)
(* A frame update carries absolute pixels: all of them in a keyframe, the  *)
(* damaged tiles otherwise.  On the wire a message is a run of Parts       *)
(* chunks, of which Window may be unread before the writer has to wait;    *)
(* both ends can be interrupted between two chunks, the writer by another  *)
(* branch of its select!, the reader by its 5 ms timeout.  The checksum in *)
(* an update is taken to identify the frame it was computed from.          *)
(***************************************************************************)
EXTENDS Integers, Sequences, FiniteSets

CONSTANTS
  Tiles,            \* parts of the screen that change separately
  Colors, Black,    \* what a tile may show; Black is a fresh framebuffer
  KeyframeInterval, \* KEYFRAME_INTERVAL: deltas before a forced keyframe
  Parts,            \* chunks a frame update takes on the wire
  Window,           \* chunks the display stream holds before a write pends
  MaxConns,         \* bound: connections
  MaxDraws,         \* bound: changes of the screen
  MaxInput          \* bound: input messages of the client under way

ASSUME FrameAssumption ==
  /\ Black \in Colors
  /\ KeyframeInterval \in Nat \ {0} /\ Parts \in Nat \ {0} /\ Window \in Nat \ {0}
  /\ MaxConns \in Nat /\ MaxDraws \in Nat /\ MaxInput \in Nat

VARIABLES
  screen,           \* what the compositor would render now
  rendered,         \* what it rendered last: the damage tracker's base
  previous_frame,   \* the frame it sent last
  force_keyframe, frames_since_keyframe, client_connected,
  to_net,           \* CompositorToNet channel
  to_comp,          \* NetToCompositor channel
  pc, conn,         \* network thread: idle, binding or relaying; connection number
  answered,         \* last connection the compositor has replied to
  keyframe_seen,
  writing,          \* the update being written and the chunks still to write
  wire,             \* chunks on the display stream
  up,               \* control and input messages from the client
  got,              \* chunks the client's pending read has taken
  in_step,          \* the client reads messages where they begin
  framebuffer, keyframe_pending, painted,
  lost,             \* an update of this connection was dropped half way
  draws

compositor == <<rendered, previous_frame, force_keyframe, frames_since_keyframe, client_connected>>
network == <<pc, conn, keyframe_seen, writing, lost>>
client  == <<got, in_step, framebuffer, keyframe_pending, painted>>
frameVars == <<screen, draws, compositor, to_net, to_comp, network, answered, wire, up, client>>

Frame  == [Tiles -> Colors]
Blank  == [t \in Tiles |-> Black]

\* encode_region takes the pixels of the frame; apply_region copies them.
Encode(frame, region) == [t \in region |-> frame[t]]
apply_region(buffer, pixels) ==
  [t \in Tiles |-> IF t \in DOMAIN pixels THEN pixels[t] ELSE buffer[t]]

Update(frame, region, key) == [pixels |-> Encode(frame, region), checksum |-> frame, key |-> key]

Idle == [left |-> 0]    \* nothing is being written

(***************************************************************************)
(* The compositor.                                                         *)
(***************************************************************************)

\* An application draws.
Draw ==
  /\ draws < MaxDraws
  /\ draws' = draws + 1
  /\ screen' \in Frame \ {screen}
  /\ UNCHANGED <<compositor, to_net, to_comp, network, answered, wire, up, client>>

\* The damage tracker reports what changed since the last render.
Damage == { t \in Tiles : screen[t] # rendered[t] }

\* Mutant: a promoted keyframe carries the damage only.
send_partial_keyframe ==
  IF ~ force_keyframe /\ screen = previous_frame
  THEN UNCHANGED <<previous_frame, force_keyframe, frames_since_keyframe, to_net>>
  ELSE LET key    == force_keyframe \/ frames_since_keyframe >= KeyframeInterval
           region == IF force_keyframe \/ Damage = {} THEN Tiles ELSE Damage
       IN /\ to_net' = Append(to_net, Update(screen, region, key))
          /\ force_keyframe' = FALSE
          /\ frames_since_keyframe' = IF key THEN 0 ELSE frames_since_keyframe + 1
          /\ previous_frame' = screen

\* send_frame_to_network: nothing for an unchanged frame unless a keyframe is
\* forced; every KeyframeInterval-th frame is promoted to one.
send_frame_to_network ==
  IF ~ force_keyframe /\ screen = previous_frame
  THEN UNCHANGED <<previous_frame, force_keyframe, frames_since_keyframe, to_net>>
  ELSE LET key    == force_keyframe \/ frames_since_keyframe >= KeyframeInterval
           region == IF key \/ Damage = {} THEN Tiles ELSE Damage
       IN /\ to_net' = Append(to_net, Update(screen, region, key))
          /\ force_keyframe' = FALSE
          /\ frames_since_keyframe' = IF key THEN 0 ELSE frames_since_keyframe + 1
          /\ previous_frame' = screen

\* One render, on every turn of the loop.
Render ==
  /\ rendered' = screen
  /\ IF client_connected THEN send_frame_to_network
     ELSE UNCHANGED <<previous_frame, force_keyframe, frames_since_keyframe, to_net>>
  /\ UNCHANGED <<screen, draws, client_connected, to_comp, network, answered, wire, up, client>>

\* Mutant: the frame sent last is kept and no keyframe is forced.
ConnectUnforced ==
  /\ client_connected' = TRUE
  /\ answered' = Head(to_comp).conn
  /\ UNCHANGED <<rendered, previous_frame, force_keyframe, frames_since_keyframe>>

\* drain_network_events, one message: the parts that concern frames.
HandleConnected ==
  /\ client_connected' = TRUE /\ force_keyframe' = TRUE /\ previous_frame' = Blank
  /\ answered' = Head(to_comp).conn
  /\ UNCHANGED <<rendered, frames_since_keyframe>>

HandleDisconnected ==
  /\ client_connected' = FALSE
  /\ UNCHANGED <<answered, rendered, previous_frame, force_keyframe, frames_since_keyframe>>

HandleRequestKeyframe ==
  /\ force_keyframe' = TRUE
  /\ UNCHANGED <<answered, rendered, previous_frame, frames_since_keyframe, client_connected>>

HandleEvent ==
  /\ to_comp # <<>>
  /\ to_comp' = Tail(to_comp)
  /\ \/ Head(to_comp).msg = "connected" /\ HandleConnected
     \/ Head(to_comp).msg = "disconnected" /\ HandleDisconnected
     \/ Head(to_comp).msg = "keyframe" /\ HandleRequestKeyframe
  /\ UNCHANGED <<screen, draws, to_net, network, wire, up, client>>

(***************************************************************************)
(* The network thread.                                                     *)
(***************************************************************************)
Connected    == [msg |-> "connected", conn |-> conn + 1]
Disconnected == [msg |-> "disconnected"]

\* Mutant: the keyframe gate stays open from one connection to the next.
StreamsKeepGate == writing' = Idle /\ lost' = FALSE /\ wire' = <<>> /\ up' = <<>>
                   /\ UNCHANGED keyframe_seen

\* The display side of a connection that is taken up or given up.
FreshStreams == writing' = Idle /\ keyframe_seen' = FALSE /\ lost' = FALSE
                /\ wire' = <<>> /\ up' = <<>>

\* A client that (re)connects allocates a black framebuffer.
FreshClient == got' = 0 /\ in_step' = TRUE /\ framebuffer' = Blank
               /\ keyframe_pending' = FALSE /\ painted' = FALSE

\* The idle loop discards what the compositor still sends.
DrainIdle ==
  /\ pc = "idle" /\ to_net # <<>>
  /\ to_net' = Tail(to_net)
  /\ UNCHANGED <<screen, draws, compositor, to_comp, network, answered, wire, up, client>>

\* A client is taken up, when idle or preempting the one being served.
TakeClient ==
  /\ conn < MaxConns
  /\ pc' = "binding" /\ conn' = conn + 1
  /\ to_comp' = to_comp \o IF pc = "idle" THEN <<Connected>> ELSE <<Disconnected, Connected>>
  /\ FreshStreams /\ FreshClient
  /\ UNCHANGED <<screen, draws, compositor, to_net, answered>>

\* The binding arrived: ServerHello is sent and the display stream opened.
Greet ==
  /\ pc = "binding" /\ answered = conn
  /\ pc' = "relaying"
  /\ UNCHANGED <<screen, draws, compositor, to_net, to_comp, conn, keyframe_seen, writing,
                 lost, answered, wire, up, client>>

\* serve_client returns, for whatever reason.
ServeEnds ==
  /\ pc # "idle"
  /\ pc' = "idle"
  /\ to_comp' = Append(to_comp, Disconnected)
  /\ FreshStreams /\ FreshClient
  /\ UNCHANGED <<screen, draws, compositor, to_net, conn, answered>>

\* The chunks of u from the n-th on that fit the window go out.
Write(u, n) ==
  LET fit == IF Parts - n + 1 <= Window - Len(wire) THEN Parts - n + 1
                                                    ELSE Window - Len(wire)
  IN /\ wire' = wire \o [i \in 1..fit |-> [part |-> n + i - 1, update |-> u]]
     /\ writing' = IF n + fit > Parts THEN Idle ELSE [left |-> Parts - n - fit + 1, update |-> u]

\* Mutant: deltas pass whether or not a keyframe has.
RelayUngated ==
  /\ pc = "relaying" /\ writing = Idle /\ to_net # <<>>
  /\ to_net' = Tail(to_net)
  /\ keyframe_seen' = TRUE
  /\ Write(Head(to_net), 1)
  /\ UNCHANGED <<screen, draws, compositor, to_comp, pc, conn, lost, answered, up, client>>

\* check_compositor_commands: a delta is dropped until a keyframe has passed.
RelayFrame ==
  /\ pc = "relaying" /\ writing = Idle /\ to_net # <<>>
  /\ to_net' = Tail(to_net)
  /\ keyframe_seen' = (keyframe_seen \/ Head(to_net).key)
  /\ IF keyframe_seen' THEN Write(Head(to_net), 1) ELSE UNCHANGED <<wire, writing>>
  /\ UNCHANGED <<screen, draws, compositor, to_comp, pc, conn, lost, answered, up, client>>

\* A pending write goes on once the client has read something.
WriteMore ==
  /\ writing # Idle /\ Len(wire) < Window
  /\ Write(writing.update, Parts - writing.left + 1)
  /\ UNCHANGED <<screen, draws, compositor, to_net, to_comp, pc, conn, keyframe_seen, lost,
                 answered, up, client>>

\* A control or input message of the client ends the select!: a write that is
\* pending is dropped with the future that was making it.
RelayControl ==
  /\ pc = "relaying" /\ up # <<>>
  /\ up' = Tail(up)
  /\ to_comp' = IF Head(up) = "keyframe" THEN Append(to_comp, [msg |-> "keyframe"]) ELSE to_comp
  /\ writing' = Idle
  /\ lost' = (lost \/ writing # Idle)
  /\ UNCHANGED <<screen, draws, compositor, to_net, pc, conn, keyframe_seen, answered, wire, client>>

(***************************************************************************)
(* The client.                                                             *)
(***************************************************************************)

\* A complete update: apply it, compare checksums, ask for a keyframe once if
\* they differ, acknowledge.
ApplyUpdate(u) ==
  LET now   == apply_region(framebuffer, u.pixels)
      drift == now # u.checksum
  IN /\ framebuffer' = now
     /\ painted' = TRUE
     /\ keyframe_pending' = drift
     /\ up' = up \o IF drift /\ ~ keyframe_pending THEN <<"keyframe", "ack">> ELSE <<"ack">>

\* The client reads one chunk; the last one of a message completes the read.
\* A chunk that is not the one it waits for is taken for it all the same.
ReadChunk ==
  /\ pc = "relaying" /\ wire # <<>> /\ in_step
  /\ wire' = Tail(wire)
  /\ LET c == Head(wire)
     IN \/ /\ c.part = got + 1 /\ c.part = Parts
           /\ got' = 0
           /\ ApplyUpdate(c.update)
           /\ UNCHANGED in_step
        \/ /\ c.part = got + 1 /\ c.part < Parts
           /\ got' = got + 1
           /\ UNCHANGED <<in_step, framebuffer, painted, keyframe_pending, up>>
        \/ /\ c.part # got + 1
           /\ in_step' = FALSE
           /\ UNCHANGED <<got, framebuffer, painted, keyframe_pending, up>>
  /\ UNCHANGED <<screen, draws, compositor, to_net, to_comp, network, answered>>

\* The 5 ms timeout drops the read, and what it had taken from the stream.
ReadTimeout ==
  /\ pc = "relaying" /\ got > 0 /\ wire = <<>>
  /\ got' = 0
  /\ UNCHANGED <<screen, draws, compositor, to_net, to_comp, network, answered, wire, up,
                 in_step, framebuffer, keyframe_pending, painted>>

\* Between two reads the session loop forwards the user's input.  It runs from
\* the moment the display stream carries data.
SendInput ==
  /\ pc = "relaying" /\ in_step /\ got = 0
  /\ painted \/ wire # <<>>
  /\ Cardinality({ k \in DOMAIN up : up[k] = "input" }) < MaxInput
  /\ up' = Append(up, "input")
  /\ UNCHANGED <<screen, draws, compositor, to_net, to_comp, network, answered, wire, client>>

-----------------------------------------------------------------------------
FrameInit ==
  /\ screen \in Frame /\ rendered = screen /\ previous_frame = Blank
  /\ force_keyframe = FALSE /\ frames_since_keyframe = 0 /\ client_connected = FALSE
  /\ to_net = <<>> /\ to_comp = <<>>
  /\ pc = "idle" /\ conn = 0 /\ answered = 0 /\ keyframe_seen = FALSE
  /\ writing = Idle /\ wire = <<>> /\ up = <<>> /\ lost = FALSE
  /\ got = 0 /\ in_step = TRUE /\ framebuffer = Blank
  /\ keyframe_pending = FALSE /\ painted = FALSE
  /\ draws = 0

FrameNext ==
  \/ Draw \/ Render \/ HandleEvent
  \/ DrainIdle \/ TakeClient \/ Greet \/ ServeEnds
  \/ RelayFrame \/ WriteMore \/ RelayControl
  \/ ReadChunk \/ ReadTimeout \/ SendInput

FrameSpec == FrameInit /\ [][FrameNext]_frameVars

\* The compositor's loop, the network thread and the client keep running;
\* nobody has to draw, connect, hang up or time out.
FrameFairSpec ==
  /\ FrameSpec
  /\ WF_frameVars(Render) /\ WF_frameVars(HandleEvent)
  /\ WF_frameVars(DrainIdle) /\ WF_frameVars(Greet)
  /\ WF_frameVars(RelayFrame) /\ WF_frameVars(WriteMore) /\ WF_frameVars(RelayControl)
  /\ WF_frameVars(ReadChunk)

-----------------------------------------------------------------------------
UpdateType == { u \in [pixels : UNION { [R -> Colors] : R \in SUBSET Tiles },
                       checksum : Frame, key : BOOLEAN] : u.key => DOMAIN u.pixels = Tiles }

\* Type invariant; a keyframe always carries every tile.
FrameTypeOK ==
  /\ {screen, rendered, previous_frame, framebuffer} \subseteq Frame
  /\ frames_since_keyframe \in 0..KeyframeInterval
  /\ {force_keyframe, client_connected, keyframe_seen, in_step, keyframe_pending,
      painted, lost} \subseteq BOOLEAN
  /\ \A k \in DOMAIN to_net : to_net[k] \in UpdateType
  /\ \A k \in DOMAIN wire : wire[k].part \in 1..Parts /\ wire[k].update \in UpdateType
  /\ pc \in {"idle", "binding", "relaying"}
  /\ conn \in 0..MaxConns /\ answered \in 0..conn
  /\ got \in 0..(Parts - 1)
  /\ writing # Idle => writing.left \in 1..Parts
  /\ Len(wire) <= Window

\* A client that has not painted yet is never sent a delta first, whatever the
\* previous connection left in the shared channel (the keyframe_seen gate),
\* as long as no write was dropped half way and its reads are in step (one that
\* has lost its place in the keyframe never paints).
FirstIsKeyframe ==
  (pc = "relaying" /\ ~ painted /\ wire # <<>> /\ ~ lost /\ in_step) => Head(wire).update.key

\* Something for the client is under way, or will be made of the next frame.
UnderWay == force_keyframe \/ to_net # <<>> \/ writing # Idle \/ wire # <<>>

\* As long as no write was dropped half way, the client's picture never drifts
\* from the server's: the damage base, the skipped frames, the keyframe
\* promotion and the handover between connections leave no gap, and the client
\* never has to ask for a resync.  While its reads are in step, too, it shows
\* what was rendered last or is about to be sent what it misses.
NoDrift ==
  /\ keyframe_pending => lost
  /\ pc = "relaying" /\ ~ lost /\ in_step => framebuffer = rendered \/ UnderWay

\* A client that stays connected comes to show what is on the screen.
CatchesUp == <>[](pc = "relaying") => <>[](framebuffer = screen)

\* main.rs: "length-prefixed reads are not cancellation-safe, so they must not
\* be raced against a timeout": the reader always starts where a message does.
ReadsInStep == in_step

\* KEYFRAME_INTERVAL "bounds how long a region missed due to incomplete damage
\* or frame loss can stay stale": a connected client does not stay stale.
StaleRegionHeals == (pc = "relaying") ~> (framebuffer = screen \/ pc # "relaying")
=============================================================================
