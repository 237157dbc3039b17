------------------------- MODULE FrameStreamProofs -------------------------
(***************************************************************************)
(* What TLAPS proves of FrameStream, for any number of tiles, connections  *)
(* and chunks, any window and keyframe interval: its type invariant, that  *)
(* a client's first update is a keyframe, and that, unless a write was     *)
(* dropped half way, its picture never drifts and never stays behind with  *)
(* nothing under way.                                                      *)
(***************************************************************************)
EXTENDS FrameStream, SequenceTheorems, TLAPS

\* A keyframe carries the picture it was made from.
TrueUpdate == { u \in UpdateType : u.key => u.pixels = u.checksum }

Chunk == [part : 1..Parts, update : TrueUpdate]
Event == [msg : {"connected"}, conn : Nat] \cup [msg : {"disconnected", "keyframe"}]

\* The types, with those of the channels.
ChannelTypes ==
  /\ screen \in Frame /\ rendered \in Frame /\ previous_frame \in Frame /\ framebuffer \in Frame
  /\ frames_since_keyframe \in 0..KeyframeInterval
  /\ force_keyframe \in BOOLEAN /\ client_connected \in BOOLEAN /\ keyframe_seen \in BOOLEAN
  /\ in_step \in BOOLEAN /\ keyframe_pending \in BOOLEAN /\ painted \in BOOLEAN /\ lost \in BOOLEAN
  /\ to_net \in Seq(TrueUpdate)
  /\ wire \in Seq(Chunk) /\ Len(wire) <= Window
  /\ writing = Idle \/ writing \in [left : 1..Parts, update : TrueUpdate]
  /\ to_comp \in Seq(Event)
  /\ \A k \in 1..Len(to_comp) : to_comp[k].msg = "connected" => to_comp[k].conn \in 0..conn
  /\ up \in Seq({"keyframe", "ack", "input"})
  /\ pc \in {"idle", "binding", "relaying"}
  /\ conn \in 0..MaxConns /\ answered \in 0..conn
  /\ got \in 0..(Parts - 1)

-----------------------------------------------------------------------------
(***************************************************************************)
(* The inductive invariant: every update in the compositor's channel, in   *)
(* the writer's hands and on the wire is a step from the picture that the  *)
(* update before it leaves.                                                *)
(***************************************************************************)

\* An update turns the picture f into the one it was made from.
Follows(f, u) == apply_region(f, u.pixels) = u.checksum

\* Nothing has broken the client's stream yet.
Sound == ~ lost /\ in_step

\* What the client shows once it has read everything that passed the gate.
Tip == IF writing # Idle THEN writing.update.checksum
       ELSE IF wire # <<>> THEN wire[Len(wire)].update.checksum
       ELSE framebuffer

\* The n-th part of u comes right behind chunk c.
Succeeds(c, u, n) ==
  IF n = 1 THEN c.part = Parts /\ Follows(c.update.checksum, u)
           ELSE c.update = u /\ c.part = n - 1

\* The n-th part of u is what the client reads next: it is the part it waits
\* for, unless it has given up a read.
Awaited(u, n) ==
  /\ got > 0 => n = got + 1
  /\ n = got + 1 => Follows(framebuffer, u)
  /\ ~ painted => u.key

\* The n-th part of u is what the writer writes next.
Upcoming(u, n) == IF wire = <<>> THEN Awaited(u, n) ELSE Succeeds(wire[Len(wire)], u, n)

QueueLinked == \A k \in 1..(Len(to_net) - 1) : Follows(to_net[k].checksum, to_net[k + 1])

\* The next damage is relative to what was sent last.
BaseIsSent ==
  (client_connected /\ ~ force_keyframe) =>
    /\ rendered = previous_frame
    /\ to_net # <<>> => to_net[Len(to_net)].checksum = previous_frame
    /\ (to_net = <<>> /\ keyframe_seen /\ Sound) => Tip = previous_frame

QueueFollows == (keyframe_seen /\ Sound /\ to_net # <<>>) => Follows(Tip, to_net[1])

GateClosed == /\ ~ keyframe_seen => wire = <<>> /\ writing = Idle
              /\ keyframe_seen => pc = "relaying"

StreamLinked ==
  Sound =>
    /\ \A k \in 1..(Len(wire) - 1) : Succeeds(wire[k], wire[k + 1].update, wire[k + 1].part)
    /\ wire # <<>> => Awaited(wire[1].update, wire[1].part)
    /\ writing # Idle => Upcoming(writing.update, Parts - writing.left + 1)
    /\ writing = Idle => IF wire = <<>> THEN got = 0 /\ (painted \/ ~ keyframe_seen)
                                        ELSE wire[Len(wire)].part = Parts

\* The client need not ask for a keyframe.
NoResync == keyframe_pending => lost

FrameInv ==
  /\ ChannelTypes /\ NoResync
  /\ QueueLinked /\ BaseIsSent /\ QueueFollows /\ GateClosed /\ StreamLinked

-----------------------------------------------------------------------------
(***************************************************************************)
(* Updates.                                                                *)
(***************************************************************************)

\* A keyframe brings about its picture whatever was there before.
LEMMA KeyframeFollows ==
  ASSUME NEW u \in TrueUpdate, u.key, NEW f
  PROVE  Follows(f, u)
  <1>1. u.checksum \in Frame /\ u.pixels = u.checksum
    BY DEF TrueUpdate, UpdateType
  <1> QED
    BY <1>1 DEF Follows, apply_region, Frame

\* Applying an update leaves a whole picture.
LEMMA AppliedIsFrame ==
  ASSUME NEW u \in TrueUpdate, NEW f \in Frame
  PROVE  apply_region(f, u.pixels) \in Frame /\ u.checksum \in Frame /\ u.key \in BOOLEAN
  BY DEF TrueUpdate, UpdateType, apply_region, Frame

\* encode_region and apply_region are inverse: the pixels of a region that
\* contains every difference turn the one picture into the other.
LEMMA EncodedFollows ==
  ASSUME NEW f \in Frame, NEW g \in Frame, NEW region \in SUBSET Tiles, NEW key \in BOOLEAN,
         \A t \in Tiles \ region : f[t] = g[t]
  PROVE  Follows(f, Update(g, region, key))
  <1>1. apply_region(f, Encode(g, region)) = [t \in Tiles |-> g[t]]
    BY DEF apply_region, Encode, Frame
  <1>2. g = [t \in Tiles |-> g[t]]
    BY DEF Frame
  <1> QED
    BY <1>1, <1>2 DEF Follows, Update

\* What send_frame_to_network makes is a well-formed update.
LEMMA EncodedTyped ==
  ASSUME NEW g \in Frame, NEW region \in SUBSET Tiles, NEW key \in BOOLEAN, key => region = Tiles
  PROVE  /\ Update(g, region, key) \in TrueUpdate
         /\ Update(g, region, key).checksum = g /\ Update(g, region, key).key = key
  <1>1. Encode(g, region) \in [region -> Colors] /\ DOMAIN Encode(g, region) = region
    BY DEF Encode, Frame
  <1>2. Encode(g, region) \in UNION { [R -> Colors] : R \in SUBSET Tiles }
    BY <1>1
  <1>3. region = Tiles => Encode(g, region) = g
    BY DEF Encode, Frame
  <1> QED
    BY <1>1, <1>2, <1>3 DEF Update, UpdateType, TrueUpdate

-----------------------------------------------------------------------------
(***************************************************************************)
(* The compositor's channel.                                               *)
(***************************************************************************)

\* Taking the oldest update off the channel: the rest stays linked, and the
\* newest is the same.
LEMMA Dequeued ==
  ASSUME ChannelTypes, QueueLinked, to_net # <<>>, to_net' = Tail(to_net)
  PROVE  /\ Head(to_net) = to_net[1] /\ to_net[1] \in TrueUpdate
         /\ to_net' \in Seq(TrueUpdate) /\ QueueLinked'
         /\ to_net' # <<>> => /\ to_net'[Len(to_net')] = to_net[Len(to_net)]
                              /\ Follows(to_net[1].checksum, to_net'[1])
         /\ to_net' = <<>> => to_net[Len(to_net)] = to_net[1]
  <1>1. /\ to_net \in Seq(TrueUpdate) /\ Len(to_net) \in Nat \ {0} /\ Head(to_net) = to_net[1]
        /\ to_net[1] \in TrueUpdate
    BY EmptySeq, LenProperties DEF ChannelTypes
  <1>2. /\ to_net' \in Seq(TrueUpdate) /\ Len(to_net') = Len(to_net) - 1
        /\ \A k \in 1..Len(to_net') : to_net'[k] = to_net[k + 1]
        /\ to_net' = <<>> <=> Len(to_net) = 1
    <2>1. /\ to_net' \in Seq(TrueUpdate) /\ Len(to_net') = Len(to_net) - 1
          /\ \A k \in 1..Len(to_net') : to_net'[k] = to_net[k + 1]
      BY <1>1, HeadTailProperties
    <2>2. to_net' = <<>> <=> Len(to_net') = 0
      BY <2>1, EmptySeq
    <2> QED
      BY <1>1, <2>1, <2>2
  <1>3. ASSUME NEW k \in 1..(Len(to_net') - 1)
        PROVE  Follows(to_net'[k].checksum, to_net'[k + 1])
    <2>1. k \in 1..Len(to_net') /\ k + 1 \in 1..Len(to_net') /\ k + 1 \in 1..(Len(to_net) - 1)
      BY <1>1, <1>2
    <2>2. Follows(to_net[k + 1].checksum, to_net[(k + 1) + 1])
      BY <2>1 DEF QueueLinked
    <2> QED
      BY <1>2, <2>1, <2>2
  <1>4. QueueLinked'
    BY <1>3 DEF QueueLinked
  <1>5. to_net' # <<>> => /\ to_net'[Len(to_net')] = to_net[Len(to_net)]
                          /\ Follows(to_net[1].checksum, to_net'[1])
    <2> SUFFICES ASSUME to_net' # <<>> PROVE /\ to_net'[Len(to_net')] = to_net[Len(to_net)]
                                             /\ Follows(to_net[1].checksum, to_net'[1])
      OBVIOUS
    <2>1. /\ Len(to_net') \in 1..Len(to_net') /\ 1 \in 1..Len(to_net') /\ 1 \in 1..(Len(to_net) - 1)
          /\ Len(to_net') + 1 = Len(to_net)
      BY <1>1, <1>2
    <2>2. Follows(to_net[1].checksum, to_net[1 + 1])
      BY <2>1 DEF QueueLinked
    <2> QED
      BY <1>2, <2>1, <2>2
  <1> QED
    BY <1>1, <1>2, <1>4, <1>5

\* Putting an update behind the others that follows from the newest of them.
LEMMA Enqueued ==
  ASSUME ChannelTypes, QueueLinked, NEW u \in TrueUpdate, to_net' = Append(to_net, u),
         to_net # <<>> => Follows(to_net[Len(to_net)].checksum, u)
  PROVE  /\ to_net' \in Seq(TrueUpdate) /\ QueueLinked'
         /\ to_net' # <<>> /\ to_net'[Len(to_net')] = u
         /\ to_net'[1] = IF to_net = <<>> THEN u ELSE to_net[1]
  <1>1. /\ to_net \in Seq(TrueUpdate) /\ Len(to_net) \in Nat
        /\ to_net = <<>> <=> Len(to_net) = 0
    BY EmptySeq, LenProperties DEF ChannelTypes
  <1>2. /\ to_net' \in Seq(TrueUpdate) /\ to_net' # <<>> /\ Len(to_net') = Len(to_net) + 1
        /\ \A k \in 1..Len(to_net) : to_net'[k] = to_net[k]
        /\ to_net'[Len(to_net) + 1] = u
    BY <1>1, AppendProperties
  <1>3. ASSUME NEW k \in 1..(Len(to_net') - 1)
        PROVE  Follows(to_net'[k].checksum, to_net'[k + 1])
    <2>1. CASE k = Len(to_net)
      BY <1>1, <1>2, <2>1
    <2>2. CASE k # Len(to_net)
      <3>1. k \in 1..Len(to_net) /\ k + 1 \in 1..Len(to_net) /\ k \in 1..(Len(to_net) - 1)
        BY <1>1, <1>2, <2>2
      <3> QED
        BY <1>2, <3>1 DEF QueueLinked
    <2> QED
      BY <2>1, <2>2
  <1>4. QueueLinked'
    BY <1>3 DEF QueueLinked
  <1> QED
    BY <1>1, <1>2, <1>4

-----------------------------------------------------------------------------
(***************************************************************************)
(* The display stream.                                                     *)
(***************************************************************************)

\* What a write adds to the wire.
LEMMA Written ==
  ASSUME ChannelTypes, NEW u \in TrueUpdate, NEW n \in 1..Parts, Write(u, n)
  PROVE  \E fit \in 0..(Parts - n + 1) :
           /\ wire' \in Seq(Chunk) /\ Len(wire') = Len(wire) + fit /\ Len(wire') <= Window
           /\ \A k \in 1..Len(wire) : wire'[k] = wire[k]
           /\ \A k \in 1..fit : wire'[Len(wire) + k] = [part |-> n + k - 1, update |-> u]
           /\ writing' = IF fit = Parts - n + 1 THEN Idle
                         ELSE [left |-> Parts - n - fit + 1, update |-> u]
           /\ Len(wire) < Window => fit > 0
  <1> DEFINE fit == IF Parts - n + 1 <= Window - Len(wire) THEN Parts - n + 1 ELSE Window - Len(wire)
             new == [i \in 1..fit |-> [part |-> n + i - 1, update |-> u]]
  <1>1. wire \in Seq(Chunk) /\ Len(wire) \in Nat /\ Len(wire) <= Window
    BY LenProperties DEF ChannelTypes
  <1>2. fit \in 0..(Parts - n + 1) /\ Len(wire) + fit <= Window /\ (Len(wire) < Window => fit > 0)
    BY <1>1, FrameAssumption
  <1> HIDE DEF fit
  <1>3. /\ new \in Seq(Chunk) /\ Len(new) = fit
        /\ \A k \in 1..fit : new[k] = [part |-> n + k - 1, update |-> u]
    BY <1>2, FrameAssumption DEF Chunk
  <1>4. wire' = wire \o new
    BY DEF Write, fit
  <1> HIDE DEF new
  <1>5. writing' = IF n + fit > Parts THEN Idle ELSE [left |-> Parts - n - fit + 1, update |-> u]
    BY DEF Write, fit
  <1>6. n + fit > Parts <=> fit = Parts - n + 1
    BY <1>2, FrameAssumption
  <1>7. /\ wire' \in Seq(Chunk) /\ Len(wire') = Len(wire) + fit
        /\ \A k \in 1..(Len(wire) + fit) :
             wire'[k] = IF k <= Len(wire) THEN wire[k] ELSE new[k - Len(wire)]
    BY <1>1, <1>3, <1>4, ConcatProperties
  <1>8. \A k \in 1..Len(wire) : wire'[k] = wire[k]
    BY <1>1, <1>2, <1>7
  <1>9. ASSUME NEW k \in 1..fit
        PROVE  wire'[Len(wire) + k] = [part |-> n + k - 1, update |-> u]
    <2>1. Len(wire) + k \in 1..(Len(wire) + fit) /\ ~ (Len(wire) + k <= Len(wire))
          /\ (Len(wire) + k) - Len(wire) = k
      BY <1>1, <1>2
    <2> QED
      BY <1>3, <1>7, <2>1
  <1> QED
    BY <1>2, <1>5, <1>6, <1>7, <1>8, <1>9

\* Writing on keeps the stream linked, and it ends in the update written.
LEMMA WriteLinks ==
  ASSUME ChannelTypes, NEW u \in TrueUpdate, NEW n \in 1..Parts, Write(u, n),
         UNCHANGED <<got, framebuffer, painted>>,
         \A k \in 1..(Len(wire) - 1) : Succeeds(wire[k], wire[k + 1].update, wire[k + 1].part),
         wire # <<>> => Awaited(wire[1].update, wire[1].part),
         Upcoming(u, n)
  PROVE  StreamLinked' /\ Tip' = u.checksum
  <1>1. PICK fit \in 0..(Parts - n + 1) :
           /\ wire' \in Seq(Chunk) /\ Len(wire') = Len(wire) + fit
           /\ \A k \in 1..Len(wire) : wire'[k] = wire[k]
           /\ \A k \in 1..fit : wire'[Len(wire) + k] = [part |-> n + k - 1, update |-> u]
           /\ writing' = IF fit = Parts - n + 1 THEN Idle
                         ELSE [left |-> Parts - n - fit + 1, update |-> u]
    BY Written
  <1>2. /\ wire \in Seq(Chunk) /\ Len(wire) \in Nat /\ Parts \in Nat \ {0}
        /\ wire = <<>> <=> Len(wire) = 0
    BY LenProperties, EmptySeq, FrameAssumption DEF ChannelTypes
  <1>3. wire' = <<>> <=> Len(wire') = 0
    BY <1>1, EmptySeq
  <1>4. /\ writing' = Idle <=> fit = Parts - n + 1
        /\ fit # Parts - n + 1 => writing'.left = Parts - n - fit + 1 /\ writing'.update = u
    BY <1>1, <1>2 DEF Idle
  <1>5. fit > 0 => /\ wire'[Len(wire')] = [part |-> n + fit - 1, update |-> u]
                   /\ wire'[Len(wire) + 1] = [part |-> n, update |-> u]
    BY <1>1, <1>2
  <1>6. ASSUME NEW k \in 1..(Len(wire') - 1)
        PROVE  Succeeds(wire'[k], wire'[k + 1].update, wire'[k + 1].part)
    <2>1. CASE k < Len(wire)
      <3>1. k \in 1..Len(wire) /\ k + 1 \in 1..Len(wire) /\ k \in 1..(Len(wire) - 1)
        BY <1>2, <2>1
      <3> QED
        BY <1>1, <3>1
    <2>2. CASE k = Len(wire)
      <3>1. fit > 0 /\ k \in 1..Len(wire) /\ wire # <<>>
        BY <1>1, <1>2, <2>2
      <3> QED
        BY <1>1, <1>5, <2>2, <3>1 DEF Upcoming
    <2>3. CASE k > Len(wire)
      <3> DEFINE j == k - Len(wire)
      <3>1. j \in 1..fit /\ j + 1 \in 1..fit /\ Len(wire) + j = k /\ Len(wire) + (j + 1) = k + 1
        BY <1>1, <1>2, <2>3
      <3>2. /\ wire'[k] = [part |-> n + j - 1, update |-> u]
            /\ wire'[k + 1] = [part |-> n + (j + 1) - 1, update |-> u]
        BY <1>1, <3>1
      <3> QED
        BY <1>2, <3>1, <3>2 DEF Succeeds
    <2> QED
      BY <1>2, <2>1, <2>2, <2>3
  <1>7. wire' # <<>> => Awaited(wire[1].update, wire[1].part)'
    <2>1. CASE wire # <<>>
      <3>1. wire'[1] = wire[1]
        BY <1>1, <1>2, <2>1
      <3> QED
        BY <2>1, <3>1 DEF Awaited
    <2>2. CASE wire = <<>> /\ wire' # <<>>
      <3>1. wire'[1] = [part |-> n, update |-> u]
        BY <1>1, <1>2, <1>3, <1>5, <2>2
      <3> QED
        BY <2>2, <3>1 DEF Awaited, Upcoming
    <2> QED
      BY <2>1, <2>2
  <1>8. writing' # Idle => Upcoming(writing.update, Parts - writing.left + 1)'
    <2> SUFFICES ASSUME writing' # Idle PROVE Upcoming(writing.update, Parts - writing.left + 1)'
      OBVIOUS
    <2>1. writing'.update = u /\ Parts - writing'.left + 1 = n + fit
      BY <1>1, <1>2, <1>4
    <2>2. CASE fit > 0
      <3>1. wire' # <<>> /\ n + fit # 1 /\ (n + fit) - 1 = n + fit - 1
        BY <1>1, <1>2, <1>3, <2>2
      <3>2. Succeeds(wire'[Len(wire')], u, n + fit)
        BY <1>5, <2>2, <3>1 DEF Succeeds
      <3> QED
        BY <2>1, <3>1, <3>2 DEF Upcoming
    <2>3. CASE fit = 0
      <3>1. Len(wire') = Len(wire) /\ n + fit = n
        BY <1>1, <1>2, <2>3
      <3>2. wire' = wire
        BY <1>1, <1>2, <3>1, SeqEqual
      <3> QED
        BY <2>1, <3>1, <3>2 DEF Upcoming, Awaited
    <2> QED
      BY <2>2, <2>3
  <1>9. writing' = Idle => wire' # <<>> /\ wire'[Len(wire')].part = Parts
    <2> SUFFICES ASSUME writing' = Idle PROVE wire' # <<>> /\ wire'[Len(wire')].part = Parts
      OBVIOUS
    <2>1. fit > 0 /\ n + fit - 1 = Parts /\ Len(wire') # 0
      BY <1>1, <1>2, <1>4
    <2> QED
      BY <1>3, <1>5, <2>1
  <1>10. Tip' = u.checksum
    <2>1. CASE writing' # Idle
      BY <1>4, <2>1 DEF Tip
    <2>2. CASE writing' = Idle
      <3>1. fit > 0
        BY <1>2, <1>4, <2>2
      <3> QED
        BY <1>5, <1>9, <2>2, <3>1 DEF Tip
    <2> QED
      BY <2>1, <2>2
  <1> QED
    BY <1>6, <1>7, <1>8, <1>9, <1>10 DEF StreamLinked

-----------------------------------------------------------------------------
(***************************************************************************)
(* The steps.                                                              *)
(***************************************************************************)

\* A message for the compositor more or less.
LEMMA EventSent ==
  ASSUME ChannelTypes, NEW e \in Event, to_comp' = Append(to_comp, e), conn' = conn,
         e.msg = "connected" => e.conn \in 0..conn
  PROVE  /\ to_comp' \in Seq(Event)
         /\ \A k \in 1..Len(to_comp') : to_comp'[k].msg = "connected" => to_comp'[k].conn \in 0..conn'
  <1>1. to_comp \in Seq(Event) /\ Len(to_comp) \in Nat
    BY LenProperties DEF ChannelTypes
  <1>2. /\ to_comp' \in Seq(Event) /\ Len(to_comp') = Len(to_comp) + 1
        /\ \A k \in 1..Len(to_comp) : to_comp'[k] = to_comp[k]
        /\ to_comp'[Len(to_comp) + 1] = e
    BY <1>1, AppendProperties
  <1> QED
    BY <1>1, <1>2 DEF ChannelTypes

\* A step that moves no update and changes no picture.
LEMMA Unmoved ==
  ASSUME FrameInv, ChannelTypes', pc' \in {pc, "relaying"},
         UNCHANGED <<rendered, previous_frame, force_keyframe, client_connected, to_net,
                     keyframe_seen, writing, wire, lost, client>>
  PROVE  FrameInv'
  BY DEF FrameInv, NoResync, QueueLinked, BaseIsSent, QueueFollows, GateClosed, StreamLinked, Sound,
         Tip, Upcoming, Awaited, client

\* An application draws.
LEMMA DrawInv == ASSUME FrameInv, Draw PROVE FrameInv'
  <1>1. ChannelTypes'
    BY DEF FrameInv, ChannelTypes, Draw, compositor, network, client
  <1> QED
    BY <1>1, Unmoved DEF Draw, compositor, network

\* The compositor renders: the update it sends follows from the newest one in
\* the channel, or, if that is empty, from the tip of the client's stream.
LEMMA RenderInv == ASSUME FrameInv, Render PROVE FrameInv'
  <1>1. /\ rendered' = screen
        /\ UNCHANGED <<screen, client_connected, to_comp, network, answered, wire, up, client>>
    BY DEF Render
  <1>2. ChannelTypes
    BY DEF FrameInv
  <1>3. CASE ~ client_connected \/ (~ force_keyframe /\ screen = previous_frame)
    <2>1. /\ UNCHANGED <<previous_frame, force_keyframe, frames_since_keyframe, to_net>>
          /\ client_connected => screen = previous_frame
      BY <1>3 DEF Render, send_frame_to_network
    <2>2. ChannelTypes'
      BY <1>1, <1>2, <2>1 DEF ChannelTypes, network, client
    <2> QED
      BY <1>1, <2>1, <2>2
      DEF FrameInv, NoResync, QueueLinked, BaseIsSent, QueueFollows, GateClosed, StreamLinked, Sound,
          Tip, Upcoming, Awaited, client, network
  <1>4. CASE client_connected /\ ~ (~ force_keyframe /\ screen = previous_frame)
    <2> DEFINE key    == force_keyframe \/ frames_since_keyframe >= KeyframeInterval
               region == IF key \/ Damage = {} THEN Tiles ELSE Damage
               u      == Update(screen, region, key)
    <2>1. /\ to_net' = Append(to_net, u) /\ force_keyframe' = FALSE
          /\ frames_since_keyframe' = IF key THEN 0 ELSE frames_since_keyframe + 1
          /\ previous_frame' = screen
      BY <1>4 DEF Render, send_frame_to_network
    <2>2. /\ key \in BOOLEAN /\ region \in SUBSET Tiles /\ screen \in Frame
          /\ key => region = Tiles
      BY <1>2 DEF ChannelTypes, Damage
    <2>3. u \in TrueUpdate /\ u.checksum = screen
      BY <2>2, EncodedTyped
    <2>4. ASSUME NEW f \in Frame, ~ force_keyframe => f = rendered PROVE Follows(f, u)
      <3>1. region = Tiles \/ (region = Damage /\ f = rendered)
        BY <2>4
      <3>2. \A t \in Tiles \ region : f[t] = screen[t]
        BY <3>1 DEF Damage
      <3> QED
        BY <2>2, <2>4, <3>2, EncodedFollows
    <2>5. to_net # <<>> => Follows(to_net[Len(to_net)].checksum, u)
      <3> SUFFICES ASSUME to_net # <<>> PROVE Follows(to_net[Len(to_net)].checksum, u)
        OBVIOUS
      <3>1. to_net[Len(to_net)] \in TrueUpdate
        BY <1>2, EmptySeq, ElementOfSeq DEF ChannelTypes
      <3>2. to_net[Len(to_net)].checksum \in Frame
        BY <3>1 DEF TrueUpdate, UpdateType
      <3>3. ~ force_keyframe => to_net[Len(to_net)].checksum = rendered
        BY <1>4 DEF FrameInv, BaseIsSent
      <3> QED
        BY <2>4, <3>2, <3>3
    <2>6. Tip \in Frame
      <3>1. wire # <<>> => wire[Len(wire)] \in Chunk
        BY <1>2, EmptySeq, ElementOfSeq DEF ChannelTypes
      <3> QED
        BY <1>2, <3>1 DEF ChannelTypes, Tip, Chunk, TrueUpdate, UpdateType
    <2>7. (keyframe_seen /\ Sound /\ to_net = <<>>) => Follows(Tip, u)
      <3>1. (keyframe_seen /\ Sound /\ to_net = <<>> /\ ~ force_keyframe) => Tip = rendered
        BY <1>4 DEF FrameInv, BaseIsSent
      <3> QED
        BY <2>4, <2>6, <3>1
    <2>8. /\ to_net' \in Seq(TrueUpdate) /\ QueueLinked'
          /\ to_net' # <<>> /\ to_net'[Len(to_net')] = u
          /\ to_net'[1] = IF to_net = <<>> THEN u ELSE to_net[1]
      <3>1. QueueLinked
        BY DEF FrameInv
      <3> HIDE DEF u
      <3> QED
        BY <1>2, <2>1, <2>3, <2>5, <3>1, Enqueued
    <2>9. frames_since_keyframe' \in 0..KeyframeInterval
      BY <1>2, <2>1, FrameAssumption DEF ChannelTypes
    <2> HIDE DEF u
    <2>10. ChannelTypes'
      BY <1>1, <1>2, <2>1, <2>2, <2>8, <2>9 DEF ChannelTypes, network, client
    <2>11. Tip' = Tip /\ Sound' = Sound /\ keyframe_seen' = keyframe_seen
      BY <1>1 DEF Tip, Sound, network, client
    <2>12. BaseIsSent'
      BY <1>1, <2>1, <2>3, <2>8 DEF BaseIsSent
    <2>13. QueueFollows'
      <3> SUFFICES ASSUME keyframe_seen, Sound PROVE Follows(Tip, to_net'[1])
        BY <2>11 DEF QueueFollows
      <3>1. CASE to_net = <<>>
        BY <2>7, <2>8, <3>1
      <3>2. CASE to_net # <<>>
        BY <2>8, <3>2 DEF FrameInv, QueueFollows
      <3> QED
        BY <3>1, <3>2
    <2>14. NoResync' /\ GateClosed' /\ StreamLinked'
      BY <1>1 DEF FrameInv, NoResync, GateClosed, StreamLinked, Sound, Upcoming, Awaited, client, network
    <2> QED
      BY <2>8, <2>10, <2>12, <2>13, <2>14 DEF FrameInv
  <1> QED
    BY <1>3, <1>4

\* The compositor takes a message; after a new connection and after a request
\* for a keyframe the next update is one.
LEMMA EventInv == ASSUME FrameInv, HandleEvent PROVE FrameInv'
  <1>1. /\ to_comp # <<>> /\ to_comp' = Tail(to_comp)
        /\ UNCHANGED <<screen, to_net, network, wire, up, client>>
        /\ \/ Head(to_comp).msg = "connected" /\ HandleConnected
           \/ HandleDisconnected
           \/ HandleRequestKeyframe
    BY DEF HandleEvent
  <1>2. ChannelTypes
    BY DEF FrameInv
  <1>3. /\ to_comp \in Seq(Event) /\ Len(to_comp) \in Nat \ {0} /\ Head(to_comp) = to_comp[1]
        /\ to_comp' \in Seq(Event) /\ Len(to_comp') = Len(to_comp) - 1
        /\ \A k \in 1..Len(to_comp') : to_comp'[k] = to_comp[k + 1]
    BY <1>1, <1>2, HeadTailProperties, EmptySeq, LenProperties DEF ChannelTypes
  <1>4. /\ \A k \in 1..Len(to_comp') : to_comp'[k].msg = "connected" => to_comp'[k].conn \in 0..conn
        /\ Head(to_comp).msg = "connected" => Head(to_comp).conn \in 0..conn
    <2>1. \A k \in 1..Len(to_comp) : to_comp[k].msg = "connected" => to_comp[k].conn \in 0..conn
      BY <1>2 DEF ChannelTypes
    <2>2. \A k \in 1..Len(to_comp') : k + 1 \in 1..Len(to_comp)
      BY <1>3
    <2> QED
      BY <1>3, <2>1, <2>2
  <1>5. Blank \in Frame
    BY FrameAssumption DEF Blank, Frame
  <1>6. /\ answered' \in 0..conn /\ rendered' = rendered /\ previous_frame' \in {previous_frame, Blank}
        /\ frames_since_keyframe' = frames_since_keyframe
        /\ client_connected' \in BOOLEAN /\ force_keyframe' \in BOOLEAN
        /\ client_connected' = FALSE \/ force_keyframe' = TRUE
    BY <1>1, <1>2, <1>4 DEF HandleConnected, HandleDisconnected, HandleRequestKeyframe, ChannelTypes
  <1>7. ChannelTypes'
    BY <1>1, <1>2, <1>3, <1>4, <1>5, <1>6 DEF ChannelTypes, network, client
  <1>8. BaseIsSent'
    BY <1>6 DEF BaseIsSent
  <1> QED
    BY <1>1, <1>7, <1>8
    DEF FrameInv, NoResync, QueueLinked, QueueFollows, GateClosed, StreamLinked, Sound,
        Tip, Upcoming, Awaited, client, network

\* An update that the idle loop, or the gate, discards.
LEMMA Discarded ==
  ASSUME FrameInv, ~ keyframe_seen, to_net # <<>>, to_net' = Tail(to_net),
         UNCHANGED <<screen, compositor, to_comp, network, answered, wire, up, client>>
  PROVE  FrameInv'
  <1>1. ChannelTypes /\ QueueLinked
    BY DEF FrameInv
  <1>2. /\ to_net' \in Seq(TrueUpdate) /\ QueueLinked'
        /\ to_net' # <<>> => to_net'[Len(to_net')] = to_net[Len(to_net)]
    BY <1>1, Dequeued
  <1>3. ChannelTypes'
    BY <1>1, <1>2 DEF ChannelTypes, compositor, network, client
  <1>4. BaseIsSent'
    BY <1>2 DEF FrameInv, BaseIsSent, compositor, network
  <1>5. QueueFollows'
    BY DEF QueueFollows, network
  <1>6. NoResync' /\ GateClosed' /\ StreamLinked'
    BY DEF FrameInv, NoResync, GateClosed, StreamLinked, Sound, Upcoming, Awaited, client, network
  <1> QED
    BY <1>2, <1>3, <1>4, <1>5, <1>6 DEF FrameInv

\* The idle loop discards an update.
LEMMA DrainInv == ASSUME FrameInv, DrainIdle PROVE FrameInv'
  <1>1. ~ keyframe_seen
    BY DEF FrameInv, GateClosed, DrainIdle
  <1> QED
    BY <1>1, Discarded DEF DrainIdle

\* A connection is taken up or given up: the stream is empty, the gate closed
\* and the client's framebuffer black.
LEMMA FreshInv ==
  ASSUME FrameInv, FreshStreams, FreshClient, UNCHANGED <<screen, compositor, to_net, answered>>,
         pc' \in {"idle", "binding"}, conn' \in 0..MaxConns, conn <= conn',
         to_comp' \in Seq(Event),
         \A k \in 1..Len(to_comp') : to_comp'[k].msg = "connected" => to_comp'[k].conn \in 0..conn'
  PROVE  FrameInv'
  <1>1. ChannelTypes
    BY DEF FrameInv
  <1>2. Blank \in Frame
    BY FrameAssumption DEF Blank, Frame
  <1>3. wire' \in Seq(Chunk) /\ up' \in Seq({"keyframe", "ack", "input"}) /\ Len(wire') = 0
    BY EmptySeq DEF FreshStreams
  <1>4. answered' \in 0..conn'
    BY <1>1 DEF ChannelTypes
  <1>5. ChannelTypes'
    <2>1. got' \in 0..(Parts - 1) /\ Len(wire') <= Window
      BY <1>3, FrameAssumption DEF FreshClient
    <2>2. /\ writing' = Idle /\ keyframe_seen' = FALSE /\ lost' = FALSE /\ in_step' = TRUE
          /\ framebuffer' = Blank /\ keyframe_pending' = FALSE /\ painted' = FALSE
      BY DEF FreshStreams, FreshClient
    <2>3. UNCHANGED <<screen, rendered, previous_frame, force_keyframe, frames_since_keyframe,
                      client_connected, to_net>>
      BY DEF compositor
    <2> QED
      BY <1>1, <1>2, <1>3, <1>4, <2>1, <2>2, <2>3 DEF ChannelTypes
  <1>6. QueueLinked' /\ BaseIsSent' /\ QueueFollows' /\ GateClosed' /\ NoResync'
    BY DEF FrameInv, QueueLinked, BaseIsSent, QueueFollows, GateClosed, NoResync, FreshStreams, FreshClient,
           compositor
  <1>7. StreamLinked'
    BY <1>3 DEF StreamLinked, FreshStreams, FreshClient
  <1> QED
    BY <1>5, <1>6, <1>7 DEF FrameInv

\* A client is taken up.
LEMMA TakeInv == ASSUME FrameInv, TakeClient PROVE FrameInv'
  <1> DEFINE news == IF pc = "idle" THEN <<Connected>> ELSE <<Disconnected, Connected>>
  <1>1. /\ conn < MaxConns /\ pc' = "binding" /\ conn' = conn + 1 /\ to_comp' = to_comp \o news
        /\ FreshStreams /\ FreshClient /\ UNCHANGED <<screen, compositor, to_net, answered>>
    BY DEF TakeClient
  <1>2. /\ to_comp \in Seq(Event) /\ Len(to_comp) \in Nat /\ conn \in 0..MaxConns
        /\ \A k \in 1..Len(to_comp) : to_comp[k].msg = "connected" => to_comp[k].conn \in 0..conn
    BY LenProperties DEF FrameInv, ChannelTypes
  <1>3. conn' \in 0..MaxConns /\ conn <= conn' /\ conn + 1 \in 0..conn'
    BY <1>1, <1>2, FrameAssumption
  <1>4. /\ Connected \in Event /\ Connected.conn = conn + 1
        /\ Disconnected \in Event /\ Disconnected.msg # "connected"
    BY <1>2, FrameAssumption DEF Connected, Disconnected, Event
  <1>5. /\ news \in Seq(Event) /\ Len(news) \in 1..2
        /\ \A k \in 1..Len(news) : news[k] \in {Connected, Disconnected}
    BY <1>4
  <1> HIDE DEF news
  <1>6. /\ to_comp' \in Seq(Event) /\ Len(to_comp') = Len(to_comp) + Len(news)
        /\ \A k \in 1..(Len(to_comp) + Len(news)) :
             to_comp'[k] = IF k <= Len(to_comp) THEN to_comp[k] ELSE news[k - Len(to_comp)]
    BY <1>1, <1>2, <1>5, ConcatProperties
  <1>7. ASSUME NEW k \in 1..Len(to_comp'), to_comp'[k].msg = "connected"
        PROVE  to_comp'[k].conn \in 0..conn'
    <2>1. CASE k <= Len(to_comp)
      <3>1. to_comp[k].conn \in 0..conn
        BY <1>2, <1>6, <1>7, <2>1
      <3> QED
        BY <1>1, <1>2, <1>5, <1>6, <2>1, <3>1
    <2>2. CASE ~ (k <= Len(to_comp))
      <3>1. k - Len(to_comp) \in 1..Len(news)
        BY <1>2, <1>5, <1>6, <2>2
      <3>2. to_comp'[k] \in {Connected, Disconnected}
        BY <1>5, <1>6, <2>2, <3>1
      <3> QED
        BY <1>3, <1>4, <1>7, <3>2
    <2> QED
      BY <2>1, <2>2
  <1> QED
    BY <1>1, <1>3, <1>6, <1>7, FreshInv

\* serve_client returns.
LEMMA EndInv == ASSUME FrameInv, ServeEnds PROVE FrameInv'
  <1>1. /\ pc' = "idle" /\ to_comp' = Append(to_comp, Disconnected) /\ conn' = conn
        /\ FreshStreams /\ FreshClient /\ UNCHANGED <<screen, compositor, to_net, answered>>
    BY DEF ServeEnds
  <1>2. Disconnected \in Event /\ Disconnected.msg # "connected"
    BY DEF Disconnected, Event
  <1>3. ChannelTypes
    BY DEF FrameInv
  <1>4. conn' \in 0..MaxConns /\ conn <= conn'
    BY <1>1, <1>3, FrameAssumption DEF ChannelTypes
  <1>5. /\ to_comp' \in Seq(Event)
        /\ \A k \in 1..Len(to_comp') : to_comp'[k].msg = "connected" => to_comp'[k].conn \in 0..conn'
    BY <1>1, <1>2, <1>3, EventSent
  <1> QED
    BY <1>1, <1>4, <1>5, FreshInv

\* The network thread greets the client.
LEMMA GreetInv == ASSUME FrameInv, Greet PROVE FrameInv'
  <1>1. ChannelTypes'
    BY DEF FrameInv, ChannelTypes, Greet, compositor, client
  <1> QED
    BY <1>1, Unmoved DEF Greet, compositor

\* An update is relayed, or dropped at the gate.
LEMMA RelayInv == ASSUME FrameInv, RelayFrame PROVE FrameInv'
  <1> DEFINE u == Head(to_net)
  <1>1. /\ pc = "relaying" /\ writing = Idle /\ to_net # <<>> /\ to_net' = Tail(to_net)
        /\ keyframe_seen' = (keyframe_seen \/ u.key)
        /\ IF keyframe_seen' THEN Write(u, 1) ELSE UNCHANGED <<wire, writing>>
        /\ UNCHANGED <<screen, compositor, to_comp, pc, conn, lost, answered, up, client>>
    BY DEF RelayFrame
  <1>2. ChannelTypes /\ QueueLinked /\ keyframe_seen \in BOOLEAN
    BY DEF FrameInv, ChannelTypes
  <1>3. /\ u = to_net[1] /\ u \in TrueUpdate /\ u.key \in BOOLEAN
        /\ to_net' \in Seq(TrueUpdate) /\ QueueLinked'
        /\ to_net' # <<>> => /\ to_net'[Len(to_net')] = to_net[Len(to_net)]
                             /\ Follows(u.checksum, to_net'[1])
        /\ to_net' = <<>> => to_net[Len(to_net)] = u
    BY <1>1, <1>2, Dequeued DEF TrueUpdate, UpdateType
  <1> HIDE DEF u
  <1>4. CASE ~ keyframe_seen'
    <2>1. ~ keyframe_seen /\ keyframe_seen' = keyframe_seen
      BY <1>1, <1>2, <1>3, <1>4
    <2> QED
      BY <1>1, <1>4, <2>1, Discarded DEF network
  <1>5. CASE keyframe_seen'
    <2>1. Write(u, 1) /\ 1 \in 1..Parts /\ keyframe_seen' = TRUE /\ (keyframe_seen \/ u.key)
      BY <1>1, <1>2, <1>3, <1>5, FrameAssumption
    <2>2. \E fit \in 0..(Parts - 1 + 1) :
            /\ wire' \in Seq(Chunk) /\ Len(wire') <= Window
            /\ writing' = IF fit = Parts - 1 + 1 THEN Idle
                          ELSE [left |-> Parts - 1 - fit + 1, update |-> u]
      BY <1>2, <1>3, <2>1, Written
    <2>3. writing' = Idle \/ writing' \in [left : 1..Parts, update : TrueUpdate]
      BY <1>3, <2>2, FrameAssumption
    <2>4. ChannelTypes'
      BY <1>1, <1>2, <1>3, <2>1, <2>2, <2>3 DEF ChannelTypes, compositor, client
    <2>5. NoResync' /\ GateClosed'
      BY <1>1, <2>1 DEF FrameInv, NoResync, GateClosed, client
    <2>6. Sound => StreamLinked' /\ Tip' = u.checksum
      <3> SUFFICES ASSUME Sound PROVE StreamLinked' /\ Tip' = u.checksum
        OBVIOUS
      <3>1. /\ \A k \in 1..(Len(wire) - 1) : Succeeds(wire[k], wire[k + 1].update, wire[k + 1].part)
            /\ wire # <<>> => Awaited(wire[1].update, wire[1].part)
            /\ IF wire = <<>> THEN got = 0 /\ (painted \/ ~ keyframe_seen)
                              ELSE wire[Len(wire)].part = Parts
        BY <1>1 DEF FrameInv, StreamLinked
      <3>2. Follows(Tip, u)
        <4>1. CASE u.key
          BY <1>3, <4>1, KeyframeFollows
        <4>2. CASE keyframe_seen
          BY <1>1, <1>3, <4>2 DEF FrameInv, QueueFollows
        <4> QED
          BY <2>1, <4>1, <4>2
      <3>3. Upcoming(u, 1)
        <4>1. CASE wire = <<>>
          <5>1. Tip = framebuffer
            BY <1>1, <4>1 DEF Tip
          <5>2. ~ painted => u.key
            BY <2>1, <3>1, <4>1
          <5> QED
            BY <3>1, <3>2, <4>1, <5>1, <5>2 DEF Upcoming, Awaited
        <4>2. CASE wire # <<>>
          <5>1. Tip = wire[Len(wire)].update.checksum
            BY <1>1, <4>2 DEF Tip
          <5> QED
            BY <3>1, <3>2, <4>2, <5>1 DEF Upcoming, Succeeds
        <4> QED
          BY <4>1, <4>2
      <3>4. UNCHANGED <<got, framebuffer, painted>>
        BY <1>1 DEF client
      <3> QED
        BY <1>2, <1>3, <2>1, <3>1, <3>3, <3>4, WriteLinks
    <2>7. Sound' = Sound /\ UNCHANGED compositor
      BY <1>1 DEF Sound, client
    <2>8. StreamLinked'
      BY <2>6, <2>7 DEF StreamLinked
    <2>9. QueueFollows'
      BY <1>3, <2>6, <2>7 DEF QueueFollows
    <2>10. BaseIsSent'
      <3> SUFFICES ASSUME client_connected, ~ force_keyframe
                   PROVE  /\ rendered = previous_frame
                          /\ to_net' # <<>> => to_net'[Len(to_net')].checksum = previous_frame
                          /\ (to_net' = <<>> /\ Sound) => u.checksum = previous_frame
        BY <2>6, <2>7 DEF BaseIsSent, compositor
      <3>1. rendered = previous_frame /\ to_net[Len(to_net)].checksum = previous_frame
        BY <1>1 DEF FrameInv, BaseIsSent
      <3> QED
        BY <1>3, <3>1
    <2> QED
      BY <1>3, <2>4, <2>5, <2>8, <2>9, <2>10 DEF FrameInv
  <1> QED
    BY <1>4, <1>5

\* A pending write goes on.
LEMMA MoreInv == ASSUME FrameInv, WriteMore PROVE FrameInv'
  <1> DEFINE u == writing.update
             n == Parts - writing.left + 1
  <1>1. /\ writing # Idle /\ Write(u, n)
        /\ UNCHANGED <<screen, compositor, to_net, to_comp, pc, conn, keyframe_seen, lost, answered, up, client>>
    BY DEF WriteMore
  <1>2. ChannelTypes
    BY DEF FrameInv
  <1>3. u \in TrueUpdate /\ n \in 1..Parts
    BY <1>1, <1>2, FrameAssumption DEF ChannelTypes
  <1>4. Tip = u.checksum
    BY <1>1 DEF Tip
  <1>5. Sound => /\ \A k \in 1..(Len(wire) - 1) : Succeeds(wire[k], wire[k + 1].update, wire[k + 1].part)
                 /\ wire # <<>> => Awaited(wire[1].update, wire[1].part)
                 /\ Upcoming(u, n)
    BY <1>1 DEF FrameInv, StreamLinked
  <1> HIDE DEF u, n
  <1>6. /\ wire' \in Seq(Chunk) /\ Len(wire') <= Window
        /\ writing' = Idle \/ writing' \in [left : 1..Parts, update : TrueUpdate]
    <2>1. PICK fit \in 0..(Parts - n + 1) :
            /\ wire' \in Seq(Chunk) /\ Len(wire') <= Window
            /\ writing' = IF fit = Parts - n + 1 THEN Idle
                          ELSE [left |-> Parts - n - fit + 1, update |-> u]
      BY <1>1, <1>2, <1>3, Written
    <2> QED
      BY <1>3, <2>1, FrameAssumption
  <1>7. ChannelTypes'
    BY <1>1, <1>2, <1>6 DEF ChannelTypes, compositor, client
  <1>8. Sound => StreamLinked' /\ Tip' = Tip
    BY <1>1, <1>2, <1>3, <1>4, <1>5, WriteLinks DEF client
  <1>9. Sound' = Sound
    BY <1>1 DEF Sound, client
  <1>10. StreamLinked'
    BY <1>8, <1>9 DEF StreamLinked
  <1>11. QueueLinked' /\ QueueFollows' /\ BaseIsSent'
    BY <1>1, <1>8, <1>9 DEF FrameInv, QueueLinked, QueueFollows, BaseIsSent, compositor
  <1>12. NoResync' /\ GateClosed'
    BY <1>1 DEF FrameInv, NoResync, GateClosed, client
  <1> QED
    BY <1>7, <1>10, <1>11, <1>12 DEF FrameInv

\* A message of the client ends the select!: a pending write is lost.
LEMMA ControlInv == ASSUME FrameInv, RelayControl PROVE FrameInv'
  <1>1. /\ up # <<>> /\ up' = Tail(up) /\ writing' = Idle /\ lost' = (lost \/ writing # Idle)
        /\ \/ to_comp' = Append(to_comp, [msg |-> "keyframe"])
           \/ to_comp' = to_comp
        /\ UNCHANGED <<screen, compositor, to_net, pc, conn, keyframe_seen, answered, wire, client>>
    BY DEF RelayControl
  <1>2. ChannelTypes
    BY DEF FrameInv
  <1>3. up' \in Seq({"keyframe", "ack", "input"})
    BY <1>1, <1>2, HeadTailProperties DEF ChannelTypes
  <1>4. /\ to_comp' \in Seq(Event)
        /\ \A k \in 1..Len(to_comp') : to_comp'[k].msg = "connected" => to_comp'[k].conn \in 0..conn'
    <2>1. CASE to_comp' = Append(to_comp, [msg |-> "keyframe"])
      <3> DEFINE e == [msg |-> "keyframe"]
      <3>1. e \in Event /\ e.msg # "connected"
        BY DEF Event
      <3> QED
        BY <1>1, <1>2, <2>1, <3>1, EventSent
    <2>2. CASE to_comp' = to_comp
      BY <1>1, <1>2, <2>2 DEF ChannelTypes
    <2> QED
      BY <1>1, <2>1, <2>2
  <1>5. ChannelTypes'
    BY <1>1, <1>2, <1>3, <1>4 DEF ChannelTypes, compositor, client
  <1>6. CASE writing = Idle
    <2>1. lost' = lost /\ writing' = writing
      BY <1>1, <1>2, <1>6 DEF ChannelTypes
    <2> QED
      BY <1>1, <1>5, <2>1, Unmoved DEF compositor
  <1>7. CASE writing # Idle
    <2>1. lost' = TRUE
      BY <1>1, <1>7
    <2> QED
      BY <1>1, <1>5, <2>1
      DEF FrameInv, NoResync, QueueLinked, BaseIsSent, QueueFollows, GateClosed, StreamLinked, Sound,
          compositor, client
  <1> QED
    BY <1>6, <1>7

\* The client forwards the user's input.
LEMMA InputInv == ASSUME FrameInv, SendInput PROVE FrameInv'
  <1>1. /\ up' = Append(up, "input")
        /\ UNCHANGED <<screen, compositor, to_net, to_comp, network, answered, wire, client>>
    BY DEF SendInput
  <1>2. ChannelTypes
    BY DEF FrameInv
  <1>3. up' \in Seq({"keyframe", "ack", "input"})
    BY <1>1, <1>2, AppendProperties DEF ChannelTypes
  <1>4. ChannelTypes'
    BY <1>1, <1>2, <1>3 DEF ChannelTypes, compositor, network, client
  <1> QED
    BY <1>1, <1>4, Unmoved DEF compositor, network

\* The client gives up a read it has begun: what it reads next is not what it
\* then waits for.
LEMMA TimeoutInv == ASSUME FrameInv, ReadTimeout PROVE FrameInv'
  <1>1. /\ got > 0 /\ wire = <<>> /\ got' = 0
        /\ UNCHANGED <<screen, compositor, to_net, to_comp, network, answered, wire, up,
                       in_step, framebuffer, keyframe_pending, painted>>
    BY DEF ReadTimeout
  <1>2. ChannelTypes
    BY DEF FrameInv
  <1>3. ChannelTypes'
    <2>1. got' \in 0..(Parts - 1)
      BY <1>1, FrameAssumption
    <2> QED
      BY <1>1, <1>2, <2>1 DEF ChannelTypes, compositor, network
  <1>4. Sound' = Sound /\ Tip' = Tip
    BY <1>1 DEF Sound, Tip, network
  <1>5. StreamLinked'
    <2> SUFFICES ASSUME Sound PROVE StreamLinked'
      BY <1>4 DEF StreamLinked
    <2>1. writing # Idle /\ Awaited(writing.update, Parts - writing.left + 1)
      BY <1>1, <1>2 DEF FrameInv, StreamLinked, Upcoming, ChannelTypes
    <2>2. writing.left \in 1..Parts /\ Parts \in Nat \ {0} /\ got \in 0..(Parts - 1)
      BY <1>2, <2>1, FrameAssumption DEF ChannelTypes
    <2>3. Parts - writing.left + 1 # 1
      BY <1>1, <2>1, <2>2 DEF Awaited
    <2>4. Awaited(writing.update, Parts - writing.left + 1)'
      BY <1>1, <2>1, <2>3 DEF Awaited, network
    <2>5. writing' = writing /\ wire' = <<>> /\ Len(wire') = 0
      BY <1>1 DEF network
    <2> QED
      BY <2>1, <2>4, <2>5 DEF StreamLinked, Upcoming
  <1>6. QueueLinked' /\ QueueFollows' /\ BaseIsSent' /\ NoResync' /\ GateClosed'
    BY <1>1, <1>4 DEF FrameInv, QueueLinked, QueueFollows, BaseIsSent, NoResync, GateClosed, compositor, network
  <1> QED
    BY <1>3, <1>5, <1>6 DEF FrameInv

\* The client reads a chunk.  If it is the last of an update, the picture
\* becomes the one the update was made from.
LEMMA ReadInv == ASSUME FrameInv, ReadChunk PROVE FrameInv'
  <1> DEFINE c == Head(wire)
             u == c.update
  <1>1. /\ wire # <<>> /\ in_step /\ wire' = Tail(wire)
        /\ UNCHANGED <<screen, compositor, to_net, to_comp, network, answered>>
    BY DEF ReadChunk
  <1>2. ChannelTypes
    BY DEF FrameInv
  <1>3. /\ wire \in Seq(Chunk) /\ Len(wire) \in Nat \ {0} /\ c = wire[1] /\ c \in Chunk
        /\ u \in TrueUpdate /\ c.part \in 1..Parts
    <2>1. /\ wire \in Seq(Chunk) /\ Len(wire) \in Nat \ {0} /\ c = wire[1] /\ c \in Chunk
      BY <1>1, <1>2, EmptySeq, LenProperties DEF ChannelTypes
    <2> QED
      BY <2>1 DEF Chunk
  <1>4. /\ wire' \in Seq(Chunk) /\ Len(wire') = Len(wire) - 1 /\ Len(wire') <= Window
        /\ \A k \in 1..Len(wire') : wire'[k] = wire[k + 1]
        /\ wire' = <<>> <=> Len(wire) = 1
        /\ wire' # <<>> => wire'[Len(wire')] = wire[Len(wire)] /\ wire'[1] = wire[2]
    <2>1. /\ wire' \in Seq(Chunk) /\ Len(wire') = Len(wire) - 1
          /\ \A k \in 1..Len(wire') : wire'[k] = wire[k + 1]
      BY <1>1, <1>3, HeadTailProperties
    <2>2. wire' = <<>> <=> Len(wire') = 0
      BY <2>1, EmptySeq
    <2>3. wire' # <<>> => /\ Len(wire') \in 1..Len(wire') /\ Len(wire') + 1 = Len(wire)
                          /\ 1 \in 1..Len(wire')
      BY <1>3, <2>1, <2>2
    <2>4. Len(wire') <= Window
      BY <1>2, <1>3, <2>1, FrameAssumption DEF ChannelTypes
    <2> QED
      BY <1>3, <2>1, <2>2, <2>3, <2>4
  <1>5. UNCHANGED <<writing, lost, keyframe_seen, pc, conn>> /\ got \in 0..(Parts - 1) /\ Parts \in Nat \ {0}
    BY <1>1, <1>2, FrameAssumption DEF network, ChannelTypes
  <1>6. ASSUME Sound
        PROVE  /\ \A k \in 1..(Len(wire') - 1) : Succeeds(wire'[k], wire'[k + 1].update, wire'[k + 1].part)
               /\ Awaited(u, c.part)
               /\ wire' # <<>> => Succeeds(c, wire'[1].update, wire'[1].part) /\ wire'[1].part \in 1..Parts
               /\ (wire' = <<>> /\ writing # Idle) =>
                    /\ Succeeds(c, writing.update, Parts - writing.left + 1)
                    /\ Parts - writing.left + 1 \in 1..Parts
               /\ (wire' # <<>> /\ writing # Idle) =>
                    Succeeds(wire'[Len(wire')], writing.update, Parts - writing.left + 1)
               /\ writing = Idle => IF wire' = <<>> THEN c.part = Parts ELSE wire'[Len(wire')].part = Parts
    <2>1. /\ \A k \in 1..(Len(wire) - 1) : Succeeds(wire[k], wire[k + 1].update, wire[k + 1].part)
          /\ Awaited(wire[1].update, wire[1].part)
          /\ writing # Idle => Succeeds(wire[Len(wire)], writing.update, Parts - writing.left + 1)
          /\ writing = Idle => wire[Len(wire)].part = Parts
      BY <1>1, <1>6 DEF FrameInv, StreamLinked, Upcoming
    <2>2. ASSUME NEW k \in 1..(Len(wire') - 1)
          PROVE  Succeeds(wire'[k], wire'[k + 1].update, wire'[k + 1].part)
      <3>1. k \in 1..Len(wire') /\ k + 1 \in 1..Len(wire') /\ k + 1 \in 1..(Len(wire) - 1)
        BY <1>3, <1>4
      <3>2. Succeeds(wire[k + 1], wire[(k + 1) + 1].update, wire[(k + 1) + 1].part)
        BY <2>1, <3>1
      <3> QED
        BY <1>4, <3>1, <3>2
    <2>3. wire' # <<>> => Succeeds(c, wire'[1].update, wire'[1].part) /\ wire'[1].part \in 1..Parts
      <3> SUFFICES ASSUME wire' # <<>>
                   PROVE  Succeeds(c, wire'[1].update, wire'[1].part) /\ wire'[1].part \in 1..Parts
        OBVIOUS
      <3>1. 1 \in 1..(Len(wire) - 1) /\ 1 \in 1..Len(wire')
        BY <1>3, <1>4
      <3>2. Succeeds(wire[1], wire[1 + 1].update, wire[1 + 1].part)
        BY <2>1, <3>1
      <3>3. wire'[1] \in Chunk
        BY <1>4, <3>1, ElementOfSeq
      <3> QED
        BY <1>3, <1>4, <3>2, <3>3 DEF Chunk
    <2>4. writing # Idle => Parts - writing.left + 1 \in 1..Parts
      BY <1>2, <1>5 DEF ChannelTypes
    <2> QED
      BY <1>3, <1>4, <2>1, <2>2, <2>3, <2>4
  <1>7. CASE c.part = got + 1 /\ c.part = Parts
    <2> DEFINE now == apply_region(framebuffer, u.pixels)
    <2>1. got' = 0 /\ in_step' = in_step /\ ApplyUpdate(u)
      <3>1. ~ (c.part < Parts)
        BY <1>5, <1>7
      <3> QED
        BY <1>7, <3>1, Zenon DEF ReadChunk
    <2>2. /\ framebuffer' = now /\ painted' = TRUE
          /\ keyframe_pending' = (now # u.checksum)
          /\ \/ up' = up \o <<"keyframe", "ack">>
             \/ up' = up \o <<"ack">>
      BY <2>1 DEF ApplyUpdate
    <2>3. now \in Frame /\ framebuffer \in Frame
      BY <1>2, <1>3, AppliedIsFrame DEF ChannelTypes
    <2>4. Sound => now = u.checksum
      BY <1>6, <1>7 DEF Awaited, Follows
    <2> HIDE DEF now
    <2>5. up' \in Seq({"keyframe", "ack", "input"})
      <3> DEFINE M == {"keyframe", "ack", "input"}
      <3>1. up \in Seq(M) /\ <<"keyframe", "ack">> \in Seq(M) /\ <<"ack">> \in Seq(M)
        BY <1>2 DEF ChannelTypes
      <3> HIDE DEF M
      <3>2. up' \in Seq(M)
        BY <2>2, <3>1, ConcatProperties
      <3> QED
        BY <3>2 DEF M
    <2>6. ChannelTypes'
      <3>1. got' \in 0..(Parts - 1)
        BY <1>5, <2>1
      <3> QED
        BY <1>1, <1>2, <1>4, <2>1, <2>2, <2>3, <2>5, <3>1 DEF ChannelTypes, compositor, network
    <2>7. Sound' = Sound
      BY <1>5, <2>1 DEF Sound
    <2>8. NoResync' /\ GateClosed' /\ QueueLinked'
      <3>1. keyframe_seen
        BY <1>1 DEF FrameInv, GateClosed
      <3>2. keyframe_pending' => lost
        BY <1>1, <1>2, <2>2, <2>4 DEF Sound
      <3> QED
        BY <1>1, <1>5, <3>1, <3>2 DEF FrameInv, NoResync, GateClosed, QueueLinked
    <2>9. Sound => Tip' = Tip
      <3>1. CASE writing # Idle
        BY <1>5, <3>1 DEF Tip
      <3>2. CASE writing = Idle /\ wire' # <<>>
        BY <1>1, <1>4, <1>5, <3>2 DEF Tip
      <3>3. CASE writing = Idle /\ wire' = <<>>
        BY <1>1, <1>3, <1>4, <1>5, <2>2, <2>4, <3>3 DEF Tip
      <3> QED
        BY <3>1, <3>2, <3>3
    <2>10. QueueFollows' /\ BaseIsSent'
      BY <1>1, <1>5, <2>7, <2>9 DEF FrameInv, QueueFollows, BaseIsSent, compositor
    <2>11. StreamLinked'
      <3> SUFFICES ASSUME Sound PROVE StreamLinked'
        BY <2>7 DEF StreamLinked
      <3>1. ASSUME NEW v, NEW n \in 1..Parts, Succeeds(c, v, n)
            PROVE  n = 1 /\ Follows(framebuffer', v)
        BY <1>5, <1>7, <2>2, <2>4, <3>1 DEF Succeeds
      <3>2. wire' # <<>> => Awaited(wire[1].update, wire[1].part)'
        BY <1>6, <2>1, <2>2, <3>1 DEF Awaited
      <3>3. writing' # Idle => Upcoming(writing.update, Parts - writing.left + 1)'
        <4>1. CASE wire' = <<>>
          BY <1>5, <1>6, <2>1, <2>2, <3>1, <4>1 DEF Upcoming, Awaited
        <4>2. CASE wire' # <<>>
          BY <1>5, <1>6, <4>2 DEF Upcoming
        <4> QED
          BY <4>1, <4>2
      <3> QED
        BY <1>5, <1>6, <2>1, <2>2, <3>2, <3>3 DEF StreamLinked
    <2> QED
      BY <2>6, <2>8, <2>10, <2>11 DEF FrameInv
  <1>8. CASE c.part = got + 1 /\ c.part < Parts
    <2>1. got' = got + 1 /\ UNCHANGED <<in_step, framebuffer, painted, keyframe_pending, up>>
      <3>1. c.part # Parts
        BY <1>5, <1>8
      <3> QED
        BY <1>8, <3>1, Zenon DEF ReadChunk
    <2>2. ChannelTypes'
      <3>1. got' \in 0..(Parts - 1)
        BY <1>5, <1>8, <2>1
      <3> QED
        BY <1>1, <1>2, <1>4, <2>1, <3>1 DEF ChannelTypes, compositor, network
    <2>3. Sound' = Sound
      BY <1>5, <2>1 DEF Sound
    <2>4. NoResync' /\ GateClosed' /\ QueueLinked'
      <3>1. keyframe_seen
        BY <1>1 DEF FrameInv, GateClosed
      <3> QED
        BY <1>1, <1>5, <2>1, <3>1 DEF FrameInv, NoResync, GateClosed, QueueLinked
    <2>5. Sound => (wire' = <<>> => writing # Idle)
      BY <1>5, <1>6, <1>8
    <2>6. Sound => Tip' = Tip
      <3>1. CASE writing # Idle
        BY <1>5, <3>1 DEF Tip
      <3>2. CASE writing = Idle /\ wire' # <<>>
        BY <1>1, <1>4, <1>5, <3>2 DEF Tip
      <3> QED
        BY <2>5, <3>1, <3>2
    <2>7. QueueFollows' /\ BaseIsSent'
      BY <1>1, <1>5, <2>3, <2>6 DEF FrameInv, QueueFollows, BaseIsSent, compositor
    <2>8. StreamLinked'
      <3> SUFFICES ASSUME Sound PROVE StreamLinked'
        BY <2>3 DEF StreamLinked
      <3>1. ASSUME NEW v, NEW n \in 1..Parts, Succeeds(c, v, n)
            PROVE  n = got' + 1 /\ v = u
        BY <1>5, <1>8, <2>1, <3>1 DEF Succeeds
      <3>2. Follows(framebuffer, u) /\ (~ painted => u.key)
        BY <1>6, <1>8 DEF Awaited
      <3>3. wire' # <<>> => Awaited(wire[1].update, wire[1].part)'
        BY <1>6, <2>1, <3>1, <3>2 DEF Awaited
      <3>4. writing' # Idle => Upcoming(writing.update, Parts - writing.left + 1)'
        <4>1. CASE wire' = <<>>
          BY <1>5, <1>6, <2>1, <3>1, <3>2, <4>1 DEF Upcoming, Awaited
        <4>2. CASE wire' # <<>>
          BY <1>5, <1>6, <4>2 DEF Upcoming
        <4> QED
          BY <4>1, <4>2
      <3> QED
        BY <1>5, <1>6, <2>5, <3>3, <3>4 DEF StreamLinked
    <2> QED
      BY <2>2, <2>4, <2>7, <2>8 DEF FrameInv
  <1>9. CASE c.part # got + 1
    <2>1. in_step' = FALSE /\ UNCHANGED <<got, framebuffer, painted, keyframe_pending, up>>
      BY <1>9 DEF ReadChunk
    <2>2. ChannelTypes'
      BY <1>1, <1>2, <1>4, <2>1 DEF ChannelTypes, compositor, network
    <2>3. keyframe_seen
      BY <1>1 DEF FrameInv, GateClosed
    <2> QED
      BY <1>1, <1>5, <2>1, <2>2, <2>3
      DEF FrameInv, NoResync, QueueLinked, BaseIsSent, QueueFollows, GateClosed, StreamLinked, Sound, compositor
  <1> QED
    BY <1>3, <1>5, <1>7, <1>8, <1>9

-----------------------------------------------------------------------------
(***************************************************************************)
(* The theorems.                                                           *)
(***************************************************************************)

\* Every step keeps the invariant.
LEMMA FrameStep == ASSUME FrameInv, [FrameNext]_frameVars PROVE FrameInv'
  <1>1. CASE UNCHANGED frameVars
    <2>1. ChannelTypes'
      BY <1>1 DEF FrameInv, ChannelTypes, frameVars, compositor, network, client
    <2> QED
      BY <1>1, <2>1, Unmoved DEF frameVars, compositor, network
  <1> QED
    BY <1>1, DrawInv, RenderInv, EventInv, DrainInv, TakeInv, GreetInv, EndInv, RelayInv, MoreInv,
       ControlInv, ReadInv, TimeoutInv, InputInv
    DEF FrameNext

\* Nobody is connected and nothing is under way.
LEMMA FrameStart == ASSUME FrameInit PROVE FrameInv
  <1>1. Blank \in Frame
    BY FrameAssumption DEF Blank, Frame
  <1>2. /\ to_net \in Seq(TrueUpdate) /\ wire \in Seq(Chunk) /\ to_comp \in Seq(Event)
        /\ up \in Seq({"keyframe", "ack", "input"})
        /\ Len(to_net) = 0 /\ Len(wire) = 0 /\ Len(to_comp) = 0
    BY EmptySeq DEF FrameInit
  <1>3. 0 \in 0..KeyframeInterval /\ 0 \in 0..MaxConns /\ 0 \in 0..0 /\ 0 \in 0..(Parts - 1) /\ 0 <= Window
    BY FrameAssumption
  <1>4. ChannelTypes
    <2>1. /\ screen \in Frame /\ rendered \in Frame /\ previous_frame \in Frame /\ framebuffer \in Frame
          /\ frames_since_keyframe \in 0..KeyframeInterval
          /\ conn \in 0..MaxConns /\ answered \in 0..conn /\ got \in 0..(Parts - 1) /\ Len(wire) <= Window
      BY <1>1, <1>2, <1>3 DEF FrameInit
    <2>2. \A k \in 1..Len(to_comp) : to_comp[k].msg = "connected" => to_comp[k].conn \in 0..conn
      BY <1>2
    <2> QED
      BY <1>2, <2>1, <2>2 DEF ChannelTypes, FrameInit
  <1>5. NoResync /\ QueueLinked /\ BaseIsSent /\ QueueFollows /\ GateClosed
    BY <1>2 DEF FrameInit, NoResync, QueueLinked, BaseIsSent, QueueFollows, GateClosed
  <1>6. StreamLinked
    BY <1>2 DEF StreamLinked, FrameInit
  <1> QED
    BY <1>4, <1>5, <1>6 DEF FrameInv

\* Whatever the interleaving of compositor, network thread and client, every
\* update follows from the picture its predecessor leaves.
THEOREM FrameInvariant == FrameSpec => []FrameInv
  <1>1. FrameInit => FrameInv
    BY FrameStart
  <1>2. FrameInv /\ [FrameNext]_frameVars => FrameInv'
    BY FrameStep
  <1> QED
    BY <1>1, <1>2, PTL DEF FrameSpec

\* The display path keeps its types: in particular a promoted keyframe carries
\* every tile (send_frame_to_network), the stream never exceeds its window, and
\* the compositor answers no connection that has not been made.
THEOREM FrameTypes == FrameSpec => []FrameTypeOK
  <1>1. ASSUME FrameInv PROVE FrameTypeOK
    <2>1. ChannelTypes
      BY <1>1 DEF FrameInv
    <2>2. /\ \A k \in DOMAIN to_net : to_net[k] \in UpdateType
          /\ \A k \in DOMAIN wire : wire[k].part \in 1..Parts /\ wire[k].update \in UpdateType
      <3>1. /\ to_net \in Seq(TrueUpdate) /\ DOMAIN to_net = 1..Len(to_net)
            /\ wire \in Seq(Chunk) /\ DOMAIN wire = 1..Len(wire)
        BY <2>1, LenProperties DEF ChannelTypes
      <3>2. \A k \in DOMAIN to_net : to_net[k] \in TrueUpdate
        BY <3>1, ElementOfSeq
      <3>3. \A k \in DOMAIN wire : wire[k] \in Chunk
        BY <3>1, ElementOfSeq
      <3>4. \A k \in DOMAIN wire : wire[k].part \in 1..Parts /\ wire[k].update \in TrueUpdate
        BY <3>3 DEF Chunk
      <3> QED
        BY <3>2, <3>4 DEF TrueUpdate
    <2> QED
      BY <2>1, <2>2 DEF ChannelTypes, FrameTypeOK
  <1> QED
    BY <1>1, FrameInvariant, PTL

\* The keyframe_seen gate: the first update a client reads is a keyframe,
\* whatever frames of earlier connections the channel still holds.
THEOREM FirstUpdateIsKeyframe == FrameSpec => []FirstIsKeyframe
  <1>1. ASSUME FrameInv PROVE FirstIsKeyframe
    <2> SUFFICES ASSUME ~ painted, wire # <<>>, ~ lost, in_step PROVE Head(wire).update.key
      BY DEF FirstIsKeyframe
    <2>1. Awaited(wire[1].update, wire[1].part)
      BY <1>1 DEF FrameInv, StreamLinked, Sound
    <2>2. Head(wire) = wire[1]
      BY <1>1, EmptySeq DEF FrameInv, ChannelTypes
    <2> QED
      BY <2>1, <2>2 DEF Awaited
  <1> QED
    BY <1>1, FrameInvariant, PTL

-----------------------------------------------------------------------------
(***************************************************************************)
(* Nothing is missed: from the moment a client is announced there is a     *)
(* keyframe to come for it, until one has passed the gate.                 *)
(***************************************************************************)

\* A keyframe has passed, or one is made of the next frame, or is in the channel.
KeyframeComes == keyframe_seen \/ force_keyframe \/ \E k \in 1..Len(to_net) : to_net[k].key

\* The compositor is still to hear of the client being served; of the messages
\* before the announcement none is about this connection, and those behind it
\* ask for keyframes.
Announces(events, c, k) ==
  /\ events[k].msg = "connected" /\ events[k].conn = c
  /\ \A j \in 1..Len(events) : /\ j > k => events[j].msg = "keyframe"
                               /\ j < k /\ events[j].msg = "connected" => events[j].conn < c

ToBeAnnounced == answered < conn /\ \E k \in 1..Len(to_comp) : Announces(to_comp, conn, k)

Serves ==
  /\ client_connected /\ KeyframeComes
  /\ \A j \in 1..Len(to_comp) : to_comp[j].msg = "keyframe"

KeyframeDue == /\ pc = "binding" => ToBeAnnounced \/ Serves
               /\ pc = "relaying" => Serves

\* A step that says nothing to the compositor.
LEMMA DueKept ==
  ASSUME KeyframeDue, UNCHANGED <<pc, conn, answered, client_connected, to_comp>>,
         pc # "idle" /\ KeyframeComes => KeyframeComes'
  PROVE  KeyframeDue'
  <1>1. ToBeAnnounced' <=> ToBeAnnounced
    BY DEF ToBeAnnounced
  <1>2. pc # "idle" /\ Serves => Serves'
    BY DEF Serves
  <1> QED
    BY <1>1, <1>2 DEF KeyframeDue

\* A frame is rendered: a forced one is a keyframe.
LEMMA RenderDue == ASSUME FrameInv, KeyframeDue, Render PROVE KeyframeDue'
  <1>1. UNCHANGED <<pc, conn, keyframe_seen, answered, client_connected, to_comp>>
    BY DEF Render, network
  <1>2. to_net \in Seq(TrueUpdate) /\ Len(to_net) \in Nat
    BY LenProperties DEF FrameInv, ChannelTypes
  <1>3. CASE UNCHANGED <<force_keyframe, to_net>>
    BY <1>1, <1>3, DueKept DEF KeyframeComes
  <1>4. CASE ~ UNCHANGED <<force_keyframe, to_net>>
    <2>1. PICK u : to_net' = Append(to_net, u) /\ (force_keyframe => u.key)
      <3> DEFINE key    == force_keyframe \/ frames_since_keyframe >= KeyframeInterval
                 region == IF key \/ Damage = {} THEN Tiles ELSE Damage
      <3>1. to_net' = Append(to_net, Update(screen, region, key))
        BY <1>4, Zenon DEF Render, send_frame_to_network
      <3>2. force_keyframe => Update(screen, region, key).key
        BY DEF Update
      <3> HIDE DEF key, region
      <3> QED
        BY <3>1, <3>2
    <2>2. \/ keyframe_seen
          \/ \E k \in 1..Len(to_net) : to_net[k].key
          \/ force_keyframe /\ u.key
          \/ ~ KeyframeComes
      BY <2>1 DEF KeyframeComes
    <2>3. /\ Len(to_net') = Len(to_net) + 1 /\ to_net'[Len(to_net) + 1] = u
          /\ \A k \in 1..Len(to_net) : to_net'[k] = to_net[k]
      BY <1>2, <2>1
    <2>4. KeyframeComes => KeyframeComes'
      BY <1>1, <1>2, <2>2, <2>3 DEF KeyframeComes
    <2> QED
      BY <1>1, <2>4, DueKept
  <1> QED
    BY <1>3, <1>4

\* The compositor hears of a connection, or of its end, or is asked for a
\* keyframe.
LEMMA EventDue == ASSUME FrameInv, KeyframeDue, HandleEvent PROVE KeyframeDue'
  <1>1. /\ to_comp # <<>> /\ to_comp' = Tail(to_comp)
        /\ UNCHANGED <<pc, conn, keyframe_seen, to_net>>
        /\ Head(to_comp).msg \in {"connected", "disconnected", "keyframe"}
        /\ Head(to_comp).msg = "connected" =>
             client_connected' = TRUE /\ force_keyframe' = TRUE /\ answered' = Head(to_comp).conn
        /\ Head(to_comp).msg = "disconnected" => answered' = answered
        /\ Head(to_comp).msg = "keyframe" =>
             force_keyframe' = TRUE /\ client_connected' = client_connected /\ answered' = answered
    BY DEF HandleEvent, HandleConnected, HandleDisconnected, HandleRequestKeyframe, network
  <1>2. /\ to_comp \in Seq(Event) /\ Len(to_comp) \in Nat \ {0} /\ Head(to_comp) = to_comp[1]
        /\ to_comp' \in Seq(Event) /\ Len(to_comp') = Len(to_comp) - 1
        /\ \A k \in 1..Len(to_comp') : to_comp'[k] = to_comp[k + 1]
        /\ \A k \in 1..Len(to_comp) : to_comp[k].msg = "connected" => to_comp[k].conn \in Nat
        /\ conn \in Nat /\ answered \in Nat
    BY <1>1, HeadTailProperties, EmptySeq, LenProperties, FrameAssumption DEF FrameInv, ChannelTypes
  <1>3. CASE Serves /\ Head(to_comp).msg = "keyframe"
    <2>1. \A j \in 1..Len(to_comp') : to_comp'[j].msg = "keyframe"
      BY <1>2, <1>3 DEF Serves
    <2>2. Serves'
      BY <1>1, <1>3, <2>1 DEF Serves, KeyframeComes
    <2> QED
      BY <2>2 DEF KeyframeDue
  <1>4. CASE pc = "binding" /\ ToBeAnnounced
    <2>1. PICK k \in 1..Len(to_comp) : Announces(to_comp, conn, k)
      BY <1>4 DEF ToBeAnnounced
    <2>2. CASE k = 1
      <3>1. \A j \in 1..Len(to_comp') : to_comp'[j].msg = "keyframe"
        BY <1>2, <2>1, <2>2 DEF Announces
      <3>2. Serves'
        BY <1>1, <1>2, <2>1, <2>2, <3>1 DEF Announces, Serves, KeyframeComes
      <3> QED
        BY <1>1, <1>4, <3>2 DEF KeyframeDue
    <2>3. CASE k # 1
      <3>1. k - 1 \in 1..Len(to_comp') /\ to_comp'[k - 1] = to_comp[k]
        BY <1>2, <2>3
      <3>2. \A j \in 1..Len(to_comp') : j + 1 \in 1..Len(to_comp) /\ to_comp'[j] = to_comp[j + 1]
        BY <1>2
      <3>3. ASSUME NEW j \in 1..Len(to_comp')
            PROVE  /\ j > k - 1 => to_comp'[j].msg = "keyframe"
                   /\ j < k - 1 /\ to_comp'[j].msg = "connected" => to_comp'[j].conn < conn
        BY <2>1, <3>2 DEF Announces
      <3>4. Announces(to_comp', conn', k - 1)
        BY <1>1, <2>1, <3>1, <3>3 DEF Announces
      <3>5. answered' < conn
        <4>1. 1 \in 1..Len(to_comp) /\ 1 < k
          BY <1>2, <2>3
        <4>2. Head(to_comp).msg = "connected" => Head(to_comp).conn < conn
          BY <1>2, <2>1, <4>1 DEF Announces
        <4> QED
          BY <1>1, <1>4, <4>2 DEF ToBeAnnounced
      <3>6. ToBeAnnounced'
        BY <1>1, <3>1, <3>4, <3>5 DEF ToBeAnnounced
      <3> QED
        BY <1>1, <1>4, <3>6 DEF KeyframeDue
    <2> QED
      BY <2>2, <2>3
  <1>5. CASE pc = "idle"
    BY <1>1, <1>5 DEF KeyframeDue
  <1>6. Serves => Head(to_comp).msg = "keyframe"
    BY <1>2 DEF Serves
  <1> QED
    BY <1>3, <1>4, <1>5, <1>6 DEF KeyframeDue, FrameInv, ChannelTypes

\* A client is taken up: it is the last that the compositor hears of.
LEMMA TakeDue == ASSUME FrameInv, TakeClient PROVE KeyframeDue'
  <1> DEFINE first == IF pc = "idle" THEN to_comp ELSE Append(to_comp, Disconnected)
  <1>1. /\ pc' = "binding" /\ conn' = conn + 1 /\ answered' = answered
        /\ conn \in Nat /\ answered \in 0..conn
        /\ to_comp \in Seq(Event) /\ Len(to_comp) \in Nat
        /\ \A k \in 1..Len(to_comp) : to_comp[k].msg = "connected" => to_comp[k].conn \in 0..conn
    BY LenProperties, FrameAssumption DEF TakeClient, FrameInv, ChannelTypes
  <1>2. /\ Connected \in Event /\ Connected.msg = "connected" /\ Connected.conn = conn + 1
        /\ Disconnected \in Event /\ Disconnected.msg = "disconnected"
    BY <1>1 DEF Connected, Disconnected, Event
  <1>3. to_comp' = Append(first, Connected)
    <2>1. to_comp' = to_comp \o IF pc = "idle" THEN <<Connected>> ELSE <<Disconnected, Connected>>
      BY DEF TakeClient
    <2> QED
      BY <1>1, <1>2, <2>1
  <1>4. /\ first \in Seq(Event) /\ Len(first) \in Nat
        /\ \A k \in 1..Len(first) : first[k].msg = "connected" => first[k].conn \in 0..conn
    <2>1. CASE pc = "idle"
      BY <1>1, <2>1
    <2>2. CASE pc # "idle"
      <3>1. /\ first \in Seq(Event) /\ Len(first) = Len(to_comp) + 1
            /\ first[Len(to_comp) + 1] = Disconnected
            /\ \A k \in 1..Len(to_comp) : first[k] = to_comp[k]
        BY <1>1, <1>2, <2>2, AppendProperties
      <3> HIDE DEF first
      <3>2. ASSUME NEW k \in 1..Len(first), first[k].msg = "connected" PROVE first[k].conn \in 0..conn
        <4>1. k \in 1..Len(to_comp)
          BY <1>1, <1>2, <3>1, <3>2
        <4> QED
          BY <1>1, <3>1, <3>2, <4>1
      <3> QED
        BY <1>1, <3>1, <3>2
    <2> QED
      BY <2>1, <2>2
  <1> HIDE DEF first
  <1>5. /\ Len(to_comp') = Len(first) + 1 /\ to_comp'[Len(first) + 1] = Connected
        /\ \A k \in 1..Len(first) : to_comp'[k] = first[k]
    BY <1>2, <1>3, <1>4, AppendProperties
  <1>6. ASSUME NEW j \in 1..Len(to_comp')
        PROVE  /\ ~ (j > Len(first) + 1)
               /\ j < Len(first) + 1 /\ to_comp'[j].msg = "connected" => to_comp'[j].conn < conn + 1
    BY <1>1, <1>4, <1>5
  <1>7. Announces(to_comp', conn', Len(first) + 1)
    BY <1>1, <1>2, <1>5, <1>6 DEF Announces
  <1>8. ToBeAnnounced'
    BY <1>1, <1>4, <1>5, <1>7 DEF ToBeAnnounced
  <1> QED
    BY <1>1, <1>8 DEF KeyframeDue

\* The binding arrived: the compositor knows the connection.
LEMMA GreetDue == ASSUME FrameInv, KeyframeDue, Greet PROVE KeyframeDue'
  <1>1. /\ pc = "binding" /\ answered = conn /\ pc' = "relaying"
        /\ UNCHANGED <<client_connected, force_keyframe, keyframe_seen, to_net, to_comp>>
    BY DEF Greet, compositor
  <1>2. ~ ToBeAnnounced
    BY <1>1, FrameAssumption DEF ToBeAnnounced, FrameInv, ChannelTypes
  <1>3. Serves'
    BY <1>1, <1>2 DEF KeyframeDue, Serves, KeyframeComes
  <1> QED
    BY <1>1, <1>3 DEF KeyframeDue

\* A control message is passed on, or not: it can only ask for a keyframe.
LEMMA ControlDue == ASSUME FrameInv, KeyframeDue, RelayControl PROVE KeyframeDue'
  <1> DEFINE wish == [msg |-> "keyframe"]
  <1>1. /\ pc = "relaying" /\ pc' = pc
        /\ UNCHANGED <<client_connected, force_keyframe, keyframe_seen, to_net>>
        /\ to_comp' = Append(to_comp, wish) \/ to_comp' = to_comp
    BY DEF RelayControl, compositor
  <1>2. to_comp \in Seq(Event) /\ Len(to_comp) \in Nat /\ wish \in Event /\ wish.msg = "keyframe"
    BY LenProperties DEF FrameInv, ChannelTypes, Event
  <1> HIDE DEF wish
  <1>3. Serves
    BY <1>1 DEF KeyframeDue
  <1>4. \A j \in 1..Len(to_comp') : to_comp'[j].msg = "keyframe"
    <2>1. CASE to_comp' = to_comp
      BY <1>3, <2>1 DEF Serves
    <2>2. CASE to_comp' = Append(to_comp, wish)
      <3>1. /\ Len(to_comp') = Len(to_comp) + 1 /\ to_comp'[Len(to_comp) + 1] = wish
            /\ \A j \in 1..Len(to_comp) : to_comp'[j] = to_comp[j]
        BY <1>2, <2>2, AppendProperties
      <3> QED
        BY <1>2, <1>3, <3>1 DEF Serves
    <2> QED
      BY <1>1, <2>1, <2>2
  <1>5. Serves'
    BY <1>1, <1>3, <1>4 DEF Serves, KeyframeComes
  <1> QED
    BY <1>1, <1>5 DEF KeyframeDue

\* A frame leaves the channel: a keyframe opens the gate.
LEMMA RelayDue == ASSUME FrameInv, KeyframeDue, RelayFrame PROVE KeyframeDue'
  <1>1. /\ UNCHANGED <<pc, conn, answered, client_connected, force_keyframe, to_comp>>
        /\ to_net # <<>> /\ to_net' = Tail(to_net)
        /\ keyframe_seen' = (keyframe_seen \/ Head(to_net).key)
    BY DEF RelayFrame, compositor
  <1>2. /\ to_net \in Seq(TrueUpdate) /\ Len(to_net) \in Nat /\ Head(to_net) = to_net[1]
        /\ Len(to_net') = Len(to_net) - 1
        /\ \A k \in 1..Len(to_net') : to_net'[k] = to_net[k + 1]
    BY <1>1, HeadTailProperties, EmptySeq, LenProperties DEF FrameInv, ChannelTypes
  <1>3. ASSUME NEW k \in 1..Len(to_net), to_net[k].key PROVE KeyframeComes'
    <2>1. CASE k = 1
      BY <1>1, <1>2, <1>3, <2>1 DEF KeyframeComes
    <2>2. CASE k # 1
      <3>1. k - 1 \in 1..Len(to_net') /\ to_net'[k - 1].key
        BY <1>2, <1>3, <2>2
      <3> QED
        BY <3>1 DEF KeyframeComes
    <2> QED
      BY <2>1, <2>2
  <1>4. keyframe_seen \/ force_keyframe => KeyframeComes'
    BY <1>1 DEF KeyframeComes
  <1>5. KeyframeComes => KeyframeComes'
    BY <1>3, <1>4 DEF KeyframeComes
  <1> QED
    BY <1>1, <1>5, DueKept

\* Every step keeps the keyframe in sight.
LEMMA DueStep ==
  ASSUME FrameInv, KeyframeDue, [FrameNext]_frameVars PROVE KeyframeDue'
  <1>1. ASSUME UNCHANGED <<pc, conn, answered, client_connected, to_comp, keyframe_seen,
                           force_keyframe, to_net>>
        PROVE  KeyframeDue'
    <2>1. KeyframeComes' <=> KeyframeComes
      BY <1>1 DEF KeyframeComes
    <2> QED
      BY <1>1, <2>1, DueKept
  <1>2. CASE Draw \/ WriteMore \/ ReadChunk \/ ReadTimeout \/ SendInput \/ UNCHANGED frameVars
    <2>1. UNCHANGED <<pc, conn, answered, client_connected, to_comp, keyframe_seen,
                      force_keyframe, to_net>>
      BY <1>2 DEF Draw, WriteMore, ReadChunk, ReadTimeout, SendInput, frameVars, compositor, network
    <2> QED
      BY <1>1, <2>1
  <1>3. CASE DrainIdle \/ ServeEnds
    <2>1. pc' = "idle"
      BY <1>3 DEF DrainIdle, ServeEnds, network
    <2> QED
      BY <2>1 DEF KeyframeDue
  <1> QED
    BY <1>2, <1>3, RenderDue, EventDue, TakeDue, GreetDue, RelayDue, ControlDue DEF FrameNext

\* A client's picture drifts from the frames it was sent only when an update
\* was dropped half way; and while nothing of its stream was lost and nothing
\* is under way, it shows what the compositor rendered last.
THEOREM PictureNeverDrifts == FrameSpec => []NoDrift
  <1>1. FrameInit => KeyframeDue
    BY DEF FrameInit, KeyframeDue
  <1>2. FrameInv /\ KeyframeDue /\ [FrameNext]_frameVars => KeyframeDue'
    BY DueStep
  <1>3. FrameInv /\ KeyframeDue => NoDrift
    <2> SUFFICES ASSUME FrameInv, KeyframeDue PROVE NoDrift
      OBVIOUS
    <2>1. keyframe_pending => lost
      BY DEF FrameInv, NoResync
    <2>2. ASSUME pc = "relaying", ~ lost, in_step, ~ UnderWay PROVE framebuffer = rendered
      <3>1. /\ ~ force_keyframe /\ to_net = <<>> /\ writing = Idle /\ wire = <<>>
        BY <2>2 DEF UnderWay
      <3>2. client_connected /\ KeyframeComes
        BY <2>2 DEF KeyframeDue, Serves
      <3>3. keyframe_seen
        BY <3>1, <3>2 DEF KeyframeComes
      <3>4. rendered = previous_frame /\ Tip = previous_frame
        BY <2>2, <3>1, <3>2, <3>3 DEF FrameInv, BaseIsSent, Sound
      <3> QED
        BY <3>1, <3>4 DEF Tip
    <2> QED
      BY <2>1, <2>2 DEF NoDrift
  <1> QED
    BY <1>1, <1>2, <1>3, FrameInvariant, PTL DEF FrameSpec
=============================================================================
