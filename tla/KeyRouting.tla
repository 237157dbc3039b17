----------------------------- MODULE KeyRouting -----------------------------
(***************************************************************************)
(* A key from the client's keyboard to the seat of the session: wrclient's *)
(* input.rs turns it into messages, which wait in a channel while there is *)
(* no connection; inject_network_input of state.rs offers them to the      *)
(* external WM's bindings, then to the built-in WM, and hands the rest to  *)
(* the seat.  The seat, the modifier tracker and the client's modifier     *)
(* state all outlive a connection.                                         *)
(***************************************************************************)
EXTENDS Integers, Sequences, FiniteSets

CONSTANTS
  Keys,         \* keys that are not modifiers
  Letters,      \* those that type a letter
  Mods, Shift,  \* modifiers; wrclient only ever sends the left key of each
  BuiltinMod,   \* [keys of the built-in chords -> the modifier each needs]
  Bindable,     \* chords <<key, set of modifiers>> an external WM may bind
  MaxQueue,     \* bound: messages waiting for a connection
  MaxWire,      \* bound: messages under way
  MaxBreaks     \* bound: connections lost

ASSUME KeyAssumption ==
  /\ Letters \subseteq Keys /\ Keys \cap Mods = {} /\ Shift \in Mods
  /\ DOMAIN BuiltinMod \subseteq Keys
  /\ Bindable \subseteq (Keys \cup Mods) \X SUBSET Mods
  /\ MaxQueue \in Nat /\ MaxWire \in Nat /\ MaxBreaks \in Nat

VARIABLES
  down,           \* keys and modifiers the user holds
  modifiers,      \* App::modifiers
  queue,          \* input channel of the client's network thread
  wire,           \* sent, not yet handled by the compositor
  link,           \* "up", "broken" (the server has yet to notice) or "down"
  held,           \* ModifierTracker::held
  pressed_keys,
  seat,           \* keys the seat's keyboard has down
  keybindings,
  told,           \* bindings the WM was told of as pressed and not released
  breaks

keyVars == <<down, modifiers, queue, wire, link, held, pressed_keys, seat, keybindings, told, breaks>>
keyServerVars == <<held, pressed_keys, seat, told>>

Press(k)   == [key |-> k, pressed |-> TRUE]
Release(k) == [key |-> k, pressed |-> FALSE]
Event(k, is) == [key |-> k, pressed |-> is]

(***************************************************************************)
(* The client.                                                             *)
(***************************************************************************)

\* Mutant: Shift is not put back after the letter.
BracketStaysOpen(k, is, text, real_shift) ==
  IF is /\ k \in Letters /\ text # "none" /\ (text = "upper") # real_shift
  THEN <<Event(Shift, text = "upper"), Press(k)>>
  ELSE <<Event(k, is)>>

\* A letter whose case, as the platform resolved it, is not what Shift says
\* (caps lock) is bracketed with a Shift event either side.
convert_keyboard(k, is, text, real_shift) ==
  IF is /\ k \in Letters /\ text # "none" /\ (text = "upper") # real_shift
  THEN <<Event(Shift, text = "upper"), Press(k), Event(Shift, real_shift)>>
  ELSE <<Event(k, is)>>

Enqueue(messages) ==
  /\ Len(queue) + Len(messages) <= MaxQueue
  /\ queue' = queue \o messages

\* A key goes down, repeats or comes up.
KeyboardInput(k) ==
  /\ \E is \in BOOLEAN, text \in {"none", "lower", "upper"} :
       /\ ~ is => k \in down
       /\ down' = IF is THEN down \cup {k} ELSE down \ {k}
       /\ Enqueue(convert_keyboard(k, is, text, Shift \in modifiers))
  /\ UNCHANGED <<modifiers, wire, link, keyServerVars, keybindings, breaks>>

\* A modifier changes: convert_modifiers sends the difference.
ModifiersChanged(m) ==
  /\ down' = IF m \in down THEN down \ {m} ELSE down \cup {m}
  /\ modifiers' = down' \cap Mods
  /\ Enqueue(<<Event(m, m \in modifiers')>>)
  /\ UNCHANGED <<wire, link, keyServerVars, keybindings, breaks>>

send_input ==
  /\ link = "up" /\ queue # <<>> /\ Len(wire) < MaxWire
  /\ wire' = Append(wire, Head(queue)) /\ queue' = Tail(queue)
  /\ UNCHANGED <<down, modifiers, link, keyServerVars, keybindings, breaks>>

\* The connection is lost with the end of what is on the wire, and perhaps
\* with the message whose sending failed.
Break ==
  /\ link = "up" /\ breaks < MaxBreaks /\ breaks' = breaks + 1
  /\ link' = "broken"
  /\ \E n \in 0..Len(wire) : wire' = SubSeq(wire, 1, n)
  /\ \E q \in {queue} \cup (IF queue = <<>> THEN {} ELSE {Tail(queue)}) : queue' = q
  /\ UNCHANGED <<down, modifiers, keyServerVars, keybindings>>

Reconnect ==
  /\ link = "down" /\ link' = "up"
  /\ UNCHANGED <<down, modifiers, queue, wire, keyServerVars, keybindings, breaks>>

(***************************************************************************)
(* The compositor.                                                         *)
(***************************************************************************)

on_key(tracker, ev) == IF ev.key \notin Mods THEN tracker
                       ELSE IF ev.pressed THEN tracker \cup {ev.key} ELSE tracker \ {ev.key}

\* The built-in WM's chords, on press only (on_key_binding).
on_key_binding(ev, mask) == ev.pressed /\ ev.key \in DOMAIN BuiltinMod /\ BuiltinMod[ev.key] \in mask

\* The WM's seat is told of a chord that is bound, in whichever mode.
check_key_binding(chord, is) ==
  /\ chord \in keybindings
  /\ told' = IF is THEN told \cup {chord} ELSE told \ {chord}

\* The binding is looked up with the modifiers held now, on release too.
inject_network_input ==
  /\ wire # <<>> /\ wire' = Tail(wire)
  /\ LET ev    == Head(wire)
         mask  == on_key(held, ev)
         chord == <<ev.key, mask>>
     IN /\ held' = mask
        /\ \/ /\ check_key_binding(chord, ev.pressed)
              /\ UNCHANGED <<pressed_keys, seat>>
           \/ /\ chord \notin keybindings /\ on_key_binding(ev, mask)
              /\ UNCHANGED <<pressed_keys, seat, told>>
           \/ /\ chord \notin keybindings /\ ~ on_key_binding(ev, mask)
              /\ seat' = IF ev.pressed THEN seat \cup {ev.key} ELSE seat \ {ev.key}
              /\ pressed_keys' = IF ev.pressed THEN pressed_keys \cup {ev.key}
                                               ELSE pressed_keys \ {ev.key}
              /\ UNCHANGED told
  /\ UNCHANGED <<down, modifiers, queue, link, keybindings, breaks>>

\* Mutant: the keys that are down are forgotten instead of released.
ForgetAllKeys ==
  /\ held' = {} /\ pressed_keys' = {} /\ UNCHANGED <<seat, told>>

release_all_keys ==
  /\ held' = {} /\ pressed_keys' = {} /\ seat' = seat \ pressed_keys
  /\ UNCHANGED told

\* The disconnect reaches the compositor behind the input that came before.
HandleDisconnected ==
  /\ link = "broken" /\ wire = <<>> /\ link' = "down"
  /\ release_all_keys
  /\ UNCHANGED <<down, modifiers, queue, wire, keybindings, breaks>>

\* The external WM binds or unbinds a chord (bind_key, unbind_key).
BindKey ==
  /\ \E c \in Bindable : \E k \in {keybindings \cup {c}, keybindings \ {c}} : keybindings' = k
  /\ UNCHANGED <<down, modifiers, queue, wire, link, keyServerVars, breaks>>

KeyInit ==
  /\ down = {} /\ modifiers = {} /\ queue = <<>> /\ wire = <<>> /\ link = "up"
  /\ held = {} /\ pressed_keys = {} /\ seat = {} /\ keybindings = {} /\ told = {} /\ breaks = 0

KeyNext ==
  \/ \E k \in Keys : KeyboardInput(k)
  \/ \E m \in Mods : ModifiersChanged(m)
  \/ send_input \/ Break \/ Reconnect \/ inject_network_input \/ HandleDisconnected \/ BindKey

KeySpec == KeyInit /\ [][KeyNext]_keyVars

-----------------------------------------------------------------------------
\* Everything the user did has arrived or been given up.
Settled == queue = <<>> /\ wire = <<>> /\ link # "broken"

\* Keys an external WM has a say in.
BoundKeys == { c[1] : c \in Bindable }

\* Once the user holds nothing and all is settled, the session has no key
\* down, whatever was lost with a connection and whatever the built-in WM's
\* chords swallowed, except perhaps keys that an external WM may bind.
NoStuckKeys == (Settled /\ down = {}) => held = {} /\ seat \subseteq BoundKeys

\* As long as the connection lasts, the tracker and the seat agree with the
\* modifiers the user holds: the caps lock brackets leave no trace.
ModifiersInStep ==
  (breaks = 0 /\ Settled) => held = modifiers /\ seat \cap (Mods \ BoundKeys) = modifiers \ BoundKeys

(***************************************************************************)
(* What the repository says and the code does not do: TLC refutes each of  *)
(* these (README, Deviations).                                             *)
(***************************************************************************)

\* The same over reconnections: a freshly reconnected client "holds nothing".
ReconnectsInStep == (Settled /\ link = "up") => held = modifiers

\* "A release is never lost": with all settled and nothing held, nothing is
\* left down, although an external WM may have bound any of the keys.
AllReleased == (Settled /\ down = {}) => seat = {}

\* The WM hears of the release of every binding it heard was pressed.
BindingsReleased == (Settled /\ down = {} /\ breaks = 0) => told \cap keybindings = {}
=============================================================================
