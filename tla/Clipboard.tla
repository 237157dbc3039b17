----------------------------- MODULE Clipboard -----------------------------
(***************************************************************************)
(* Clipboard synchronisation between the session and the terminals.  A     *)
(* selection an application takes is read by a thread of its own           *)
(* (state.rs, process_pending_clipboard) and pushed down; a terminal polls *)
(* its own clipboard when its window gains the focus and pushes a change   *)
(* up (wrclient/clipboard.rs).  last_text keeps it from sending back what  *)
(* it was sent.  All of it outlives the connections it goes through.       *)
(*                                                                         *)
(* Contents are tokens: texts applications copy, texts users copy at their *)
(* terminals, and images, which are never applied.  Of the offers that     *)
(* accompany a content nothing but a log line is made.                     *)
(***************************************************************************)
EXTENDS Integers, Sequences, FiniteSets

CONSTANTS
  AppTexts, Images,  \* what applications copy
  UserTexts,         \* what users copy at a terminal
  Empty,             \* a clipboard without text
  Long, Cut,         \* a text above MAX_CLIPBOARD_DATA and its truncation
  Terminals, NoTerminal,
  Capable,           \* terminals that advertise the clipboard capability
  MaxCopies,         \* bound: copies made, by applications and users
  MaxCuts,           \* bound: connections that end or are preempted
  MaxInputs,         \* bound: input messages that interrupt a read
  MaxRefusals        \* bound: writes the OS clipboard refuses

Contents == AppTexts \cup Images \cup UserTexts \cup {Cut}

ASSUME ClipboardAssumption ==
  /\ AppTexts \cap (UserTexts \cup {Cut}) = {}
  /\ Empty \notin Contents /\ NoTerminal \notin Terminals /\ Capable \subseteq Terminals
  /\ MaxCopies \in Nat /\ MaxCuts \in Nat /\ MaxInputs \in Nat /\ MaxRefusals \in Nat

VARIABLES
  selection,         \* the seat's selection: whose, what, from which terminal
  pending_selection, \* whether a new selection is to be forwarded
  readers,           \* contents being read, with the selection's number
  to_net,            \* ClipboardData in the channel to the network thread
  connected,         \* terminal being relayed
  to_terminal, from_terminal, \* control messages to and from it
  reading,           \* whether the first of from_terminal is "unread", read "half" or "lost"
  to_comp,           \* ClipboardData in the channel to the compositor
  os, last_text,     \* each terminal's clipboard, and what it last saw there
  focus,             \* focus events each terminal has yet to look at
  copies, cuts, inputs, refusals

sessionVars  == <<selection, pending_selection, readers>>
terminalVars == <<os, last_text, focus>>
channelVars  == <<to_net, to_comp>>
streamVars   == <<connected, to_terminal, from_terminal, reading>>
clipBounds   == <<copies, cuts, inputs, refusals>>
clipVars     == <<sessionVars, terminalVars, channelVars, streamVars, clipBounds>>

is_text_mime(x) == x \notin Images

\* The payload is cut to MAX_CLIPBOARD_DATA, at a character boundary.
capped(x) == IF x = Long THEN Cut ELSE x

Selected(by, x, t) == [by |-> by, what |-> x, at |-> t]
NoSelection == Selected("none", Empty, NoTerminal)

(***************************************************************************)
(* The session.                                                            *)
(***************************************************************************)

\* An application takes the selection.
new_selection(x) ==
  /\ copies < MaxCopies /\ copies' = copies + 1
  /\ selection' = Selected("app", x, NoTerminal)
  /\ pending_selection' = TRUE
  /\ UNCHANGED <<readers, terminalVars, channelVars, streamVars, cuts, inputs, refusals>>

\* It gives the selection up: a forward that is queued is dropped.
SelectionCleared ==
  /\ selection.by = "app"
  /\ selection' = NoSelection /\ pending_selection' = FALSE
  /\ UNCHANGED <<readers, terminalVars, channelVars, streamVars, clipBounds>>

\* Once per turn of the loop: the contents are asked for, unless the
\* selection is the compositor's own by now.
process_pending_clipboard ==
  /\ pending_selection /\ pending_selection' = FALSE
  /\ readers' = IF selection.by = "app"
                THEN readers \cup {[n |-> copies, what |-> selection.what]}
                ELSE readers
  /\ UNCHANGED <<selection, terminalVars, channelVars, streamVars, clipBounds>>

\* A reader thread ends, whenever the application is done writing: with the
\* contents, or with nothing.
read_selection_and_forward(r) ==
  /\ r \in readers /\ readers' = readers \ {r}
  /\ to_net' \in {to_net, Append(to_net, capped(r.what))}
  /\ UNCHANGED <<selection, pending_selection, to_comp, terminalVars, streamVars, clipBounds>>

\* What a terminal pushes becomes the compositor's own selection.
set_remote_clipboard ==
  /\ to_comp # <<>> /\ to_comp' = Tail(to_comp)
  /\ selection' = Selected("remote", capped(Head(to_comp).what), Head(to_comp).at)
  /\ UNCHANGED <<pending_selection, readers, to_net, terminalVars, streamVars, clipBounds>>

(***************************************************************************)
(* The connection.  One terminal is relayed at a time.                     *)
(***************************************************************************)
check_compositor_commands ==
  /\ connected # NoTerminal /\ to_net # <<>> /\ to_net' = Tail(to_net)
  /\ to_terminal' = IF connected \in Capable THEN Append(to_terminal, Head(to_net)) ELSE to_terminal
  /\ UNCHANGED <<sessionVars, terminalVars, to_comp, connected, from_terminal, reading, clipBounds>>

\* While nobody is served the channel is emptied.
check_shutdown_async ==
  /\ connected = NoTerminal /\ to_net # <<>> /\ to_net' = Tail(to_net)
  /\ UNCHANGED <<sessionVars, terminalVars, to_comp, streamVars, clipBounds>>

\* A message has arrived in full.
ReadControl ==
  /\ connected # NoTerminal /\ from_terminal # <<>> /\ reading # "lost"
  /\ from_terminal' = Tail(from_terminal) /\ reading' = "unread"
  /\ to_comp' = Append(to_comp, Head(from_terminal))
  /\ UNCHANGED <<sessionVars, terminalVars, to_net, connected, to_terminal, clipBounds>>

\* A large one has arrived in part ...
ReadHalf ==
  /\ connected # NoTerminal /\ reading = "unread"
  /\ from_terminal # <<>> /\ Head(from_terminal).what = Cut
  /\ reading' = "half"
  /\ UNCHANGED <<sessionVars, terminalVars, channelVars, connected, to_terminal, from_terminal, clipBounds>>

\* ... when an input message completes its branch of the select!: the bytes
\* read so far are gone, and the next read starts in the middle of the text.
InputInterrupts ==
  /\ reading = "half" /\ inputs < MaxInputs /\ inputs' = inputs + 1
  /\ reading' = "lost"
  /\ UNCHANGED <<sessionVars, terminalVars, channelVars, connected, to_terminal, from_terminal, copies, cuts, refusals>>

\* A terminal is served, for the first time, again, or preempting another;
\* what was under way to and from the other is lost.
Connect(t) ==
  /\ \/ connected = NoTerminal /\ UNCHANGED cuts
     \/ connected # NoTerminal /\ cuts < MaxCuts /\ cuts' = cuts + 1
  /\ connected' = t /\ to_terminal' = <<>> /\ from_terminal' = <<>> /\ reading' = "unread"
  /\ UNCHANGED <<sessionVars, terminalVars, channelVars, copies, inputs, refusals>>

ConnectionEnds ==
  /\ connected # NoTerminal /\ cuts < MaxCuts /\ cuts' = cuts + 1
  /\ connected' = NoTerminal /\ to_terminal' = <<>> /\ from_terminal' = <<>> /\ reading' = "unread"
  /\ UNCHANGED <<sessionVars, terminalVars, channelVars, copies, inputs, refusals>>

(***************************************************************************)
(* The terminals.                                                          *)
(***************************************************************************)
UserCopies(t, x) ==
  /\ copies < MaxCopies /\ copies' = copies + 1
  /\ os' = [os EXCEPT ![t] = x]
  /\ UNCHANGED <<sessionVars, last_text, focus, channelVars, streamVars, cuts, inputs, refusals>>

FocusGained(t) ==
  /\ ~ focus[t] /\ focus' = [focus EXCEPT ![t] = TRUE]
  /\ UNCHANGED <<sessionVars, os, last_text, channelVars, streamVars, clipBounds>>

\* Mutant: a text is sent only if none was seen before.
CaptureOnce ==
  /\ connected # NoTerminal /\ focus[connected]
  /\ focus' = [focus EXCEPT ![connected] = FALSE]
  /\ IF os[connected] = Empty \/ last_text[connected] # Empty THEN UNCHANGED <<last_text, from_terminal>>
     ELSE /\ last_text' = [last_text EXCEPT ![connected] = os[connected]]
          /\ from_terminal' = Append(from_terminal, [what |-> capped(os[connected]), at |-> connected])
  /\ UNCHANGED <<sessionVars, os, channelVars, connected, to_terminal, reading, clipBounds>>

\* The session loop looks at the focus events it has: a text that is not the
\* last one seen is sent up, and remembered before it is.
capture_if_changed ==
  /\ connected # NoTerminal /\ focus[connected]
  /\ focus' = [focus EXCEPT ![connected] = FALSE]
  /\ IF os[connected] \in {Empty, last_text[connected]} THEN UNCHANGED <<last_text, from_terminal>>
     ELSE /\ last_text' = [last_text EXCEPT ![connected] = os[connected]]
          /\ from_terminal' = Append(from_terminal, [what |-> capped(os[connected]), at |-> connected])
  /\ UNCHANGED <<sessionVars, os, channelVars, connected, to_terminal, reading, clipBounds>>

\* Mutant: what the server pushed is applied and not remembered.
ApplyUnrecorded ==
  /\ connected # NoTerminal /\ to_terminal # <<>> /\ to_terminal' = Tail(to_terminal)
  /\ os' = IF is_text_mime(Head(to_terminal)) THEN [os EXCEPT ![connected] = Head(to_terminal)] ELSE os
  /\ UNCHANGED <<sessionVars, last_text, focus, channelVars, connected, from_terminal, reading, clipBounds>>

\* The session loop handles a ClipboardData: text is remembered, then put on
\* the OS clipboard, which may refuse it.
apply_remote ==
  /\ connected # NoTerminal /\ to_terminal # <<>> /\ to_terminal' = Tail(to_terminal)
  /\ IF ~ is_text_mime(Head(to_terminal)) THEN UNCHANGED <<os, last_text, refusals>>
     ELSE /\ last_text' = [last_text EXCEPT ![connected] = Head(to_terminal)]
          /\ \/ os' = [os EXCEPT ![connected] = Head(to_terminal)] /\ UNCHANGED refusals
             \/ refusals < MaxRefusals /\ refusals' = refusals + 1 /\ UNCHANGED os
  /\ UNCHANGED <<sessionVars, focus, channelVars, connected, from_terminal, reading, copies, cuts, inputs>>

-----------------------------------------------------------------------------
ClipInit ==
  /\ selection = NoSelection /\ pending_selection = FALSE
  /\ readers = {} /\ to_net = <<>> /\ connected = NoTerminal
  /\ to_terminal = <<>> /\ from_terminal = <<>> /\ reading = "unread" /\ to_comp = <<>>
  /\ os = [t \in Terminals |-> Empty] /\ last_text = [t \in Terminals |-> Empty]
  /\ focus = [t \in Terminals |-> FALSE]
  /\ copies = 0 /\ cuts = 0 /\ inputs = 0 /\ refusals = 0

ClipNext ==
  \/ \E x \in AppTexts \cup Images : new_selection(x)
  \/ SelectionCleared \/ process_pending_clipboard \/ set_remote_clipboard
  \/ \E r \in readers : read_selection_and_forward(r)
  \/ check_compositor_commands \/ check_shutdown_async
  \/ ReadControl \/ ReadHalf \/ InputInterrupts \/ ConnectionEnds
  \/ capture_if_changed \/ apply_remote
  \/ \E t \in Terminals : Connect(t) \/ FocusGained(t) \/ \E x \in UserTexts : UserCopies(t, x)

ClipSpec == ClipInit /\ [][ClipNext]_clipVars

\* The compositor's loop, the relay and the terminal's loop keep turning, and
\* a terminal that is cut off connects again.
ClipFairSpec ==
  /\ ClipSpec
  /\ WF_clipVars(set_remote_clipboard) /\ WF_clipVars(ReadControl) /\ WF_clipVars(capture_if_changed)
  /\ \A t \in Terminals : WF_clipVars(Connect(t))

-----------------------------------------------------------------------------
\* No echo: what a terminal sends up was copied by a user at a terminal, never by
\* an application in the session, however pushes, focus changes and
\* reconnections interleave, as long as the OS clipboard takes its writes.  A
\* terminal that sends back what it was sent would take the selection from
\* the application that owns it.
NoEcho == refusals = 0 => \A i \in DOMAIN from_terminal : from_terminal[i].what \notin AppTexts

\* A text a user has copied and brings into the session, by giving the window
\* the focus, becomes the session's selection, unless the terminal's clipboard
\* has changed by then: "polled on window focus gain and, when its text
\* changed, pushed to the server".  It holds as long as connections last and
\* no push is dropped half read because input arrives (MaxCuts and MaxInputs
\* are 0): what the terminal sends is then read as it was sent.
LocalCopyArrives ==
  \A t \in Terminals, x \in UserTexts :
    (focus[t] /\ os[t] = x /\ last_text[t] # x)
      ~> (os[t] # x \/ selection = Selected("remote", capped(x), t))

(***************************************************************************)
(* What the repository says and the code does not do: TLC refutes each of  *)
(* these (README, Deviations).                                             *)
(***************************************************************************)

\* "The echo guard holds even if the OS clipboard write fails".
EchoGuardHolds == \A i \in DOMAIN from_terminal : from_terminal[i].what \notin AppTexts

\* "Length-prefixed reads are not cancellation-safe, so they must not be
\* raced": the server's reads of the control stream stay in step with it.
ControlInStep == reading # "lost"
=============================================================================
