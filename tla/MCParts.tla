------------------------------ MODULE MCParts ------------------------------
(***************************************************************************)
(* The parts of the system that share no state, in one instance for TLC:   *)
(* keyboard input, the clipboard, the cut of a long text, the session      *)
(* launcher, certificate pinning, framing, administration, workspaces and  *)
(* batches of render commands.                                             *)
(*                                                                         *)
(* A behaviour picks one part and runs it, the others stay as they         *)
(* started; as no part reads what another writes, an interleaving of two   *)
(* has no other states of either, and the reachable states of each part    *)
(* are those of its own specification.                                     *)
(***************************************************************************)
EXTENDS KeyRouting, Clipboard, ClipText, Launcher, PinStore, Framing, Admin, Workspaces,
        RenderBatch

CONSTANTS letter, tab, shift, alt

\* Keyboard: Alt+Tab is built in, an external WM may bind Alt and a letter.
AltTab    == [k \in {tab} |-> alt]
AltLetter == {<<letter, {alt}>>}

\* Pinning: every server has an identity directory of its own.
OwnDir(s) == s

VARIABLE part

textVars == <<limit, text>>

PartsInit ==
  /\ part \in {"keys", "clipboard", "text", "launcher", "pins", "framing", "admin", "workspaces",
              "batch"}
  /\ KeyInit /\ ClipInit /\ LauncherInit /\ PinInit /\ FramingInit /\ AdminInit /\ WsInit
  /\ RenderInit
  /\ ClipTextInit /\ (part # "text" => limit = 1)

PartsNext ==
  /\ \/ /\ part = "keys" /\ KeyNext
        /\ UNCHANGED <<clipVars, textVars, launcherVars, pinStoreVars, frameVars, adminVars, wsVars, renderVars>>
     \/ /\ part = "clipboard" /\ ClipNext
        /\ UNCHANGED <<keyVars, textVars, launcherVars, pinStoreVars, frameVars, adminVars, wsVars, renderVars>>
     \/ /\ part = "text" /\ Write
        /\ UNCHANGED <<keyVars, clipVars, launcherVars, pinStoreVars, frameVars, adminVars, wsVars, renderVars>>
     \/ /\ part = "launcher" /\ LauncherNext
        /\ UNCHANGED <<keyVars, clipVars, textVars, pinStoreVars, frameVars, adminVars, wsVars, renderVars>>
     \/ /\ part = "pins" /\ PinNext
        /\ UNCHANGED <<keyVars, clipVars, textVars, launcherVars, frameVars, adminVars, wsVars, renderVars>>
     \/ /\ part = "framing" /\ FramingNext
        /\ UNCHANGED <<keyVars, clipVars, textVars, launcherVars, pinStoreVars, adminVars, wsVars, renderVars>>
     \/ /\ part = "admin" /\ AdminNext
        /\ UNCHANGED <<keyVars, clipVars, textVars, launcherVars, pinStoreVars, frameVars, wsVars, renderVars>>
     \/ /\ part = "workspaces" /\ WsNext
        /\ UNCHANGED <<keyVars, clipVars, textVars, launcherVars, pinStoreVars, frameVars, adminVars, renderVars>>
     \/ /\ part = "batch" /\ RenderNext
        /\ UNCHANGED <<keyVars, clipVars, textVars, launcherVars, pinStoreVars, frameVars, adminVars, wsVars>>
  /\ UNCHANGED part

partsVars ==
  <<part, keyVars, clipVars, textVars, launcherVars, pinStoreVars, frameVars, adminVars, wsVars, renderVars>>

PartsSpec == PartsInit /\ [][PartsNext]_partsVars

=============================================================================
