-------------------------------- MODULE Desk --------------------------------
(***************************************************************************)
(* What hot-desking promises, without threads, channels or timeouts: there *)
(* is one desk.  A client sits down at the session of its token only when  *)
(* the desk is free, only the one who sits types, whoever leaves takes the *)
(* hands off the keyboard and leaves the session as it is, and only a      *)
(* session nobody sits at goes away.                                       *)
(***************************************************************************)
CONSTANTS Clients, Nobody, Tokens

VARIABLES
  at,      \* the client at the desk
  session, \* each token's session: "none", "here" (at the desk), "away"
  keys     \* client whose keys are held down

deskVars == <<at, session, keys>>

DeskInit == at = Nobody /\ session = [t \in Tokens |-> "none"] /\ keys = Nobody

Sit(c, t) ==
  /\ at = Nobody /\ at' = c
  /\ session' = [session EXCEPT ![t] = "here"]
  /\ UNCHANGED keys

Leave ==
  /\ at # Nobody /\ at' = Nobody /\ keys' = Nobody
  /\ session' = [t \in Tokens |-> IF session[t] = "here" THEN "away" ELSE session[t]]

Type == at # Nobody /\ keys' = at /\ UNCHANGED <<at, session>>

Expire ==
  /\ \E gone \in SUBSET { t \in Tokens : session[t] = "away" } :
       session' = [t \in Tokens |-> IF t \in gone THEN "none" ELSE session[t]]
  /\ UNCHANGED <<at, keys>>

DeskNext == (\E c \in Clients, t \in Tokens : Sit(c, t)) \/ Leave \/ Type \/ Expire

DeskSpec == DeskInit /\ [][DeskNext]_deskVars
=============================================================================
