--------------------------- MODULE RegistryClaims ----------------------------
(***************************************************************************)
(* SessionRegistry with two history variables, to state what the           *)
(* repository's comments promise about session ids, about tokens in memory *)
(* and about an orderly shutdown.                                          *)
(***************************************************************************)
EXTENDS SessionRegistry

VARIABLES
  issued,   \* ids whose session has been written to the table, ever
  ended     \* how the last process ended: "never", "crash" or "shutdown"

claimVars == <<vars, issued, ended>>

ClaimInit == Init /\ issued = {} /\ ended = "never"

\* The writer stores a session: from here on its id is on record as issued.
Written ==
  /\ WriterApply
  /\ issued' = issued \cup DOMAIN db'
  /\ UNCHANGED ended

\* SIGINT/SIGTERM ends the main loop and calls std::process::exit, which runs
\* no destructor: SqliteStore::drop, and the flush in it, never happens, so
\* what a shutdown leaves behind is what a crash would leave.
Shutdown == Restart /\ ended' = "shutdown" /\ UNCHANGED issued
Crash    == Restart /\ ended' = "crash" /\ UNCHANGED issued

ClaimNext ==
  \/ Written
  \/ Shutdown
  \/ Crash
  \/ /\ \/ \E t \in Tokens : CreateSession(t) \/ Resume(t)
        \/ \E id \in DOMAIN sessions : Suspend(id)
        \/ CleanupExpired \/ Tick
        \/ WriterFail \/ RestartUnloaded
     /\ UNCHANGED <<issued, ended>>

ClaimSpec == ClaimInit /\ [][ClaimNext]_claimVars

\* restore_persisted: "Never reuse a previously issued id ... a stale reference
\* to an old id must not alias a fresh session."
IdsNeverReused ==
  [][\A t \in Tokens : CreateSession(t) => next_id \notin issued]_claimVars

\* The sessions table's token column: "in-memory uniqueness is enforced by the
\* registry's token index".
TokensUniqueInMemory ==
  \A i, j \in DOMAIN sessions : sessions[i].token = sessions[j].token => i = j

\* SqliteStore::drop: "apply queued writes before the runtime is torn down so
\* an orderly shutdown does not lose the final transitions."
ShutdownLosesNothing ==
  [][(ended' = "shutdown" /\ restarts' # restarts /\ store = "sqlite") =>
       DOMAIN sessions \subseteq DOMAIN sessions']_claimVars
=============================================================================
