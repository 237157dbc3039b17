------------------------------ MODULE PinStore ------------------------------
(***************************************************************************)
(* Certificate pinning.  A server keeps a self-signed identity on disk     *)
(* (network.rs, load_or_generate_cert) so that its fingerprint survives a  *)
(* restart.  A process that connects (a client, or a server that probes a  *)
(* peer) trusts the first fingerprint it sees for an address and records   *)
(* it in the user's known_hosts file (tls.rs, PinStore).  The file is read *)
(* once, when the process starts, and rewritten from its memory.           *)
(*                                                                         *)
(* A fingerprint is the number of the certificate: normalisation only      *)
(* concerns its spelling.  A file that cannot be written is a failure, a   *)
(* process that dies in the middle of a write a crash.                     *)
(***************************************************************************)
EXTENDS Integers, FiniteSets

CONSTANTS
  Servers,      \* addresses, which are the identities pins are kept for
  Dirs, cert_dir(_),  \* identity directories, and the one of each server
  Processes,    \* processes of one user that connect
  Configured,   \* servers whose fingerprint is configured
  None,
  MaxCerts,     \* bound: identities generated
  MaxEphemeral, \* bound: identities that could not be saved
  MaxCrashes,   \* bound: processes that die while they write
  MaxFailures   \* bound: pin files that could not be written or opened

ASSUME PinAssumption ==
  /\ \A s \in Servers : cert_dir(s) \in Dirs
  /\ Configured \subseteq Servers
  /\ None \notin Nat /\ None \notin {"default", "temp"}
  /\ MaxCerts \in Nat /\ MaxEphemeral \in Nat /\ MaxCrashes \in Nat /\ MaxFailures \in Nat

VARIABLES
  cert_der, key_der, \* each directory's files: the number of an identity or None
  served,            \* the identity a server presents or writes, None when down
  boot,              \* where each server is: "down", "cert", "key", "up"
  next_cert,
  known_hosts,       \* the pin file of each store: server -> fingerprint
  store,             \* the file a process uses: "default", "temp", None if down
  pins,              \* its memory
  saving,            \* its handshake: "none", "open" or "write" the file, for whom
  presented,         \* history: fingerprints each server has presented
  accepted,          \* history: those each process has accepted since its start
  trusted,           \* history: those the user's processes have accepted
  alone,             \* history: no process has opened a store while another had one
  ephemeral, crashes, failures

serverVars == <<cert_der, key_der, served, boot, next_cert, presented>>
pinVars    == <<known_hosts, store, pins, saving, accepted, trusted, alone>>
bounds     == <<ephemeral, crashes, failures>>
pinStoreVars == <<serverVars, pinVars, bounds>>

NoPins == [s \in Servers |-> None]
NotSaving == [step |-> "none", for |-> None]

(***************************************************************************)
(* The server's identity.                                                  *)
(***************************************************************************)
Serve(s, n) ==
  /\ served' = [served EXCEPT ![s] = n] /\ boot' = [boot EXCEPT ![s] = "up"]
  /\ presented' = [presented EXCEPT ![s] = @ \cup {n}]

\* Mutant: the certificate on disk is not looked at.
GenerateAlways(s) ==
  /\ boot[s] = "down" /\ next_cert < MaxCerts /\ next_cert' = next_cert + 1
  /\ served' = [served EXCEPT ![s] = next_cert'] /\ boot' = [boot EXCEPT ![s] = "cert"]
  /\ UNCHANGED <<cert_der, key_der, presented, pinVars, bounds>>

\* Both files are there: they are used; a key that is not the certificate's
\* fails the start.  Otherwise a new identity is made.  A file that was being
\* written when its server died counts as absent: its key does not parse.
load_or_generate_cert(s) ==
  LET d == cert_dir(s) IN
  /\ boot[s] = "down"
  /\ \/ /\ cert_der[d] # None /\ cert_der[d] = key_der[d]
        /\ Serve(s, cert_der[d]) /\ UNCHANGED next_cert
     \/ /\ None \in {cert_der[d], key_der[d]} /\ next_cert < MaxCerts /\ next_cert' = next_cert + 1
        /\ served' = [served EXCEPT ![s] = next_cert'] /\ boot' = [boot EXCEPT ![s] = "cert"]
        /\ UNCHANGED presented
  /\ UNCHANGED <<cert_der, key_der, pinVars, bounds>>

WriteCert(s) ==
  /\ boot[s] = "cert" /\ boot' = [boot EXCEPT ![s] = "key"]
  /\ cert_der' = [cert_der EXCEPT ![cert_dir(s)] = served[s]]
  /\ UNCHANGED <<key_der, served, next_cert, presented, pinVars, bounds>>

\* The certificate is used only when its key is written too ...
WriteKey(s) ==
  /\ boot[s] = "key"
  /\ key_der' = [key_der EXCEPT ![cert_dir(s)] = served[s]]
  /\ Serve(s, served[s])
  /\ UNCHANGED <<cert_der, next_cert, pinVars, bounds>>

\* ... or when one of the two writes failed.
ServeEphemeral(s) ==
  /\ boot[s] \in {"cert", "key"} /\ ephemeral < MaxEphemeral /\ ephemeral' = ephemeral + 1
  /\ Serve(s, served[s])
  /\ UNCHANGED <<cert_der, key_der, next_cert, pinVars, crashes, failures>>

ServerStops(s) ==
  /\ \/ boot[s] = "up" /\ UNCHANGED crashes
     \/ boot[s] \in {"cert", "key"} /\ crashes < MaxCrashes /\ crashes' = crashes + 1
  /\ served' = [served EXCEPT ![s] = None] /\ boot' = [boot EXCEPT ![s] = "down"]
  /\ UNCHANGED <<cert_der, key_der, next_cert, presented, pinVars, ephemeral, failures>>

(***************************************************************************)
(* The processes that connect.                                             *)
(***************************************************************************)

\* The user's file is read, or one in the temporary directory when it cannot be.
open_default(p) ==
  /\ store[p] = None
  /\ \E w \in {"default", "temp"} :
       /\ w = "temp" => failures < MaxFailures
       /\ failures' = IF w = "temp" THEN failures + 1 ELSE failures
       /\ store' = [store EXCEPT ![p] = w] /\ pins' = [pins EXCEPT ![p] = known_hosts[w]]
  /\ alone' = (alone /\ \A q \in Processes : store[q] = None)
  /\ UNCHANGED <<serverVars, known_hosts, saving, accepted, trusted, ephemeral, crashes>>

Accept(p, s, fp) ==
  /\ accepted' = [accepted EXCEPT ![p][s] = @ \cup {fp}]
  /\ trusted'  = [trusted EXCEPT ![s] = @ \cup {fp}]

\* Mutant: the file is not written.
RememberUnsaved(p, s, fp) ==
  /\ pins[p][s] \in {None, fp} /\ Accept(p, s, fp)
  /\ pins' = [pins EXCEPT ![p][s] = fp] /\ UNCHANGED saving

\* A known fingerprint is accepted and another refused; the first one is
\* remembered, then written.
verify_or_remember(p, s, fp) ==
  IF pins[p][s] # None
  THEN /\ UNCHANGED <<pins, saving>>
       /\ IF pins[p][s] = fp THEN Accept(p, s, fp) ELSE UNCHANGED <<accepted, trusted>>
  ELSE /\ pins' = [pins EXCEPT ![p][s] = fp]
       /\ saving' = [saving EXCEPT ![p] = [step |-> "open", for |-> s]]
       /\ UNCHANGED <<accepted, trusted>>

\* A handshake.  The store is locked while a fingerprint is being recorded.  A
\* configured fingerprint, of the first identity made, is all that counts.
check_pin(p, s) ==
  /\ store[p] # None /\ saving[p] = NotSaving /\ boot[s] = "up"
  /\ IF s \in Configured
     THEN /\ served[s] = 1 /\ Accept(p, s, 1) /\ UNCHANGED <<pins, saving>>
     ELSE verify_or_remember(p, s, served[s])
  /\ UNCHANGED <<serverVars, known_hosts, store, alone, bounds>>

\* write_private opens the file, and thereby empties it ...
PersistOpens(p) ==
  /\ saving[p].step = "open" /\ saving' = [saving EXCEPT ![p].step = "write"]
  /\ known_hosts' = [known_hosts EXCEPT ![store[p]] = NoPins]
  /\ UNCHANGED <<serverVars, store, pins, accepted, trusted, alone, bounds>>

\* ... and writes all the pins of this process; the handshake goes on.
PersistWrites(p) ==
  /\ saving[p].step = "write" /\ saving' = [saving EXCEPT ![p] = NotSaving]
  /\ known_hosts' = [known_hosts EXCEPT ![store[p]] = pins[p]]
  /\ Accept(p, saving[p].for, pins[p][saving[p].for])
  /\ UNCHANGED <<serverVars, store, pins, alone, bounds>>

\* One of the two fails: so does the handshake, and the pin stays in memory.
PersistFails(p) ==
  /\ saving[p] # NotSaving /\ failures < MaxFailures /\ failures' = failures + 1
  /\ saving' = [saving EXCEPT ![p] = NotSaving]
  /\ UNCHANGED <<serverVars, known_hosts, store, pins, accepted, trusted, alone, ephemeral, crashes>>

ProcessStops(p) ==
  /\ store[p] # None
  /\ \/ saving[p] = NotSaving /\ UNCHANGED crashes
     \/ saving[p] # NotSaving /\ crashes < MaxCrashes /\ crashes' = crashes + 1
  /\ store' = [store EXCEPT ![p] = None] /\ pins' = [pins EXCEPT ![p] = NoPins]
  /\ saving' = [saving EXCEPT ![p] = NotSaving]
  /\ accepted' = [accepted EXCEPT ![p] = [s \in Servers |-> {}]]
  /\ UNCHANGED <<serverVars, known_hosts, trusted, alone, ephemeral, failures>>

-----------------------------------------------------------------------------
PinInit ==
  /\ cert_der = [d \in Dirs |-> None] /\ key_der = [d \in Dirs |-> None]
  /\ served = NoPins /\ boot = [s \in Servers |-> "down"] /\ next_cert = 0
  /\ known_hosts = [w \in {"default", "temp"} |-> NoPins]
  /\ store = [p \in Processes |-> None] /\ pins = [p \in Processes |-> NoPins]
  /\ saving = [p \in Processes |-> NotSaving]
  /\ presented = [s \in Servers |-> {}] /\ trusted = [s \in Servers |-> {}]
  /\ accepted = [p \in Processes |-> [s \in Servers |-> {}]]
  /\ alone = TRUE /\ ephemeral = 0 /\ crashes = 0 /\ failures = 0

PinNext ==
  \/ \E s \in Servers : load_or_generate_cert(s) \/ WriteCert(s) \/ WriteKey(s)
                        \/ ServeEphemeral(s) \/ ServerStops(s)
  \/ \E p \in Processes : open_default(p) \/ PersistOpens(p) \/ PersistWrites(p)
                          \/ PersistFails(p) \/ ProcessStops(p)
                          \/ \E s \in Servers : check_pin(p, s)

PinSpec == PinInit /\ [][PinNext]_pinStoreVars

-----------------------------------------------------------------------------
\* "Persisting the certificate keeps its fingerprint stable across restarts",
\* also when a server dies between the two writes, as long as they succeed.
FingerprintStable == ephemeral = 0 => \A s \in Servers : Cardinality(presented[s]) <= 1

\* "The first fingerprint seen for a peer is recorded in a known_hosts-style
\* file and enforced on every later connection".  As long as a process lives
\* it accepts one certificate for an address, whatever other processes do to
\* the file and whichever writes fail.  Over restarts of the process and of
\* the server the user never accepts two, as long as one process at a time
\* uses the store, none dies while it writes the file and it can be written.
PinEnforced ==
  /\ \A p \in Processes, s \in Servers : Cardinality(accepted[p][s]) <= 1
  /\ alone /\ crashes = 0 /\ failures = 0 => \A s \in Servers : Cardinality(trusted[s]) <= 1

(***************************************************************************)
(* What the repository says and the code does not do: TLC refutes each of  *)
(* these (README, Deviations).                                             *)
(***************************************************************************)

\* The comment quoted above makes no conditions.
FirstUseEnforced == \A s \in Servers : Cardinality(trusted[s]) <= 1
=============================================================================
