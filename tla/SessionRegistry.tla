--------------------------- MODULE SessionRegistry ---------------------------
(***************************************************************************)
(* The session registry of wrsrvd (session/registry.rs, session/types.rs)  *)
(* together with its durable store (session/persistence.rs).               *)
(*                                                                         *)
(* The compositor thread owns the registry and calls it synchronously.     *)
(* Every change is queued to a writer task that applies it to SQLite       *)
(* later, in order; the process may die at any point, which loses the      *)
(* queue, and a new process restores the registry from the database rows.  *)
(*                                                                         *)
(* An action below is one whole call made by the compositor (with          *)
(* everything it does to the registry), one step of the writer task, or    *)
(* the death of the process and the start of the next one.                 *)
(***************************************************************************)
EXTENDS Integers, Sequences, FiniteSets

CONSTANTS
  Tokens,        \* session tokens clients present (opaque locators)
  Users,         \* user names set after authentication
  NoUser,        \* Session.user = None
  Timeouts,      \* suspend timeouts a session may have, in ticks of a second
  DefaultTimeout,\* the timeout given to a new session
  MaxAge,        \* bound: ages saturate here (no timeout is larger)
  MaxId,         \* bound: session ids the model issues
  MaxOps,        \* bound: no call of a client's making when the queue is this long
  MaxRestarts,   \* bound: process restarts
  MaxFailures    \* bound: failed database operations

ASSUME RegistryAssumption ==
  /\ NoUser \notin Users
  /\ DefaultTimeout \in Timeouts
  /\ MaxAge \in Nat
  /\ Timeouts \subseteq 0..MaxAge
  /\ MaxId \in Nat /\ MaxOps \in Nat /\ MaxRestarts \in Nat /\ MaxFailures \in Nat

VARIABLES
  sessions,      \* SessionId -> Session (in memory)
  token_index,   \* SessionToken -> SessionId
  next_id,       \* next id create_session hands out
  store,         \* "sqlite" or "null": which SessionStore is attached
  ops,           \* the writer task's queue of Save and Delete operations
  db,            \* the rows of the sessions table, by id
  restarts,      \* restarts so far
  failures       \* database operations that have failed so far

vars == <<sessions, token_index, next_id, store, ops, db, restarts, failures>>

(***************************************************************************)
(* Sessions and rows.                                                      *)
(***************************************************************************)
SessionStates == {"creating", "active", "suspended", "destroyed"}

can_transition_to(from, to) ==
  <<from, to>> \in { <<"creating", "active">>,  <<"creating", "destroyed">>,
                     <<"active", "suspended">>, <<"active", "destroyed">>,
                     <<"suspended", "active">>, <<"suspended", "destroyed">> }

Session == [token : Tokens, state : SessionStates, age : 0..MaxAge,
            timeout : Timeouts, user : Users \cup {NoUser}]

\* The persisted subset of a session: monotonic instants are not stored.
Row == [token : Tokens, state : SessionStates, timeout : Timeouts,
        user : Users \cup {NoUser}]

\* Session::new.  The age is the time since suspended_at, 0 when it is None.
NewSession(t) == [token |-> t, state |-> "creating", age |-> 0,
                  timeout |-> DefaultTimeout, user |-> NoUser]

\* Session::transition, for a legal move: suspended_at is set on entering
\* Suspended and cleared on leaving it, so either way the age starts at 0.
Transitioned(s, next) == [s EXCEPT !.state = next, !.age = 0]

\* Mutant: the timeout must be hit exactly; a sweep that comes later misses it.
ExpiredExactly(s) == s.state = "suspended" /\ s.age = s.timeout

is_suspend_expired(s) == s.state = "suspended" /\ s.age >= s.timeout

record_of(s) == [token |-> s.token, state |-> s.state,
                 timeout |-> s.timeout, user |-> s.user]

Live(s) == s.state \in {"active", "suspended"}

is_resumable(t) == t \in DOMAIN token_index
                   /\ token_index[t] \in DOMAIN sessions
                   /\ Live(sessions[token_index[t]])

(***************************************************************************)
(* The store.  persist and remove queue a snapshot for the writer task;    *)
(* the NullStore ignores both.                                             *)
(***************************************************************************)
Save(id, s) == [op |-> "save", id |-> id, row |-> record_of(s)]
Delete(id)  == [op |-> "delete", id |-> id]

Op == [op : {"save"}, id : Nat \ {0}, row : Row] \cup [op : {"delete"}, id : Nat \ {0}]

Queue(batch) == ops' = IF store = "sqlite" THEN ops \o batch ELSE ops

Room == Len(ops) < MaxOps

\* A map with one more (or a replaced) entry, and one with entries removed.
Put(f, k, v) == [x \in DOMAIN f \cup {k} |-> IF x = k THEN v ELSE f[x]]
Without(f, S) == [x \in DOMAIN f \ S |-> f[x]]

\* The orders in which a hash map or an unordered SELECT may list a set.
Enumerations(S) ==
  { e \in [1..Cardinality(S) -> S] : \A x \in S : \E i \in DOMAIN e : e[i] = x }

(***************************************************************************)
(* The compositor's calls.                                                 *)
(***************************************************************************)

\* A connecting client whose token has nothing to resume: create_session and
\* activate, in one handler.  Both states are persisted.
CreateSession(t) ==
  /\ ~ is_resumable(t)
  /\ next_id <= MaxId /\ Room
  /\ LET new == NewSession(t)
         act == Transitioned(new, "active")
     IN /\ sessions' = Put(sessions, next_id, act)
        /\ Queue(<<Save(next_id, new), Save(next_id, act)>>)
  /\ token_index' = Put(token_index, t, next_id)
  /\ next_id' = next_id + 1
  /\ UNCHANGED <<store, db, restarts, failures>>

\* transition to a state other than Destroyed.
MoveTo(id, next) ==
  /\ id \in DOMAIN sessions
  /\ can_transition_to(sessions[id].state, next)
  /\ Room
  /\ LET s == Transitioned(sessions[id], next)
     IN /\ sessions' = Put(sessions, id, s)
        /\ Queue(<<Save(id, s)>>)
  /\ UNCHANGED <<token_index, next_id, store, db, restarts, failures>>

\* A token that resumes a suspended session: activate.
Resume(t) ==
  /\ is_resumable(t)
  /\ sessions[token_index[t]].state = "suspended"
  /\ MoveTo(token_index[t], "active")

\* The bound client is gone: suspend.
Suspend(id) == MoveTo(id, "suspended")

\* Mutant: the change is made in memory and not persisted.
UpdateUnsaved(id, s) ==
  /\ Room
  /\ sessions' = Put(sessions, id, s)
  /\ UNCHANGED <<token_index, next_id, store, ops, db, restarts, failures>>

\* set_user and set_suspend_timeout on a session that exists.
Update(id, s) ==
  /\ Room
  /\ sessions' = Put(sessions, id, s)
  /\ Queue(<<Save(id, s)>>)
  /\ UNCHANGED <<token_index, next_id, store, db, restarts, failures>>

SetUser(id, u) == id \in DOMAIN sessions /\ Update(id, [sessions[id] EXCEPT !.user = u])

SetSuspendTimeout(id, d) ==
  id \in DOMAIN sessions /\ Update(id, [sessions[id] EXCEPT !.timeout = d])

Expired == { id \in DOMAIN sessions : is_suspend_expired(sessions[id]) }

\* Mutant: destroying a session leaves its token in the index.
StillIndexed(S) == token_index

\* The token index after the sessions in S went to Destroyed: each removal is
\* by token, whichever session the index holds for it.
Unindexed(S) == Without(token_index, { sessions[id].token : id \in S })

\* Mutant: the sweep destroys and un-indexes, and forgets purge_destroyed.
CleanupUnpurged ==
  /\ Expired # {}
  /\ sessions' = [id \in DOMAIN sessions |->
       IF id \in Expired THEN Transitioned(sessions[id], "destroyed") ELSE sessions[id]]
  /\ token_index' = Unindexed(Expired)
  /\ \E e \in Enumerations(Expired) : Queue([i \in DOMAIN e |-> Delete(e[i])])
  /\ UNCHANGED <<next_id, store, db, restarts, failures>>

\* Mutant: the sweep leaves the rows in the table.
CleanupUndeleted ==
  /\ Expired # {}
  /\ sessions' = Without(sessions, Expired)
  /\ token_index' = Unindexed(Expired)
  /\ UNCHANGED <<next_id, store, ops, db, restarts, failures>>

\* The periodic sweep: cleanup_expired destroys every expired session, and
\* purge_destroyed drops them from memory in the same turn of the loop.
CleanupExpired ==
  /\ Expired # {}
  /\ sessions' = Without(sessions, Expired)
  /\ token_index' = Unindexed(Expired)
  /\ \E e \in Enumerations(Expired) : Queue([i \in DOMAIN e |-> Delete(e[i])])
  /\ UNCHANGED <<next_id, store, db, restarts, failures>>

\* Time passes for suspended sessions.
Tick ==
  /\ \E id \in DOMAIN sessions : sessions[id].state = "suspended" /\ sessions[id].age < MaxAge
  /\ sessions' = [id \in DOMAIN sessions |->
       IF sessions[id].state = "suspended" /\ sessions[id].age < MaxAge
       THEN [sessions[id] EXCEPT !.age = @ + 1] ELSE sessions[id]]
  /\ UNCHANGED <<token_index, next_id, store, ops, db, restarts, failures>>

(***************************************************************************)
(* The writer task: upsert or delete one row, or log a failure and go on.  *)
(***************************************************************************)
WriterApply ==
  /\ ops # <<>>
  /\ db' = IF Head(ops).op = "save" THEN Put(db, Head(ops).id, Head(ops).row)
                                    ELSE Without(db, {Head(ops).id})
  /\ ops' = Tail(ops)
  /\ UNCHANGED <<sessions, token_index, next_id, store, restarts, failures>>

WriterFail ==
  /\ ops # <<>>
  /\ failures < MaxFailures
  /\ failures' = failures + 1
  /\ ops' = Tail(ops)
  /\ UNCHANGED <<sessions, token_index, next_id, store, db, restarts>>

(***************************************************************************)
(* Process death and start.  The queue dies with the process.  The next    *)
(* process restores from the rows: Active and Suspended ones come back     *)
(* Suspended with a fresh clock and are written back, the others are       *)
(* deleted, and next_id moves past every id seen.                          *)
(***************************************************************************)
Restored(row) == [token |-> row.token, state |-> "suspended", age |-> 0,
                  timeout |-> row.timeout, user |-> row.user]

Resumable(rows) == { id \in DOMAIN rows : Live(rows[id]) }

\* What restore_persisted queues for one row.
RestoreOp(id) == IF Live(db[id]) THEN Save(id, Restored(db[id])) ELSE Delete(id)

\* token_index after inserting the restored rows in the order e: the last
\* row of a token wins.
IndexAfter(e) ==
  LET last(t) == { i \in DOMAIN e : Live(db[e[i]]) /\ db[e[i]].token = t }
  IN [t \in { db[id].token : id \in Resumable(db) } |->
        e[CHOOSE i \in last(t) : \A j \in last(t) : j <= i]]

\* Mutant: the next id is the highest one seen, not the one after it.
NextIdAtMax(ids) == IF ids = {} THEN 1 ELSE CHOOSE m \in ids : \A k \in ids : k <= m

NextIdAfter(ids) == IF ids = {} THEN 1 ELSE 1 + CHOOSE m \in ids : \A k \in ids : k <= m

\* A start with a database that opens and loads.
Restart ==
  /\ restarts < MaxRestarts
  /\ restarts' = restarts + 1
  /\ store' = "sqlite"
  /\ sessions' = [id \in Resumable(db) |-> Restored(db[id])]
  /\ next_id' = NextIdAfter(DOMAIN db)
  /\ \E e \in Enumerations(DOMAIN db) :
       /\ token_index' = IndexAfter(e)
       /\ ops' = [i \in DOMAIN e |-> RestoreOp(e[i])]
  /\ UNCHANGED <<db, failures>>

\* A start whose database fails to open (the registry keeps the NullStore),
\* or opens and fails to load (it keeps the SQLite store): nothing restored.
RestartUnloaded ==
  /\ restarts < MaxRestarts
  /\ failures < MaxFailures
  /\ restarts' = restarts + 1
  /\ failures' = failures + 1
  /\ store' \in {"sqlite", "null"}
  /\ sessions' = <<>> /\ token_index' = <<>> /\ next_id' = 1 /\ ops' = <<>>
  /\ UNCHANGED db

-----------------------------------------------------------------------------
\* The first start: an empty database, or none at all (no --state-db).
Init ==
  /\ sessions = <<>> /\ token_index = <<>> /\ next_id = 1
  /\ store \in {"sqlite", "null"}
  /\ ops = <<>> /\ db = <<>>
  /\ restarts = 0 /\ failures = 0

Next ==
  \/ \E t \in Tokens : CreateSession(t) \/ Resume(t)
  \/ \E id \in DOMAIN sessions :
       \/ Suspend(id)
       \/ \E u \in Users : SetUser(id, u)
       \/ \E d \in Timeouts : SetSuspendTimeout(id, d)
  \/ CleanupExpired
  \/ Tick
  \/ WriterApply
  \/ WriterFail
  \/ Restart
  \/ RestartUnloaded

Spec == Init /\ [][Next]_vars

\* The loop turns every ~16 ms and sweeps every 3600 turns, and time passes:
\* both happen again and again in a running process.
FairSpec == Spec /\ WF_vars(Tick) /\ WF_vars(CleanupExpired)

-----------------------------------------------------------------------------
\* A finite map from session ids to V.
IsMap(f, V) == /\ f = [k \in DOMAIN f |-> f[k]]
               /\ IsFiniteSet(DOMAIN f)
               /\ DOMAIN f \subseteq Nat \ {0}
               /\ \A k \in DOMAIN f : f[k] \in V

\* Type invariant: a session in memory is always Active or Suspended between
\* two calls of the compositor, never Creating or Destroyed.
TypeOK ==
  /\ IsMap(sessions, { s \in Session : Live(s) })
  /\ token_index = [t \in DOMAIN token_index |-> token_index[t]]
  /\ DOMAIN token_index \subseteq Tokens
  /\ \A t \in DOMAIN token_index : token_index[t] \in Nat \ {0}
  /\ next_id \in Nat \ {0}
  /\ store \in {"sqlite", "null"}
  /\ ops \in Seq(Op)
  /\ IsMap(db, Row)
  /\ restarts \in Nat /\ failures \in Nat

\* The token index is exactly the inverse of the sessions' tokens: a returning
\* client's token always finds its one session, through any sequence of
\* expiries, crashes and restores, as long as no database operation failed.
TokenIndexExact ==
  failures = 0 =>
    /\ \A id \in DOMAIN sessions : /\ sessions[id].token \in DOMAIN token_index
                                   /\ token_index[sessions[id].token] = id
    /\ \A t \in DOMAIN token_index : /\ token_index[t] \in DOMAIN sessions
                                     /\ sessions[token_index[t]].token = t

\* At every instant, and so at every point a crash can hit, the table holds at
\* most one row per token: a restore is never ambiguous.
RowsUniquePerToken ==
  failures = 0 => \A i, j \in DOMAIN db : db[i].token = db[j].token => i = j

\* Once the writer has caught up, the table is the persisted image of memory:
\* a crash then loses no session, user or timeout.
DrainedStoreMirrorsMemory ==
  (failures = 0 /\ store = "sqlite" /\ ops = <<>>) =>
    db = [id \in DOMAIN sessions |-> record_of(sessions[id])]

\* An id is never handed out while a session or a row in the table (or on its
\* way to it) still carries it: nothing stored is overwritten by a fresh session.
NextIdFresh ==
  failures = 0 =>
    /\ \A id \in DOMAIN sessions \cup DOMAIN db : id < next_id
    /\ \A k \in 1..Len(ops) : ops[k].id < next_id

\* A suspended session nobody comes back for is eventually reclaimed by the
\* sweep: it does not stay suspended for ever, restarts included.
SuspendedIsReclaimed ==
  \A id \in 1..MaxId :
    (id \in DOMAIN sessions /\ sessions[id].state = "suspended")
      ~> ~(id \in DOMAIN sessions /\ sessions[id].state = "suspended")
=============================================================================
