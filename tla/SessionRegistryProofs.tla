------------------------ MODULE SessionRegistryProofs ------------------------
(***************************************************************************)
(* Proofs about the session registry and its store, for any number of      *)
(* tokens, users and sessions, any queue length and any number of restarts.*)
(*                                                                         *)
(* IInv, the inductive invariant, says how the table, the writer's queue   *)
(* and memory fit together at every instant.                               *)
(***************************************************************************)
EXTENDS SessionRegistry, FiniteSetTheorems, SequenceTheorems, TLAPS

\* A row that is in the table, or on its way to it, and whose session is gone
\* has its deletion queued behind it.
DeadAreDeleted ==
  /\ \A k \in 1..Len(ops) : (ops[k].op = "save" /\ ops[k].id \notin DOMAIN sessions) =>
       \E m \in k+1..Len(ops) : ops[m] = Delete(ops[k].id)
  /\ \A id \in DOMAIN db \ DOMAIN sessions : \E m \in 1..Len(ops) : ops[m] = Delete(id)

\* No deletion of a session in memory is queued.
LiveNotDeleted ==
  \A k \in 1..Len(ops) : ops[k].op = "delete" => ops[k].id \notin DOMAIN sessions

\* The last thing queued for a session in memory is its present image; if
\* nothing is queued, that image is in the table.
LiveIsSaved ==
  store = "sqlite" => \A id \in DOMAIN sessions :
    \/ \E k \in 1..Len(ops) : /\ ops[k] = Save(id, sessions[id])
                              /\ \A m \in k+1..Len(ops) : ops[m].id # id
    \/ /\ \A m \in 1..Len(ops) : ops[m].id # id
       /\ id \in DOMAIN db /\ db[id] = record_of(sessions[id])

\* A session keeps its token: its row and its queued images carry it.
TokenKept ==
  \A id \in DOMAIN sessions :
    /\ id \in DOMAIN db => db[id].token = sessions[id].token
    /\ \A k \in 1..Len(ops) : (ops[k].op = "save" /\ ops[k].id = id) =>
         ops[k].row.token = sessions[id].token

\* When a row is written, no other row carries its token any more.
WritesDisjoint ==
  \A k \in 1..Len(ops) : ops[k].op = "save" =>
    /\ \A i \in DOMAIN db : (i # ops[k].id /\ db[i].token = ops[k].row.token) =>
         \E m \in 1..k-1 : ops[m] = Delete(i)
    /\ \A n \in 1..k-1 :
         (ops[n].op = "save" /\ ops[n].id # ops[k].id /\ ops[n].row.token = ops[k].row.token) =>
         \E m \in n+1..k-1 : ops[m] = Delete(ops[n].id)

\* Without a store nothing is queued and, short of a failure, nothing stored.
NullIsEmpty == store = "null" => ops = <<>> /\ DOMAIN db = {}

Consistent ==
  /\ DeadAreDeleted /\ LiveNotDeleted /\ LiveIsSaved /\ TokenKept
  /\ WritesDisjoint /\ NullIsEmpty

IInv == /\ TypeOK
        /\ TokenIndexExact /\ RowsUniquePerToken /\ NextIdFresh
        /\ failures = 0 => Consistent

-----------------------------------------------------------------------------
(***************************************************************************)
(* Lemmas about the operators.                                             *)
(***************************************************************************)

\* Inserting into a map (HashMap::insert, the upsert) gives a map.
LEMMA PutMap ==
  ASSUME NEW V, NEW f, IsMap(f, V), NEW k \in Nat \ {0}, NEW v \in V
  PROVE  IsMap(Put(f, k, v), V)
  <1>1. DOMAIN Put(f, k, v) = DOMAIN f \cup {k}
    BY DEF Put
  <1>2. IsFiniteSet(DOMAIN f \cup {k})
    BY FS_AddElement DEF IsMap
  <1> QED
    BY <1>1, <1>2 DEF IsMap, Put

\* Removing keys from a map (HashMap::retain, the delete) gives a map.
LEMMA WithoutMap ==
  ASSUME NEW V, NEW f, IsMap(f, V), NEW S
  PROVE  IsMap(Without(f, S), V)
  <1>1. DOMAIN Without(f, S) = DOMAIN f \ S
    BY DEF Without
  <1>2. IsFiniteSet(DOMAIN f \ S)
    BY FS_Subset, DOMAIN f \ S \in SUBSET DOMAIN f DEF IsMap
  <1> QED
    BY <1>1, <1>2 DEF IsMap, Without

\* An enumeration of a finite set lists each of its elements exactly once.
LEMMA EnumerationLists ==
  ASSUME NEW S, IsFiniteSet(S), NEW e \in Enumerations(S)
  PROVE  /\ Cardinality(S) \in Nat
         /\ DOMAIN e = 1..Cardinality(S)
         /\ e \in Seq(S)
         /\ \A i \in DOMAIN e : e[i] \in S
         /\ \A x \in S : \E i \in DOMAIN e : e[i] = x
         /\ \A i, j \in DOMAIN e : e[i] = e[j] => i = j
  <1> DEFINE n == Cardinality(S)
  <1>1. n \in Nat
    BY FS_CardinalityType
  <1>2. e \in [1..n -> S] /\ \A x \in S : \E i \in DOMAIN e : e[i] = x
    BY DEF Enumerations
  <1>3. e \in Seq(S)
    BY <1>1, <1>2
  <1>4. IsFiniteSet(1..n) /\ Cardinality(1..n) = n
    BY <1>1, FS_Interval
  <1>5. e \in Surjection(1..n, S)
    BY <1>2 DEF Surjection
  <1>6. e \in Injection(1..n, S)
    BY <1>4, <1>5, FS_SurjSameCardinalityImpliesInj
  <1>7. \A i, j \in 1..n : e[i] = e[j] => i = j
    BY <1>6 DEF Injection, IsInjective
  <1> QED
    BY <1>1, <1>2, <1>3, <1>7

\* A finite non-empty set of numbers has a greatest element: no infinite chain
\* of ever smaller sets { k \in S : k > m } exists.
LEMMA GreatestExists ==
  ASSUME NEW S, S \subseteq Nat, IsFiniteSet(S), S # {}
  PROVE  \E m \in S : \A k \in S : k <= m
  <1> DEFINE Above(m) == { k \in S : k > m }
             T == { Above(m) : m \in S }
  <1>1. T \subseteq FiniteSubsetsOf(S)
    <2>1. \A m \in S : Above(m) \in SUBSET S
      OBVIOUS
    <2>2. \A m \in S : IsFiniteSet(Above(m))
      BY <2>1, FS_Subset
    <2> QED
      BY <2>1, <2>2 DEF FiniteSubsetsOf
  <1>2. T # {}
    OBVIOUS
  <1>3. PICK A \in T : \A B \in T : ~ (<<B, A>> \in StrictSubsetOrdering(S))
    BY <1>1, <1>2, FS_StrictSubsetOrderingWellFounded, WFMin
  <1>4. PICK m \in S : A = Above(m)
    BY <1>3
  <1>5. SUFFICES ASSUME NEW k \in S, k > m PROVE FALSE
    BY <1>4
  <1>6. Above(k) \subseteq Above(m) /\ Above(k) # Above(m)
    <2>1. \A x \in S : x > k => x > m
      BY <1>5
    <2>2. k \in Above(m) /\ k \notin Above(k)
      BY <1>5
    <2> QED
      BY <2>1, <2>2
  <1>7. <<Above(k), A>> \in StrictSubsetOrdering(S)
    BY <1>4, <1>6 DEF StrictSubsetOrdering
  <1> QED
    BY <1>3, <1>5, <1>7

\* After a restore the next id lies beyond every row seen.
LEMMA NextIdBeyond ==
  ASSUME NEW S, S \subseteq Nat \ {0}, IsFiniteSet(S)
  PROVE  NextIdAfter(S) \in Nat \ {0} /\ \A id \in S : id < NextIdAfter(S)
  <1>1. CASE S = {}
    BY <1>1 DEF NextIdAfter
  <1>2. CASE S # {}
    <2> DEFINE P(m) == \A k \in S : k <= m
    <2>1. \E m \in S : P(m)
      BY <1>2, GreatestExists
    <2>2. (CHOOSE m \in S : P(m)) \in S /\ P(CHOOSE m \in S : P(m))
      BY <2>1
    <2>3. NextIdAfter(S) = 1 + CHOOSE m \in S : P(m)
      BY <1>2 DEF NextIdAfter
    <2>4. PICK g \in S : g = (CHOOSE m \in S : P(m)) /\ P(g)
      BY <2>2
    <2>5. NextIdAfter(S) = 1 + g
      BY <2>3, <2>4
    <2>6. g \in Nat \ {0} /\ \A k \in S : k \in Nat /\ k <= g
      BY <2>4
    <2>7. 1 + g \in Nat \ {0} /\ \A k \in S : k < 1 + g
      BY <2>6
    <2> QED
      BY <2>5, <2>7
  <1> QED
    BY <1>1, <1>2

\* The empty map.
LEMMA EmptyMap ==
  ASSUME NEW V
  PROVE  IsMap(<<>>, V) /\ DOMAIN <<>> = {}
  <1>1. DOMAIN <<>> = {}
    OBVIOUS
  <1>2. IsFiniteSet({})
    BY FS_EmptySet
  <1>3. <<>> = [k \in DOMAIN <<>> |-> <<>>[k]]
    BY <1>1
  <1> QED
    BY <1>1, <1>2, <1>3 DEF IsMap

LiveSession == { s \in Session : Live(s) }

\* What is queued for a well-typed session is a well-typed operation.
LEMMA OpsTyped ==
  ASSUME NEW id \in Nat \ {0}
  PROVE  /\ \A s \in Session : Save(id, s) \in Op
         /\ Delete(id) \in Op
  BY DEF Save, Delete, Op, record_of, Session, Row

\* Queueing well-typed operations (the writer's channel) keeps the queue well typed.
LEMMA QueueTyped ==
  ASSUME ops \in Seq(Op), NEW batch \in Seq(Op), Queue(batch)
  PROVE  ops' \in Seq(Op)
  BY DEF Queue

-----------------------------------------------------------------------------
(***************************************************************************)
(* Type correctness.                                                       *)
(***************************************************************************)
\* The first start is well typed.
LEMMA InitTypeOK == Init => TypeOK
  <1> SUFFICES ASSUME Init PROVE TypeOK
    OBVIOUS
  <1>1. IsMap(sessions, LiveSession) /\ IsMap(db, Row)
    BY EmptyMap DEF Init
  <1>2. DOMAIN token_index = {} /\ token_index = [t \in DOMAIN token_index |-> token_index[t]]
    BY EmptyMap DEF Init, IsMap
  <1> QED
    BY <1>1, <1>2 DEF Init, TypeOK, LiveSession

\* A session of memory is replaced by another and its image queued.
LEMMA ReplaceTypeOK ==
  ASSUME TypeOK, NEW id \in DOMAIN sessions, NEW s \in LiveSession,
         sessions' = Put(sessions, id, s), Queue(<<Save(id, s)>>),
         UNCHANGED <<token_index, next_id, store, db, restarts, failures>>
  PROVE  TypeOK'
  <1>1. id \in Nat \ {0} /\ IsMap(sessions, LiveSession)
    BY DEF TypeOK, IsMap, LiveSession
  <1>2. IsMap(sessions', LiveSession)
    BY <1>1, PutMap
  <1>3. <<Save(id, s)>> \in Seq(Op)
    BY <1>1, OpsTyped DEF LiveSession
  <1>4. ops' \in Seq(Op)
    BY <1>3, QueueTyped DEF TypeOK
  <1> QED
    BY <1>2, <1>4 DEF TypeOK, LiveSession

\* Session::transition and the updates keep a session well typed and live.
LEMMA SessionTyped ==
  ASSUME NEW s \in LiveSession
  PROVE  /\ \A st \in {"active", "suspended"} :
              Transitioned(s, st) \in LiveSession /\ Transitioned(s, st).token = s.token
         /\ \A u \in Users : [s EXCEPT !.user = u] \in LiveSession
         /\ \A d \in Timeouts : [s EXCEPT !.timeout = d] \in LiveSession
  <1>1. 0 \in 0..MaxAge
    BY RegistryAssumption
  <1>2. s \in Session /\ Live(s)
    BY DEF LiveSession
  <1>3. ASSUME NEW st \in {"active", "suspended"}
        PROVE  Transitioned(s, st) \in LiveSession /\ Transitioned(s, st).token = s.token
    BY <1>1, <1>2 DEF LiveSession, Session, Transitioned, Live, SessionStates
  <1>4. ASSUME NEW u \in Users PROVE [s EXCEPT !.user = u] \in LiveSession
    BY <1>2 DEF LiveSession, Session, Live
  <1>5. ASSUME NEW d \in Timeouts PROVE [s EXCEPT !.timeout = d] \in LiveSession
    BY <1>2 DEF LiveSession, Session, Live
  <1> QED
    BY <1>3, <1>4, <1>5

\* A session fresh from Session::new, and activated, is well typed.
LEMMA NewTyped ==
  ASSUME NEW t \in Tokens
  PROVE  /\ NewSession(t) \in Session /\ NewSession(t).token = t
         /\ Transitioned(NewSession(t), "active") \in LiveSession
         /\ Transitioned(NewSession(t), "active").token = t
  <1>1. 0 \in 0..MaxAge /\ DefaultTimeout \in Timeouts
    BY RegistryAssumption
  <1>2. NewSession(t) \in Session /\ NewSession(t).token = t
    BY <1>1 DEF NewSession, Session, SessionStates
  <1>3. /\ Transitioned(NewSession(t), "active") \in Session
        /\ Transitioned(NewSession(t), "active").token = t
        /\ Transitioned(NewSession(t), "active").state = "active"
    BY <1>1, <1>2 DEF Session, Transitioned, SessionStates
  <1> QED
    BY <1>2, <1>3 DEF LiveSession, Live

\* A session rebuilt from a row by restore_persisted is well typed.
LEMMA RestoredTyped ==
  ASSUME NEW r \in Row
  PROVE  Restored(r) \in LiveSession /\ Restored(r).token = r.token
  BY RegistryAssumption DEF Restored, Row, LiveSession, Session, Live, SessionStates

\* create_session and activate keep the state well typed.
LEMMA CreateTypeOK == ASSUME TypeOK, NEW t \in Tokens, CreateSession(t) PROVE TypeOK'
  <1> DEFINE new == NewSession(t)
             act == Transitioned(new, "active")
  <1>1. new \in Session /\ act \in LiveSession
    BY NewTyped
  <1>2. IsMap(sessions', LiveSession)
    BY <1>1, PutMap DEF CreateSession, TypeOK, LiveSession
  <1>3. <<Save(next_id, new), Save(next_id, act)>> \in Seq(Op)
    BY <1>1, OpsTyped DEF TypeOK, LiveSession
  <1>4. ops' \in Seq(Op)
    BY <1>3, QueueTyped DEF TypeOK, CreateSession
  <1>5. /\ token_index' = [x \in DOMAIN token_index' |-> token_index'[x]]
        /\ DOMAIN token_index' \subseteq Tokens
        /\ \A x \in DOMAIN token_index' : token_index'[x] \in Nat \ {0}
    BY DEF CreateSession, TypeOK, Put
  <1>6. next_id' \in Nat \ {0} /\ UNCHANGED <<store, db, restarts, failures>>
    BY DEF CreateSession, TypeOK
  <1> QED
    BY <1>2, <1>4, <1>5, <1>6 DEF TypeOK, LiveSession

\* cleanup_expired and purge_destroyed keep the state well typed.
LEMMA CleanupTypeOK == ASSUME TypeOK, CleanupExpired PROVE TypeOK'
  <1>1. IsMap(sessions', LiveSession)
    BY WithoutMap DEF CleanupExpired, TypeOK, LiveSession
  <1>2. PICK e \in Enumerations(Expired) : Queue([i \in DOMAIN e |-> Delete(e[i])])
    BY DEF CleanupExpired
  <1>3. IsFiniteSet(Expired) /\ Expired \subseteq Nat \ {0}
    BY FS_Subset, Expired \in SUBSET DOMAIN sessions DEF Expired, TypeOK, IsMap
  <1>4. /\ DOMAIN e = 1..Cardinality(Expired) /\ Cardinality(Expired) \in Nat
        /\ \A i \in DOMAIN e : e[i] \in Nat \ {0}
    BY <1>3, EnumerationLists
  <1>5. [i \in DOMAIN e |-> Delete(e[i])] \in Seq(Op)
    BY <1>4, OpsTyped
  <1>6. ops' \in Seq(Op)
    BY <1>2, <1>5, QueueTyped DEF TypeOK
  <1>7. /\ token_index' = [x \in DOMAIN token_index' |-> token_index'[x]]
        /\ DOMAIN token_index' \subseteq Tokens
        /\ \A x \in DOMAIN token_index' : token_index'[x] \in Nat \ {0}
    BY DEF CleanupExpired, TypeOK, Unindexed, Without
  <1> QED
    BY <1>1, <1>6, <1>7 DEF CleanupExpired, TypeOK, LiveSession

\* The passage of time keeps the state well typed.
LEMMA TickTypeOK == ASSUME TypeOK, Tick PROVE TypeOK'
  <1>1. IsMap(sessions, LiveSession)
    BY DEF TypeOK, LiveSession
  <1>2. ASSUME NEW id \in DOMAIN sessions, sessions[id].age < MaxAge
        PROVE  [sessions[id] EXCEPT !.age = @ + 1] \in LiveSession
    BY <1>1, <1>2, RegistryAssumption DEF IsMap, LiveSession, Session, Live
  <1>3. /\ DOMAIN sessions' = DOMAIN sessions
        /\ sessions' = [id \in DOMAIN sessions' |-> sessions'[id]]
        /\ \A id \in DOMAIN sessions' : sessions'[id] \in LiveSession
    BY <1>1, <1>2 DEF Tick, IsMap
  <1>4. IsMap(sessions', LiveSession)
    BY <1>1, <1>3 DEF IsMap
  <1> QED
    BY <1>4 DEF Tick, TypeOK, LiveSession

\* A step of the writer task, failed or not, keeps the state well typed.
LEMMA WriterTypeOK == ASSUME TypeOK, WriterApply \/ WriterFail PROVE TypeOK'
  <1>1. Head(ops) \in Op /\ ops' \in Seq(Op)
    <2>1. ops \in Seq(Op) /\ ops # <<>> /\ ops' = Tail(ops)
      BY DEF WriterApply, WriterFail, TypeOK
    <2> QED
      BY <2>1, HeadTailProperties
  <1>2. /\ Head(ops).id \in Nat \ {0}
        /\ Head(ops).op = "save" => Head(ops).row \in Row
    BY <1>1 DEF Op
  <1>3. IsMap(db', Row)
    <2>1. CASE WriterApply
      BY <2>1, <1>2, PutMap, WithoutMap DEF WriterApply, TypeOK
    <2>2. CASE WriterFail
      BY <2>2 DEF WriterFail, TypeOK
    <2> QED
      BY <2>1, <2>2
  <1> QED
    BY <1>1, <1>3 DEF WriterApply, WriterFail, TypeOK

\* What a restore finds in the rows, and the operations it queues.
LEMMA RestoreFacts ==
  ASSUME TypeOK, NEW e \in Enumerations(DOMAIN db)
  PROVE  /\ Cardinality(DOMAIN db) \in Nat /\ DOMAIN e = 1..Cardinality(DOMAIN db)
         /\ \A i \in DOMAIN e : e[i] \in DOMAIN db /\ e[i] \in Nat \ {0}
         /\ \A id \in DOMAIN db : \E i \in DOMAIN e : e[i] = id
         /\ \A i, j \in DOMAIN e : e[i] = e[j] => i = j
         /\ \A id \in DOMAIN db : /\ Restored(db[id]) \in LiveSession
                                  /\ Restored(db[id]).token = db[id].token
         /\ [i \in DOMAIN e |-> RestoreOp(e[i])] \in Seq(Op)
  <1>1. IsMap(db, Row)
    BY DEF TypeOK
  <1>2. /\ Cardinality(DOMAIN db) \in Nat /\ DOMAIN e = 1..Cardinality(DOMAIN db)
        /\ \A i \in DOMAIN e : e[i] \in DOMAIN db
        /\ \A id \in DOMAIN db : \E i \in DOMAIN e : e[i] = id
        /\ \A i, j \in DOMAIN e : e[i] = e[j] => i = j
    BY <1>1, EnumerationLists DEF IsMap
  <1>3. \A id \in DOMAIN db : /\ Restored(db[id]) \in LiveSession
                              /\ Restored(db[id]).token = db[id].token
    BY <1>1, RestoredTyped DEF IsMap
  <1>4. \A i \in DOMAIN e : RestoreOp(e[i]) \in Op
    BY <1>1, <1>2, <1>3, OpsTyped DEF RestoreOp, IsMap, LiveSession
  <1>5. [i \in DOMAIN e |-> RestoreOp(e[i])] \in Seq(Op)
    BY <1>2, <1>4
  <1> QED
    BY <1>1, <1>2, <1>3, <1>5 DEF IsMap

\* The index a restore builds: one entry per token of a resumable row.
LEMMA IndexFacts ==
  ASSUME TypeOK, NEW e \in Enumerations(DOMAIN db)
  PROVE  /\ DOMAIN IndexAfter(e) = { db[id].token : id \in Resumable(db) }
         /\ IndexAfter(e) = [t \in DOMAIN IndexAfter(e) |-> IndexAfter(e)[t]]
         /\ \A t \in DOMAIN IndexAfter(e) : /\ IndexAfter(e)[t] \in Resumable(db)
                                            /\ db[IndexAfter(e)[t]].token = t
  <1> DEFINE last(t) == { i \in DOMAIN e : Live(db[e[i]]) /\ db[e[i]].token = t }
             top(t)  == CHOOSE i \in last(t) : \A j \in last(t) : j <= i
  <1>1. IndexAfter(e) = [t \in { db[id].token : id \in Resumable(db) } |-> e[top(t)]]
    BY DEF IndexAfter
  <1>2. ASSUME NEW t \in { db[id].token : id \in Resumable(db) }
        PROVE  top(t) \in last(t)
    <2>1. PICK id \in Resumable(db) : db[id].token = t
      BY <1>2
    <2>2. PICK i \in DOMAIN e : e[i] = id
      BY <2>1, RestoreFacts DEF Resumable
    <2>3. i \in last(t)
      BY <2>1, <2>2 DEF Resumable
    <2>4. PICK n \in Nat : DOMAIN e = 1..n
      BY RestoreFacts
    <2>5. last(t) \in SUBSET (1..n) /\ last(t) \subseteq Nat /\ IsFiniteSet(last(t))
      <3>1. last(t) \in SUBSET (1..n) /\ last(t) \subseteq Nat
        BY <2>4
      <3>2. IsFiniteSet(1..n)
        BY FS_Interval
      <3> QED
        BY <3>1, <3>2, FS_Subset
    <2>6. \E g \in last(t) : \A j \in last(t) : j <= g
      BY <2>3, <2>5, GreatestExists
    <2> QED
      BY <2>6
  <1>3. \A t \in { db[id].token : id \in Resumable(db) } :
           e[top(t)] \in Resumable(db) /\ db[e[top(t)]].token = t
    BY <1>2, RestoreFacts DEF Resumable
  <1> HIDE DEF top
  <1> QED
    BY <1>1, <1>3

\* A restart that restores from the table keeps the state well typed.
LEMMA RestartTypeOK == ASSUME TypeOK, Restart PROVE TypeOK'
  <1>1. PICK e \in Enumerations(DOMAIN db) :
          /\ token_index' = IndexAfter(e)
          /\ ops' = [i \in DOMAIN e |-> RestoreOp(e[i])]
    BY DEF Restart
  <1>2. ops' \in Seq(Op)
    BY <1>1, RestoreFacts
  <1>3. IsMap(db, Row)
    BY DEF TypeOK
  <1>4. IsFiniteSet(Resumable(db))
    BY <1>3, FS_Subset, Resumable(db) \in SUBSET DOMAIN db DEF Resumable, IsMap
  <1>5. IsMap(sessions', LiveSession)
    BY <1>3, <1>4, RestoreFacts DEF Restart, IsMap, Resumable
  <1>6. next_id' \in Nat \ {0}
    BY <1>3, NextIdBeyond DEF Restart, IsMap
  <1>7. /\ token_index' = [x \in DOMAIN token_index' |-> token_index'[x]]
        /\ DOMAIN token_index' \subseteq Tokens
        /\ \A x \in DOMAIN token_index' : token_index'[x] \in Nat \ {0}
    <2>1. \A id \in Resumable(db) : id \in Nat \ {0} /\ db[id].token \in Tokens
      BY <1>3 DEF IsMap, Row, Resumable
    <2> QED
      BY <1>1, <2>1, IndexFacts
  <1> QED
    BY <1>2, <1>5, <1>6, <1>7 DEF Restart, TypeOK, LiveSession

\* A restart that could not read the database keeps the state well typed.
LEMMA UnloadedTypeOK == ASSUME TypeOK, RestartUnloaded PROVE TypeOK'
  <1>1. IsMap(sessions', LiveSession) /\ DOMAIN token_index' = {}
    BY EmptyMap DEF RestartUnloaded
  <1>2. token_index' = [x \in DOMAIN token_index' |-> token_index'[x]]
    BY EmptyMap DEF RestartUnloaded, IsMap
  <1> QED
    BY <1>1, <1>2 DEF RestartUnloaded, TypeOK, LiveSession

\* Suspend, Resume, set_user and set_suspend_timeout all replace a session of
\* memory by one with the same token and queue its image.
Replaces(id, s) ==
  /\ id \in DOMAIN sessions /\ s \in LiveSession /\ s.token = sessions[id].token
  /\ sessions' = Put(sessions, id, s)
  /\ Queue(<<Save(id, s)>>)
  /\ UNCHANGED <<token_index, next_id, store, db, restarts, failures>>

\* activate, suspend, set_user and set_suspend_timeout all replace one session
\* by a live one with the same token, and queue its image.
LEMMA CallsReplace ==
  ASSUME TypeOK
  PROVE  /\ \A t \in Tokens : Resume(t) => \E id, s : Replaces(id, s)
         /\ \A id \in DOMAIN sessions :
              /\ Suspend(id) => \E s : Replaces(id, s)
              /\ \A u \in Users : SetUser(id, u) => \E s : Replaces(id, s)
              /\ \A d \in Timeouts : SetSuspendTimeout(id, d) => \E s : Replaces(id, s)
  <1>1. \A id \in DOMAIN sessions : sessions[id] \in LiveSession
    BY DEF TypeOK, IsMap, LiveSession
  <1>2. ASSUME NEW id, NEW st \in {"active", "suspended"}, MoveTo(id, st)
        PROVE  Replaces(id, Transitioned(sessions[id], st))
    BY <1>1, <1>2, SessionTyped DEF MoveTo, Replaces
  <1>3. ASSUME NEW t \in Tokens, Resume(t) PROVE \E id, s : Replaces(id, s)
    BY <1>2, <1>3 DEF Resume
  <1>4. ASSUME NEW id \in DOMAIN sessions, Suspend(id) PROVE \E s : Replaces(id, s)
    BY <1>2, <1>4 DEF Suspend
  <1>5. ASSUME NEW id \in DOMAIN sessions, NEW u \in Users, SetUser(id, u)
        PROVE  \E s : Replaces(id, s)
    <2>1. [sessions[id] EXCEPT !.user = u].token = sessions[id].token
      BY <1>1 DEF LiveSession, Session
    <2>2. Replaces(id, [sessions[id] EXCEPT !.user = u])
      BY <1>1, <1>5, <2>1, SessionTyped DEF SetUser, Update, Replaces
    <2> QED
      BY <2>2
  <1>6. ASSUME NEW id \in DOMAIN sessions, NEW d \in Timeouts, SetSuspendTimeout(id, d)
        PROVE  \E s : Replaces(id, s)
    <2>1. [sessions[id] EXCEPT !.timeout = d].token = sessions[id].token
      BY <1>1 DEF LiveSession, Session
    <2>2. Replaces(id, [sessions[id] EXCEPT !.timeout = d])
      BY <1>1, <1>6, <2>1, SessionTyped DEF SetSuspendTimeout, Update, Replaces
    <2> QED
      BY <2>2
  <1> QED
    BY <1>3, <1>4, <1>5, <1>6

\* The next-state relation, with the four kinds of update as one.
LEMMA NextCases ==
  ASSUME TypeOK, Next
  PROVE  \/ \E t \in Tokens : CreateSession(t)
         \/ \E id, s : Replaces(id, s)
         \/ CleanupExpired \/ Tick \/ WriterApply \/ WriterFail
         \/ Restart \/ RestartUnloaded
  BY CallsReplace DEF Next

\* Every step of the registry, the writer and the process keeps TypeOK.
LEMMA TypeStep == TypeOK /\ [Next]_vars => TypeOK'
  <1> SUFFICES ASSUME TypeOK, [Next]_vars PROVE TypeOK'
    OBVIOUS
  <1>1. CASE UNCHANGED vars
    BY <1>1 DEF vars, TypeOK
  <1>2. CASE Next
    <2>1. ASSUME NEW id, NEW s, Replaces(id, s) PROVE TypeOK'
      BY <2>1, ReplaceTypeOK DEF Replaces
    <2> QED
      BY <1>2, <2>1, NextCases, CreateTypeOK, CleanupTypeOK, TickTypeOK, WriterTypeOK,
         RestartTypeOK, UnloadedTypeOK
  <1> QED
    BY <1>1, <1>2

\* Every reachable state is well typed: between two calls of the compositor a
\* session in memory is Active or Suspended, never Creating or Destroyed.
THEOREM TypeCorrect == Spec => []TypeOK
  BY InitTypeOK, TypeStep, PTL DEF Spec

-----------------------------------------------------------------------------
(***************************************************************************)
(* The inductive invariant.                                                *)
(***************************************************************************)

\* Queueing appends the batch and leaves what was queued in place.
LEMMA QueueAppends ==
  ASSUME ops \in Seq(Op), NEW batch \in Seq(Op), Queue(batch), store = "sqlite"
  PROVE  /\ Len(ops) \in Nat /\ Len(batch) \in Nat
         /\ Len(ops') = Len(ops) + Len(batch)
         /\ \A k \in 1..Len(ops) : ops'[k] = ops[k]
         /\ \A k \in 1..Len(batch) : ops'[Len(ops) + k] = batch[k]
         /\ \A k \in Len(ops)+1..Len(ops') : \E i \in 1..Len(batch) : ops'[k] = batch[i]
  <1>1. Len(ops) \in Nat /\ Len(batch) \in Nat /\ ops' = ops \o batch
    BY LenProperties DEF Queue
  <1>2. /\ Len(ops') = Len(ops) + Len(batch)
        /\ \A i \in 1..Len(ops) + Len(batch) :
             ops'[i] = IF i <= Len(ops) THEN ops[i] ELSE batch[i - Len(ops)]
    BY <1>1, ConcatProperties
  <1>3. \A k \in 1..Len(ops) : ops'[k] = ops[k]
    BY <1>1, <1>2
  <1>4. \A k \in 1..Len(batch) : ops'[Len(ops) + k] = batch[k]
    BY <1>1, <1>2
  <1>5. ASSUME NEW k \in Len(ops)+1..Len(ops')
        PROVE  \E i \in 1..Len(batch) : ops'[k] = batch[i]
    <2>1. k - Len(ops) \in 1..Len(batch) /\ ops'[k] = batch[k - Len(ops)]
      BY <1>1, <1>2
    <2> QED
      BY <2>1
  <1> QED
    BY <1>1, <1>2, <1>3, <1>4, <1>5

\* Images of one session appended to the queue, the last one the present one,
\* when no other session in memory has its token.
LEMMA SavesKeepConsistent ==
  ASSUME TypeOK, Consistent,
         NEW j, NEW s \in LiveSession, NEW batch \in Seq(Op), Len(batch) > 0,
         sessions' = Put(sessions, j, s), Queue(batch), UNCHANGED <<store, db>>,
         \A i \in 1..Len(batch) :
           batch[i].op = "save" /\ batch[i].id = j /\ batch[i].row.token = s.token,
         batch[Len(batch)] = Save(j, s),
         \A i \in DOMAIN sessions : i # j => sessions[i].token # s.token,
         j \in DOMAIN sessions => sessions[j].token = s.token,
         j \notin DOMAIN sessions =>
           j \notin DOMAIN db /\ \A k \in 1..Len(ops) : ops[k].id # j
  PROVE  Consistent'
  <1> DEFINE n == Len(ops)
             b == Len(batch)
  <1>1. /\ DOMAIN sessions' = DOMAIN sessions \cup {j}
        /\ sessions'[j] = s
        /\ \A i \in DOMAIN sessions : i # j => sessions'[i] = sessions[i]
    BY DEF Put
  <1>2. CASE store = "null"
    <2>1. ops' = <<>> /\ DOMAIN db' = {} /\ store' = "null" /\ Len(ops') = 0
      BY <1>2 DEF Consistent, NullIsEmpty, Queue
    <2>2. 1..Len(ops') = {}
      BY <2>1
    <2> QED
      BY <2>1, <2>2 DEF Consistent, DeadAreDeleted, LiveNotDeleted, LiveIsSaved, TokenKept,
                        WritesDisjoint, NullIsEmpty
  <1>3. CASE store = "sqlite"
    <2>1. /\ n \in Nat /\ b \in Nat /\ Len(ops') = n + b
          /\ \A k \in 1..n : ops'[k] = ops[k]
          /\ ops'[n + b] = Save(j, s)
          /\ \A k \in n+1..n+b : /\ ops'[k].op = "save" /\ ops'[k].id = j
                                 /\ ops'[k].row.token = s.token
      <3>1. /\ n \in Nat /\ b \in Nat /\ Len(ops') = n + b
            /\ \A k \in 1..n : ops'[k] = ops[k]
            /\ \A k \in 1..b : ops'[n + k] = batch[k]
            /\ \A k \in n+1..Len(ops') : \E i \in 1..b : ops'[k] = batch[i]
        BY <1>3, QueueAppends DEF TypeOK
      <3>2. ops'[n + b] = Save(j, s)
        <4>1. b \in 1..b /\ batch[b] = Save(j, s)
          BY <3>1
        <4>2. ops'[n + b] = batch[b]
          BY <3>1, <4>1
        <4> QED
          BY <4>1, <4>2
      <3>3. ASSUME NEW k \in n+1..n+b
            PROVE  ops'[k].op = "save" /\ ops'[k].id = j /\ ops'[k].row.token = s.token
        <4>1. PICK i \in 1..b : ops'[k] = batch[i]
          BY <3>1
        <4> QED
          BY <4>1
      <3> QED
        BY <3>1, <3>2, <3>3
    <2> HIDE DEF n, b
    <2>2. DeadAreDeleted'
      <3>1. ASSUME NEW k \in 1..n + b, ops'[k].op = "save", ops'[k].id \notin DOMAIN sessions'
            PROVE  \E m \in k+1..n + b : ops'[m] = Delete(ops'[k].id)
        <4>1. k \in 1..n /\ ops'[k] = ops[k]
          BY <3>1, <2>1, <1>1
        <4>2. PICK m \in k+1..n : ops[m] = Delete(ops[k].id)
          BY <4>1, <3>1, <1>1 DEF Consistent, DeadAreDeleted, n
        <4> QED
          BY <4>1, <4>2, <2>1
      <3>2. ASSUME NEW id \in DOMAIN db' \ DOMAIN sessions'
            PROVE  \E m \in 1..n + b : ops'[m] = Delete(id)
        <4>1. PICK m \in 1..n : ops[m] = Delete(id)
          BY <3>2, <1>1 DEF Consistent, DeadAreDeleted, n
        <4> QED
          BY <4>1, <2>1
      <3> QED
        BY <3>1, <3>2, <2>1 DEF DeadAreDeleted
    <2>3. LiveNotDeleted'
      <3>1. ASSUME NEW k \in 1..n + b, ops'[k].op = "delete"
            PROVE  ops'[k].id \notin DOMAIN sessions'
        <4>1. k \in 1..n /\ ops'[k] = ops[k]
          BY <3>1, <2>1
        <4> QED
          BY <4>1, <3>1, <1>1 DEF Consistent, LiveNotDeleted, n
      <3> QED
        BY <3>1, <2>1 DEF LiveNotDeleted
    <2>4. LiveIsSaved'
      <3>1. ASSUME NEW id \in DOMAIN sessions', id # j
            PROVE  \/ \E k \in 1..n + b : /\ ops'[k] = Save(id, sessions'[id])
                                          /\ \A m \in k+1..n + b : ops'[m].id # id
                   \/ /\ \A m \in 1..n + b : ops'[m].id # id
                      /\ id \in DOMAIN db' /\ db'[id] = record_of(sessions'[id])
        <4>1. id \in DOMAIN sessions /\ sessions'[id] = sessions[id]
          BY <3>1, <1>1
        <4>2. CASE \E k \in 1..n : /\ ops[k] = Save(id, sessions[id])
                                   /\ \A m \in k+1..n : ops[m].id # id
          <5>1. PICK k \in 1..n : /\ ops[k] = Save(id, sessions[id])
                                  /\ \A m \in k+1..n : ops[m].id # id
            BY <4>2
          <5>2. \A m \in k+1..n + b : ops'[m].id # id
            BY <5>1, <2>1, <3>1
          <5> QED
            BY <5>1, <5>2, <4>1, <2>1
        <4>3. CASE /\ \A m \in 1..n : ops[m].id # id
                   /\ id \in DOMAIN db /\ db[id] = record_of(sessions[id])
          <5>1. \A m \in 1..n + b : ops'[m].id # id
            BY <4>3, <2>1, <3>1
          <5> QED
            BY <5>1, <4>1, <4>3
        <4> QED
          BY <1>3, <4>1, <4>2, <4>3 DEF Consistent, LiveIsSaved, n
      <3>2. \E k \in 1..n + b : /\ ops'[k] = Save(j, sessions'[j])
                                /\ \A m \in k+1..n + b : ops'[m].id # j
        <4>1. n + b \in 1..n + b /\ (n + b) + 1..n + b = {}
          BY <2>1 DEF b
        <4> QED
          BY <4>1, <2>1, <1>1
      <3> QED
        BY <3>1, <3>2, <2>1 DEF LiveIsSaved
    <2>5. TokenKept'
      <3>1. ASSUME NEW id \in DOMAIN sessions', id \in DOMAIN db'
            PROVE  db'[id].token = sessions'[id].token
        BY <3>1, <1>1 DEF Consistent, TokenKept
      <3>2. ASSUME NEW id \in DOMAIN sessions', NEW k \in 1..n + b,
                   ops'[k].op = "save", ops'[k].id = id
            PROVE  ops'[k].row.token = sessions'[id].token
        <4>1. CASE k \in 1..n
          <5>1. /\ ops'[k] = ops[k] /\ ops[k].op = "save" /\ ops[k].id = id
                /\ k \in 1..Len(ops)
            BY <4>1, <3>2, <2>1 DEF n
          <5>2. id \in DOMAIN sessions
            BY <5>1, <3>2, <1>1
          <5>3. ops[k].row.token = sessions[id].token
            BY <5>1, <5>2 DEF Consistent, TokenKept
          <5>4. sessions'[id].token = sessions[id].token
            BY <5>2, <1>1
          <5> QED
            BY <5>1, <5>3, <5>4
        <4>2. CASE k \in n+1..n + b
          BY <4>2, <3>2, <2>1, <1>1
        <4> QED
          BY <4>1, <4>2, <2>1
      <3> QED
        BY <3>1, <3>2, <2>1 DEF TokenKept
    <2>6. WritesDisjoint'
      <3>1. ASSUME NEW k \in 1..n + b, ops'[k].op = "save", NEW i \in DOMAIN db',
                   i # ops'[k].id, db'[i].token = ops'[k].row.token
            PROVE  \E m \in 1..k-1 : ops'[m] = Delete(i)
        <4>1. CASE k \in 1..n
          <5>0. /\ k \in 1..Len(ops) /\ ops[k].op = "save" /\ i \in DOMAIN db
                /\ i # ops[k].id /\ db[i].token = ops[k].row.token
            BY <4>1, <3>1, <2>1 DEF n
          <5>1. PICK m \in 1..k-1 : ops[m] = Delete(i)
            BY <5>0 DEF Consistent, WritesDisjoint
          <5> QED
            BY <5>1, <4>1, <2>1
        <4>2. CASE k \in n+1..n + b
          <5>1. i # j /\ db[i].token = s.token /\ i \in DOMAIN db
            BY <4>2, <3>1, <2>1
          <5>2. i \notin DOMAIN sessions
            BY <5>1 DEF Consistent, TokenKept
          <5>3. PICK m \in 1..n : ops[m] = Delete(i)
            BY <5>1, <5>2 DEF Consistent, DeadAreDeleted, n
          <5> QED
            BY <5>3, <4>2, <2>1
        <4> QED
          BY <4>1, <4>2, <2>1
      <3>2. ASSUME NEW k \in 1..n + b, ops'[k].op = "save", NEW l \in 1..k-1, ops'[l].op = "save",
                   ops'[l].id # ops'[k].id, ops'[l].row.token = ops'[k].row.token
            PROVE  \E m \in l+1..k-1 : ops'[m] = Delete(ops'[l].id)
        <4>1. CASE k \in 1..n
          <5>1. l \in 1..n /\ ops'[l] = ops[l] /\ ops'[k] = ops[k]
            BY <4>1, <2>1
          <5>2. PICK m \in l+1..k-1 : ops[m] = Delete(ops[l].id)
            BY <4>1, <5>1, <3>2 DEF Consistent, WritesDisjoint, n
          <5>3. m \in 1..n /\ ops'[m] = ops[m]
            BY <5>1, <5>2, <4>1, <2>1
          <5> QED
            BY <5>1, <5>2, <5>3
        <4>2. CASE k \in n+1..n + b
          <5>1. l \in 1..n /\ ops'[l] = ops[l]
            BY <4>2, <3>2, <2>1
          <5>2. ops[l].id # j /\ ops[l].row.token = s.token /\ ops[l].op = "save"
            BY <4>2, <5>1, <3>2, <2>1
          <5>3. ops[l].id \notin DOMAIN sessions
            BY <5>1, <5>2 DEF Consistent, TokenKept, n
          <5>4. PICK m \in l+1..n : ops[m] = Delete(ops[l].id)
            BY <5>1, <5>2, <5>3 DEF Consistent, DeadAreDeleted, n
          <5> QED
            BY <5>1, <5>4, <4>2, <2>1
        <4> QED
          BY <4>1, <4>2, <2>1
      <3> QED
        BY <3>1, <3>2, <2>1 DEF WritesDisjoint
    <2>7. NullIsEmpty'
      BY <1>3 DEF NullIsEmpty
    <2> QED
      BY <2>2, <2>3, <2>4, <2>5, <2>6, <2>7 DEF Consistent
  <1> QED
    BY <1>2, <1>3 DEF TypeOK

\* A token with nothing to resume is in no session and not in the index.
LEMMA NotResumable ==
  ASSUME TypeOK, TokenIndexExact, failures = 0, NEW t, ~ is_resumable(t)
  PROVE  t \notin DOMAIN token_index /\ \A id \in DOMAIN sessions : sessions[id].token # t
  <1>1. \A id \in DOMAIN sessions : Live(sessions[id])
    BY DEF TypeOK, IsMap
  <1> QED
    BY <1>1 DEF TokenIndexExact, is_resumable

\* create_session and activate keep the inductive invariant: the token is in no
\* other session, and rows of earlier sessions with it have their deletion queued.
LEMMA CreateIInv ==
  ASSUME IInv, failures = 0, NEW t \in Tokens, CreateSession(t), TypeOK'
  PROVE  IInv'
  <1> DEFINE new == NewSession(t)
             act == Transitioned(new, "active")
             batch == <<Save(next_id, new), Save(next_id, act)>>
  <1>1. /\ TypeOK /\ TokenIndexExact /\ RowsUniquePerToken /\ NextIdFresh /\ Consistent
        /\ next_id \in Nat \ {0} /\ ops \in Seq(Op)
    BY DEF IInv, TypeOK
  <1>2. t \notin DOMAIN token_index /\ \A id \in DOMAIN sessions : sessions[id].token # t
    BY <1>1, NotResumable DEF CreateSession
  <1>3. /\ new \in Session /\ new.token = t /\ act \in LiveSession /\ act.token = t
    BY NewTyped
  <1>4. /\ next_id \notin DOMAIN sessions /\ next_id \notin DOMAIN db
        /\ \A k \in 1..Len(ops) : ops[k].id # next_id
    BY <1>1 DEF NextIdFresh
  <1>5. /\ sessions' = Put(sessions, next_id, act) /\ Queue(batch)
        /\ token_index' = Put(token_index, t, next_id)
        /\ next_id' = next_id + 1 /\ UNCHANGED <<store, db, restarts, failures>>
    BY DEF CreateSession
  <1> HIDE DEF new, act
  <1>6. /\ batch \in Seq(Op) /\ Len(batch) = 2
        /\ batch[1] = Save(next_id, new) /\ batch[2] = Save(next_id, act)
    BY <1>1, <1>3, OpsTyped DEF LiveSession
  <1>7. \A i \in 1..2 : /\ batch[i].op = "save" /\ batch[i].id = next_id
                        /\ batch[i].row.token = t
    BY <1>3, <1>6 DEF Save, record_of
  <1> HIDE DEF batch
  <1>8. Consistent'
    <2>1. /\ Len(batch) > 0 /\ batch[Len(batch)] = Save(next_id, act)
          /\ \A i \in 1..Len(batch) : /\ batch[i].op = "save" /\ batch[i].id = next_id
                                      /\ batch[i].row.token = act.token
      BY <1>3, <1>6, <1>7
    <2>2. /\ \A i \in DOMAIN sessions : i # next_id => sessions[i].token # act.token
          /\ next_id \in DOMAIN sessions => sessions[next_id].token = act.token
          /\ next_id \notin DOMAIN sessions =>
               next_id \notin DOMAIN db /\ \A k \in 1..Len(ops) : ops[k].id # next_id
      BY <1>2, <1>3, <1>4
    <2>3. act \in LiveSession /\ batch \in Seq(Op) /\ UNCHANGED <<store, db>>
      BY <1>3, <1>5, <1>6
    <2> QED
      BY <2>1, <2>2, <2>3, <1>1, <1>5, SavesKeepConsistent
  <1>9. TokenIndexExact'
    BY <1>1, <1>2, <1>3, <1>4, <1>5 DEF TokenIndexExact, Put
  <1>10. RowsUniquePerToken'
    BY <1>1, <1>5 DEF RowsUniquePerToken
  <1>11. NextIdFresh'
    <2>1. \A id \in DOMAIN sessions' \cup DOMAIN db' : id < next_id'
      BY <1>1, <1>5 DEF NextIdFresh, Put, TypeOK, IsMap
    <2>2. ASSUME NEW k \in 1..Len(ops') PROVE ops'[k].id < next_id'
      <3>1. CASE store = "null"
        BY <3>1, <1>1, <1>5 DEF Queue, NextIdFresh, Consistent, NullIsEmpty
      <3>2. CASE store = "sqlite"
        <4>1. /\ Len(ops) \in Nat /\ Len(ops') = Len(ops) + 2
              /\ \A i \in 1..Len(ops) : ops'[i] = ops[i]
              /\ \A i \in Len(ops)+1..Len(ops') : \E m \in 1..2 : ops'[i] = batch[m]
          <5>1. Queue(batch) /\ batch \in Seq(Op) /\ ops \in Seq(Op) /\ Len(batch) = 2
            BY <1>1, <1>5, <1>6
          <5>2. /\ Len(ops) \in Nat /\ Len(ops') = Len(ops) + Len(batch)
                /\ \A i \in 1..Len(ops) : ops'[i] = ops[i]
                /\ \A i \in Len(ops)+1..Len(ops') : \E m \in 1..Len(batch) : ops'[i] = batch[m]
            BY <3>2, <5>1, QueueAppends
          <5> QED
            BY <5>1, <5>2
        <4>2. CASE k \in 1..Len(ops)
          <5>1. ops[k].id \in Nat /\ ops[k].id < next_id
            BY <4>2, <1>1, ElementOfSeq DEF NextIdFresh, Op
          <5> QED
            BY <5>1, <4>1, <4>2, <1>1, <1>5
        <4>3. CASE k \in Len(ops)+1..Len(ops')
          BY <4>3, <4>1, <1>1, <1>5, <1>7
        <4> QED
          BY <4>1, <4>2, <4>3
      <3> QED
        BY <3>1, <3>2, <1>1 DEF TypeOK
    <2> QED
      BY <2>1, <2>2 DEF NextIdFresh
  <1> QED
    BY <1>8, <1>9, <1>10, <1>11 DEF IInv

\* A call that replaces a session and queues its image keeps the invariant.
LEMMA ReplaceIInv ==
  ASSUME IInv, failures = 0, NEW id, NEW s, Replaces(id, s), TypeOK'
  PROVE  IInv'
  <1> DEFINE batch == <<Save(id, s)>>
  <1>1. /\ TypeOK /\ TokenIndexExact /\ RowsUniquePerToken /\ NextIdFresh /\ Consistent
        /\ ops \in Seq(Op)
    BY DEF IInv, TypeOK
  <1>2. /\ id \in DOMAIN sessions /\ s \in LiveSession /\ s.token = sessions[id].token
        /\ sessions' = Put(sessions, id, s) /\ Queue(batch)
        /\ UNCHANGED <<token_index, next_id, store, db, restarts, failures>>
    BY DEF Replaces
  <1>3. id \in Nat \ {0}
    BY <1>1, <1>2 DEF TypeOK, IsMap
  <1>4. batch \in Seq(Op) /\ Len(batch) = 1 /\ batch[1] = Save(id, s)
    BY <1>2, <1>3, OpsTyped DEF LiveSession
  <1>5. batch[1].op = "save" /\ batch[1].id = id /\ batch[1].row.token = s.token
    BY <1>4 DEF Save, record_of
  <1> HIDE DEF batch
  <1>6. \A i \in DOMAIN sessions : i # id => sessions[i].token # s.token
    BY <1>1, <1>2 DEF TokenIndexExact
  <1>7. Consistent'
    <2>1. /\ Len(batch) > 0 /\ batch[Len(batch)] = Save(id, s)
          /\ \A i \in 1..Len(batch) : /\ batch[i].op = "save" /\ batch[i].id = id
                                      /\ batch[i].row.token = s.token
      BY <1>4, <1>5
    <2>2. s \in LiveSession /\ batch \in Seq(Op) /\ UNCHANGED <<store, db>>
      BY <1>2, <1>4
    <2> QED
      BY <2>1, <2>2, <1>1, <1>2, <1>6, SavesKeepConsistent
  <1>8. TokenIndexExact'
    BY <1>1, <1>2 DEF TokenIndexExact, Put
  <1>9. RowsUniquePerToken'
    BY <1>1, <1>2 DEF RowsUniquePerToken
  <1>10. NextIdFresh'
    <2>1. \A i \in DOMAIN sessions' \cup DOMAIN db' : i < next_id'
      BY <1>1, <1>2 DEF NextIdFresh, Put
    <2>2. ASSUME NEW k \in 1..Len(ops') PROVE ops'[k].id < next_id'
      <3>1. CASE store = "null"
        BY <3>1, <1>1, <1>2 DEF Queue, NextIdFresh
      <3>2. CASE store = "sqlite"
        <4>1. /\ Len(ops) \in Nat /\ Len(ops') = Len(ops) + 1
              /\ \A i \in 1..Len(ops) : ops'[i] = ops[i]
              /\ \A i \in Len(ops)+1..Len(ops') : \E m \in 1..1 : ops'[i] = batch[m]
          <5>1. /\ ops \in Seq(Op) /\ batch \in Seq(Op) /\ Queue(batch) /\ Len(batch) = 1
            BY <1>1, <1>2, <1>4
          <5>2. /\ Len(ops) \in Nat /\ Len(ops') = Len(ops) + Len(batch)
                /\ \A i \in 1..Len(ops) : ops'[i] = ops[i]
                /\ \A i \in Len(ops)+1..Len(ops') : \E m \in 1..Len(batch) : ops'[i] = batch[m]
            BY <5>1, <3>2, QueueAppends
          <5> QED
            BY <5>1, <5>2
        <4>2. CASE k \in 1..Len(ops)
          BY <4>1, <4>2, <1>1, <1>2 DEF NextIdFresh
        <4>3. CASE k \in Len(ops)+1..Len(ops')
          BY <4>3, <4>1, <1>1, <1>2, <1>5 DEF NextIdFresh
        <4> QED
          BY <4>1, <4>2, <4>3
      <3> QED
        BY <3>1, <3>2, <1>1 DEF TypeOK
    <2> QED
      BY <2>1, <2>2 DEF NextIdFresh
  <1> QED
    BY <1>7, <1>8, <1>9, <1>10 DEF IInv

\* The passage of time keeps the invariant: no persisted field changes.
LEMMA TickIInv ==
  ASSUME IInv, failures = 0, Tick, TypeOK'
  PROVE  IInv'
  <1>1. /\ TypeOK /\ TokenIndexExact /\ RowsUniquePerToken /\ NextIdFresh /\ Consistent
        /\ UNCHANGED <<token_index, next_id, store, ops, db, restarts, failures>>
    BY DEF IInv, Tick
  <1>2. DOMAIN sessions' = DOMAIN sessions
    BY DEF Tick
  <1>3. \A id \in DOMAIN sessions : /\ sessions'[id].token = sessions[id].token
                                    /\ record_of(sessions'[id]) = record_of(sessions[id])
    BY <1>1 DEF Tick, record_of, TypeOK, IsMap, Session
  <1>4. \A id \in DOMAIN sessions : Save(id, sessions'[id]) = Save(id, sessions[id])
    BY <1>3 DEF Save
  <1>5. TokenIndexExact' /\ RowsUniquePerToken' /\ NextIdFresh'
    BY <1>1, <1>2, <1>3 DEF TokenIndexExact, RowsUniquePerToken, NextIdFresh
  <1>6. DeadAreDeleted' /\ LiveNotDeleted'
    BY <1>1, <1>2 DEF Consistent, DeadAreDeleted, LiveNotDeleted
  <1>7. LiveIsSaved'
    BY <1>1, <1>2, <1>3, <1>4 DEF Consistent, LiveIsSaved
  <1>8. TokenKept'
    BY <1>1, <1>2, <1>3 DEF Consistent, TokenKept
  <1>9. WritesDisjoint' /\ NullIsEmpty'
    BY <1>1 DEF Consistent, WritesDisjoint, NullIsEmpty
  <1> QED
    BY <1>5, <1>6, <1>7, <1>8, <1>9 DEF IInv, Consistent

\* The sweep keeps the invariant: what leaves memory has its deletion queued.
LEMMA CleanupIInv ==
  ASSUME IInv, failures = 0, CleanupExpired, TypeOK'
  PROVE  IInv'
  <1>1. /\ TypeOK /\ TokenIndexExact /\ RowsUniquePerToken /\ NextIdFresh /\ Consistent
        /\ ops \in Seq(Op)
        /\ UNCHANGED <<next_id, store, db, restarts, failures>>
    BY DEF IInv, CleanupExpired, TypeOK
  <1>2. /\ Expired \subseteq DOMAIN sessions
        /\ DOMAIN sessions' = DOMAIN sessions \ Expired
        /\ \A id \in DOMAIN sessions' : sessions'[id] = sessions[id]
    BY DEF CleanupExpired, Without, Expired
  <1>3. TokenIndexExact'
    <2>1. /\ DOMAIN token_index' = DOMAIN token_index \ { sessions[id].token : id \in Expired }
          /\ \A t \in DOMAIN token_index' : token_index'[t] = token_index[t]
      BY DEF CleanupExpired, Unindexed, Without
    <2>2. ASSUME NEW id \in DOMAIN sessions'
          PROVE  sessions'[id].token \in DOMAIN token_index' /\ token_index'[sessions'[id].token] = id
      BY <1>1, <1>2, <2>1 DEF TokenIndexExact
    <2>3. ASSUME NEW t \in DOMAIN token_index'
          PROVE  token_index'[t] \in DOMAIN sessions' /\ sessions'[token_index'[t]].token = t
      BY <1>1, <1>2, <2>1 DEF TokenIndexExact
    <2> QED
      BY <2>2, <2>3 DEF TokenIndexExact
  <1>4. RowsUniquePerToken'
    BY <1>1 DEF RowsUniquePerToken
  <1>5. PICK e \in Enumerations(Expired) : Queue([i \in DOMAIN e |-> Delete(e[i])])
    BY DEF CleanupExpired
  <1> DEFINE batch == [i \in DOMAIN e |-> Delete(e[i])]
             n == Len(ops)
  <1>6. IsFiniteSet(Expired) /\ Expired \subseteq Nat \ {0}
    BY <1>1, <1>2, FS_Subset, Expired \in SUBSET DOMAIN sessions DEF TypeOK, IsMap
  <1>7. PICK b \in Nat : /\ DOMAIN e = 1..b
                         /\ \A i \in 1..b : e[i] \in Expired
                         /\ \A id \in Expired : \E i \in 1..b : e[i] = id
    BY <1>6, EnumerationLists
  <1>8. /\ batch \in Seq(Op) /\ Len(batch) = b
        /\ \A i \in 1..b : batch[i] = Delete(e[i])
    <2>1. \A i \in 1..b : Delete(e[i]) \in Op
      BY <1>6, <1>7, OpsTyped
    <2> QED
      BY <1>7, <2>1
  <1>9. CASE store = "null"
    <2>1. ops' = <<>> /\ DOMAIN db' = {} /\ store' = "null" /\ Len(ops') = 0
      BY <1>1, <1>5, <1>9 DEF Consistent, NullIsEmpty, Queue
    <2>2. 1..Len(ops') = {}
      BY <2>1
    <2>3. Consistent'
      BY <2>1, <2>2 DEF Consistent, DeadAreDeleted, LiveNotDeleted, LiveIsSaved, TokenKept,
                        WritesDisjoint, NullIsEmpty
    <2>4. NextIdFresh'
      BY <1>1, <1>2, <2>2 DEF NextIdFresh
    <2> QED
      BY <1>3, <1>4, <2>3, <2>4 DEF IInv
  <1>10. CASE store = "sqlite"
    <2>1. /\ n \in Nat /\ Len(ops') = n + b
          /\ \A k \in 1..n : ops'[k] = ops[k]
          /\ \A id \in Expired : \E m \in n+1..n + b : ops'[m] = Delete(id)
          /\ \A k \in n+1..n + b : ops'[k].op = "delete" /\ ops'[k].id \in Expired
      <3>1. /\ n \in Nat /\ Len(ops') = n + Len(batch)
            /\ \A k \in 1..n : ops'[k] = ops[k]
            /\ \A k \in 1..Len(batch) : ops'[n + k] = batch[k]
            /\ \A k \in n+1..Len(ops') : \E i \in 1..Len(batch) : ops'[k] = batch[i]
        BY <1>1, <1>5, <1>8, <1>10, QueueAppends
      <3> HIDE DEF batch, n
      <3>2. ASSUME NEW id \in Expired PROVE \E m \in n+1..n + b : ops'[m] = Delete(id)
        <4>1. PICK i \in 1..b : e[i] = id
          BY <1>7
        <4>2. batch[i] = Delete(id) /\ ops'[n + i] = batch[i]
          BY <4>1, <3>1, <1>8
        <4>3. n + i \in n+1..n + b
          BY <3>1
        <4> QED
          BY <4>2, <4>3
      <3>3. ASSUME NEW k \in n+1..n + b PROVE ops'[k].op = "delete" /\ ops'[k].id \in Expired
        <4>1. PICK i \in 1..b : ops'[k] = Delete(e[i])
          BY <3>1, <1>8
        <4> QED
          BY <4>1, <1>7 DEF Delete
      <3> QED
        BY <3>1, <3>2, <3>3, <1>8
    <2> HIDE DEF n, batch
    <2>2. DeadAreDeleted'
      <3>1. ASSUME NEW k \in 1..n + b, ops'[k].op = "save", ops'[k].id \notin DOMAIN sessions'
            PROVE  \E m \in k+1..n + b : ops'[m] = Delete(ops'[k].id)
        <4>1. k \in 1..n /\ ops'[k] = ops[k]
          BY <3>1, <2>1
        <4>2. CASE ops[k].id \in Expired
          <5>1. PICK m \in n+1..n + b : ops'[m] = Delete(ops[k].id)
            BY <4>2, <2>1
          <5> QED
            BY <5>1, <4>1, <2>1
        <4>3. CASE ops[k].id \notin Expired
          <5>1. PICK m \in k+1..n : ops[m] = Delete(ops[k].id)
            BY <4>1, <4>3, <3>1, <1>1, <1>2 DEF Consistent, DeadAreDeleted, n
          <5> QED
            BY <5>1, <4>1, <2>1
        <4> QED
          BY <4>2, <4>3
      <3>2. ASSUME NEW id \in DOMAIN db' \ DOMAIN sessions'
            PROVE  \E m \in 1..n + b : ops'[m] = Delete(id)
        <4>1. CASE id \in Expired
          BY <4>1, <2>1
        <4>2. CASE id \notin Expired
          <5>1. PICK m \in 1..n : ops[m] = Delete(id)
            BY <4>2, <3>2, <1>1, <1>2 DEF Consistent, DeadAreDeleted, n
          <5> QED
            BY <5>1, <2>1
        <4> QED
          BY <4>1, <4>2
      <3> QED
        BY <3>1, <3>2, <2>1 DEF DeadAreDeleted
    <2>3. LiveNotDeleted'
      <3>1. ASSUME NEW k \in 1..n + b, ops'[k].op = "delete" PROVE ops'[k].id \notin DOMAIN sessions'
        <4>1. CASE k \in 1..n
          BY <4>1, <3>1, <2>1, <1>1, <1>2 DEF Consistent, LiveNotDeleted, n
        <4>2. CASE k \in n+1..n + b
          BY <4>2, <2>1, <1>2
        <4> QED
          BY <4>1, <4>2, <2>1
      <3> QED
        BY <3>1, <2>1 DEF LiveNotDeleted
    <2>4. LiveIsSaved'
      <3>1. ASSUME NEW id \in DOMAIN sessions'
            PROVE  \/ \E k \in 1..n + b : /\ ops'[k] = Save(id, sessions'[id])
                                          /\ \A m \in k+1..n + b : ops'[m].id # id
                   \/ /\ \A m \in 1..n + b : ops'[m].id # id
                      /\ id \in DOMAIN db' /\ db'[id] = record_of(sessions'[id])
        <4>1. id \in DOMAIN sessions /\ id \notin Expired /\ sessions'[id] = sessions[id]
          BY <1>2
        <4>2. CASE \E k \in 1..n : /\ ops[k] = Save(id, sessions[id])
                                   /\ \A m \in k+1..n : ops[m].id # id
          <5>1. PICK k \in 1..n : /\ ops[k] = Save(id, sessions[id])
                                  /\ \A m \in k+1..n : ops[m].id # id
            BY <4>2
          <5>2. \A m \in k+1..n + b : ops'[m].id # id
            BY <5>1, <4>1, <2>1
          <5> QED
            BY <5>1, <5>2, <4>1, <2>1
        <4>3. CASE /\ \A m \in 1..n : ops[m].id # id
                   /\ id \in DOMAIN db /\ db[id] = record_of(sessions[id])
          <5>1. \A m \in 1..n + b : ops'[m].id # id
            BY <4>1, <4>3, <2>1
          <5> QED
            BY <5>1, <4>1, <4>3, <1>1
        <4> QED
          BY <1>1, <1>10, <4>1, <4>2, <4>3 DEF Consistent, LiveIsSaved, n
      <3> QED
        BY <3>1, <2>1 DEF LiveIsSaved
    <2>5. TokenKept'
      <3>1. ASSUME NEW id \in DOMAIN sessions', id \in DOMAIN db'
            PROVE  db'[id].token = sessions'[id].token
        BY <3>1, <1>1, <1>2 DEF Consistent, TokenKept
      <3>2. ASSUME NEW id \in DOMAIN sessions', NEW k \in 1..n + b,
                   ops'[k].op = "save", ops'[k].id = id
            PROVE  ops'[k].row.token = sessions'[id].token
        <4>1. k \in 1..n /\ ops'[k] = ops[k]
          BY <3>2, <2>1
        <4> QED
          BY <4>1, <3>2, <1>1, <1>2 DEF Consistent, TokenKept, n
      <3> QED
        BY <3>1, <3>2, <2>1 DEF TokenKept
    <2>6. WritesDisjoint'
      <3>1. \A k \in 1..n + b : ops'[k].op = "save" => k \in 1..n /\ ops'[k] = ops[k]
        BY <2>1
      <3>2. ASSUME NEW k \in 1..n + b, ops'[k].op = "save", NEW i \in DOMAIN db',
                   i # ops'[k].id, db'[i].token = ops'[k].row.token
            PROVE  \E m \in 1..k-1 : ops'[m] = Delete(i)
        <4>1. PICK m \in 1..k-1 : ops[m] = Delete(i)
          BY <3>1, <3>2, <1>1 DEF Consistent, WritesDisjoint, n
        <4>2. m \in 1..n
          BY <3>1, <3>2, <2>1
        <4> QED
          BY <4>1, <4>2, <2>1
      <3>3. ASSUME NEW k \in 1..n + b, ops'[k].op = "save", NEW l \in 1..k-1, ops'[l].op = "save",
                   ops'[l].id # ops'[k].id, ops'[l].row.token = ops'[k].row.token
            PROVE  \E m \in l+1..k-1 : ops'[m] = Delete(ops'[l].id)
        <4>1. k \in 1..n /\ l \in 1..k-1 /\ ops'[k] = ops[k] /\ ops'[l] = ops[l]
          BY <3>1, <3>3, <2>1
        <4>2. PICK m \in l+1..k-1 : ops[m] = Delete(ops[l].id)
          BY <4>1, <3>3, <1>1 DEF Consistent, WritesDisjoint, n
        <4> QED
          BY <4>1, <4>2, <2>1
      <3> QED
        BY <3>2, <3>3, <2>1 DEF WritesDisjoint
    <2>7. NullIsEmpty'
      BY <1>1, <1>10 DEF NullIsEmpty
    <2>8. NextIdFresh'
      <3>1. \A id \in DOMAIN sessions' \cup DOMAIN db' : id < next_id'
        BY <1>1, <1>2 DEF NextIdFresh
      <3>2. \A k \in 1..n + b : ops'[k].id < next_id'
        BY <1>1, <1>2, <2>1 DEF NextIdFresh, n
      <3> QED
        BY <3>1, <3>2, <2>1 DEF NextIdFresh
    <2> QED
      BY <1>3, <1>4, <2>2, <2>3, <2>4, <2>5, <2>6, <2>7, <2>8 DEF IInv, Consistent
  <1> QED
    BY <1>1, <1>9, <1>10 DEF TypeOK

\* The writer takes the first operation off the queue and applies it.
LEMMA WriterIInv ==
  ASSUME IInv, failures = 0, WriterApply, TypeOK'
  PROVE  IInv'
  <1> DEFINE n == Len(ops)
             h == ops[1]
  <1>1. /\ TypeOK /\ TokenIndexExact /\ RowsUniquePerToken /\ NextIdFresh /\ Consistent
        /\ ops \in Seq(Op) /\ ops # <<>> /\ ops' = Tail(ops)
        /\ UNCHANGED <<sessions, token_index, next_id, store, restarts, failures>>
    BY DEF IInv, WriterApply, TypeOK
  <1>2. /\ n \in Nat /\ n >= 1 /\ Len(ops') = n - 1
        /\ \A k \in 1..n-1 : ops'[k] = ops[k+1]
        /\ Head(ops) = h /\ h \in Op
    BY <1>1, HeadTailProperties
  <1>3. store = "sqlite"
    BY <1>1 DEF Consistent, NullIsEmpty, TypeOK
  <1>4. \/ /\ h.op = "save" /\ h.id \in Nat \ {0} /\ h.row \in Row
           /\ DOMAIN db' = DOMAIN db \cup {h.id} /\ db'[h.id] = h.row
           /\ \A i \in DOMAIN db : i # h.id => db'[i] = db[i]
        \/ /\ h.op = "delete" /\ h.id \in Nat \ {0}
           /\ DOMAIN db' = DOMAIN db \ {h.id}
           /\ \A i \in DOMAIN db' : db'[i] = db[i]
    <2>1. \/ h.op = "save" /\ h.id \in Nat \ {0} /\ h.row \in Row
          \/ h.op = "delete" /\ h.id \in Nat \ {0}
      BY <1>2 DEF Op
    <2>2. db' = IF h.op = "save" THEN Put(db, h.id, h.row) ELSE Without(db, {h.id})
      BY <1>2 DEF WriterApply
    <2> HIDE DEF h
    <2> QED
      BY <2>1, <2>2 DEF Put, Without
  \* A position of the old queue beyond the first is one of the new queue.
  <1>5. \A k \in 2..n : k-1 \in 1..n-1 /\ ops'[k-1] = ops[k]
    BY <1>2
  <1> HIDE DEF n, h
  <1>6. DeadAreDeleted'
    <2>1. ASSUME NEW k \in 1..n-1, ops'[k].op = "save", ops'[k].id \notin DOMAIN sessions'
          PROVE  \E m \in k+1..n-1 : ops'[m] = Delete(ops'[k].id)
      <3>1. PICK m \in (k+1)+1..n : ops[m] = Delete(ops[k+1].id)
        <4>1. k+1 \in 1..n /\ ops'[k] = ops[k+1]
          BY <1>2
        <4> QED
          BY <4>1, <2>1, <1>1 DEF Consistent, DeadAreDeleted, n
      <3>2. m-1 \in k+1..n-1 /\ ops'[m-1] = ops[m] /\ ops'[k] = ops[k+1]
        BY <3>1, <1>2, <1>5
      <3> QED
        BY <3>1, <3>2
    <2>2. ASSUME NEW id \in DOMAIN db' \ DOMAIN sessions'
          PROVE  \E m \in 1..n-1 : ops'[m] = Delete(id)
      <3>1. PICK m \in 2..n : ops[m] = Delete(id)
        <4>1. CASE h.op = "save" /\ h.id = id
          <5>1. 1 \in 1..n
            BY <1>2
          <5>2. PICK m \in 1+1..n : ops[m] = Delete(ops[1].id)
            BY <4>1, <5>1, <2>2, <1>1 DEF Consistent, DeadAreDeleted, n, h
          <5> QED
            BY <5>2, <4>1, <1>2 DEF h
        <4>2. CASE id \in DOMAIN db /\ ~ (h.op = "delete" /\ h.id = id)
          <5>1. PICK m \in 1..n : ops[m] = Delete(id)
            BY <4>2, <2>2, <1>1 DEF Consistent, DeadAreDeleted, n
          <5>2. m # 1
            BY <5>1, <4>2 DEF Delete, h
          <5>3. m \in 2..n
            BY <5>2, <1>2
          <5> QED
            BY <5>1, <5>3
        <4> QED
          BY <4>1, <4>2, <2>2, <1>4
      <3> QED
        BY <3>1, <1>5
    <2> QED
      BY <2>1, <2>2, <1>2 DEF DeadAreDeleted
  <1>7. LiveNotDeleted'
    <2>1. ASSUME NEW k \in 1..n-1, ops'[k].op = "delete" PROVE ops'[k].id \notin DOMAIN sessions'
      <3>1. k+1 \in 1..n /\ ops'[k] = ops[k+1]
        BY <1>2
      <3> QED
        BY <3>1, <2>1, <1>1 DEF Consistent, LiveNotDeleted, n
    <2> QED
      BY <2>1, <1>2 DEF LiveNotDeleted
  <1>8. LiveIsSaved'
    <2>1. ASSUME NEW id \in DOMAIN sessions'
          PROVE  \/ \E k \in 1..n-1 : /\ ops'[k] = Save(id, sessions'[id])
                                      /\ \A m \in k+1..n-1 : ops'[m].id # id
                 \/ /\ \A m \in 1..n-1 : ops'[m].id # id
                    /\ id \in DOMAIN db' /\ db'[id] = record_of(sessions'[id])
      <3>1. CASE \E k \in 1..n : /\ ops[k] = Save(id, sessions[id])
                                 /\ \A m \in k+1..n : ops[m].id # id
        <4>1. PICK k \in 1..n : /\ ops[k] = Save(id, sessions[id])
                                /\ \A m \in k+1..n : ops[m].id # id
          BY <3>1
        <4>2. CASE k = 1
          <5>1. \A m \in 1..n-1 : ops'[m].id # id
            BY <4>1, <4>2, <1>2
          <5>2. h.op = "save" /\ h.id = id /\ h.row = record_of(sessions[id])
            BY <4>1, <4>2 DEF Save, h
          <5> QED
            BY <5>1, <5>2, <1>1, <1>4
        <4>3. CASE k # 1
          <5>1. k-1 \in 1..n-1 /\ ops'[k-1] = ops[k]
            <6>1. k \in 2..n
              BY <4>3, <1>2
            <6> QED
              BY <6>1, <1>5
          <5>2. \A m \in (k-1)+1..n-1 : ops'[m].id # id
            BY <4>1, <1>2
          <5> QED
            BY <4>1, <5>1, <5>2, <1>1
        <4> QED
          BY <4>2, <4>3
      <3>2. CASE /\ \A m \in 1..n : ops[m].id # id
                 /\ id \in DOMAIN db /\ db[id] = record_of(sessions[id])
        <4>1. \A m \in 1..n-1 : ops'[m].id # id
          BY <3>2, <1>2
        <4>2. h.id # id
          BY <3>2, <1>2 DEF h
        <4> QED
          BY <4>1, <4>2, <3>2, <1>1, <1>4
      <3> QED
        BY <3>1, <3>2, <1>1, <1>3 DEF Consistent, LiveIsSaved, n
    <2> QED
      BY <2>1, <1>2 DEF LiveIsSaved
  <1>9. TokenKept'
    <2>1. ASSUME NEW id \in DOMAIN sessions', id \in DOMAIN db'
          PROVE  db'[id].token = sessions'[id].token
      <3>1. CASE h.op = "save" /\ h.id = id
        <4>1. 1 \in 1..n
          BY <1>2
        <4>2. h.row.token = sessions[id].token
          BY <3>1, <4>1, <2>1, <1>1 DEF Consistent, TokenKept, n, h
        <4> QED
          BY <4>2, <3>1, <1>1, <1>4
      <3>2. CASE ~ (h.op = "save" /\ h.id = id)
        BY <3>2, <2>1, <1>1, <1>4 DEF Consistent, TokenKept
      <3> QED
        BY <3>1, <3>2
    <2>2. ASSUME NEW id \in DOMAIN sessions', NEW k \in 1..n-1, ops'[k].op = "save", ops'[k].id = id
          PROVE  ops'[k].row.token = sessions'[id].token
      <3>1. k+1 \in 1..n /\ ops'[k] = ops[k+1]
        BY <1>2
      <3> QED
        BY <3>1, <2>2, <1>1 DEF Consistent, TokenKept, n
    <2> QED
      BY <2>1, <2>2, <1>2 DEF TokenKept
  <1>10. WritesDisjoint'
    <2>1. ASSUME NEW k \in 1..n-1, ops'[k].op = "save", NEW i \in DOMAIN db',
                 i # ops'[k].id, db'[i].token = ops'[k].row.token
          PROVE  \E m \in 1..k-1 : ops'[m] = Delete(i)
      <3>1. k+1 \in 1..n /\ ops'[k] = ops[k+1] /\ (k+1)-1 = k
        BY <1>2
      <3>2. PICK m \in 2..k : ops[m] = Delete(i)
        <4>1. CASE h.op = "save" /\ h.id = i
          <5>1. 1 \in 1..k /\ ops[1].op = "save" /\ ops[1].id # ops[k+1].id
                /\ ops[1].row.token = ops[k+1].row.token
            BY <4>1, <3>1, <2>1, <1>4 DEF h
          <5>2. PICK m \in 1+1..k : ops[m] = Delete(ops[1].id)
            BY <5>1, <3>1, <2>1, <1>1 DEF Consistent, WritesDisjoint, n
          <5> QED
            BY <5>2, <4>1 DEF h
        <4>2. CASE ~ (h.op = "save" /\ h.id = i)
          <5>1. i \in DOMAIN db /\ db[i] = db'[i] /\ ~ (h.op = "delete" /\ h.id = i)
            BY <4>2, <2>1, <1>4
          <5>2. PICK m \in 1..k : ops[m] = Delete(i)
            BY <5>1, <3>1, <2>1, <1>1 DEF Consistent, WritesDisjoint, n
          <5>3. m # 1
            BY <5>1, <5>2 DEF Delete, h
          <5>4. m \in 2..k
            BY <5>3, <1>2
          <5> QED
            BY <5>2, <5>4
        <4> QED
          BY <4>1, <4>2
      <3>3. m-1 \in 1..k-1 /\ ops'[m-1] = ops[m]
        BY <3>1, <1>2, <1>5
      <3> QED
        BY <3>2, <3>3
    <2>2. ASSUME NEW k \in 1..n-1, ops'[k].op = "save", NEW l \in 1..k-1, ops'[l].op = "save",
                 ops'[l].id # ops'[k].id, ops'[l].row.token = ops'[k].row.token
          PROVE  \E m \in l+1..k-1 : ops'[m] = Delete(ops'[l].id)
      <3>1. /\ k+1 \in 1..n /\ ops'[k] = ops[k+1]
            /\ l+1 \in 1..(k+1)-1 /\ ops'[l] = ops[l+1]
        BY <1>2
      <3>2. PICK m \in (l+1)+1..(k+1)-1 : ops[m] = Delete(ops[l+1].id)
        <4>1. /\ k+1 \in 1..Len(ops) /\ ops[k+1].op = "save" /\ ops[l+1].op = "save"
              /\ ops[l+1].id # ops[k+1].id /\ ops[l+1].row.token = ops[k+1].row.token
          BY <3>1, <2>2 DEF n
        <4> QED
          BY <4>1, <3>1, <1>1 DEF Consistent, WritesDisjoint
      <3>3. m-1 \in l+1..k-1 /\ ops'[m-1] = ops[m]
        BY <3>1, <1>2, <1>5
      <3> QED
        BY <3>1, <3>2, <3>3
    <2> QED
      BY <2>1, <2>2, <1>2 DEF WritesDisjoint
  <1>11. NullIsEmpty'
    BY <1>1, <1>3 DEF NullIsEmpty
  <1>12. RowsUniquePerToken'
    <2>1. ASSUME h.op = "save", NEW i \in DOMAIN db, i # h.id PROVE db[i].token # h.row.token
      <3>1. 1 \in 1..n /\ 1..1-1 = {}
        BY <1>2
      <3> QED
        BY <3>1, <2>1, <1>1 DEF Consistent, WritesDisjoint, n, h
    <2>2. \A i, j \in DOMAIN db : db[i].token = db[j].token => i = j
      BY <1>1 DEF RowsUniquePerToken
    <2>3. \A i, j \in DOMAIN db' : db'[i].token = db'[j].token => i = j
      BY <2>1, <2>2, <1>4
    <2> QED
      BY <2>3 DEF RowsUniquePerToken
  <1>13. TokenIndexExact'
    BY <1>1 DEF TokenIndexExact
  <1>14. NextIdFresh'
    <2>1. h.id < next_id
      BY <1>1, <1>2 DEF NextIdFresh, n, h
    <2>2. \A id \in DOMAIN sessions' \cup DOMAIN db' : id < next_id'
      BY <2>1, <1>1, <1>4 DEF NextIdFresh
    <2>3. ASSUME NEW k \in 1..n-1 PROVE ops'[k].id < next_id'
      <3>1. k+1 \in 1..n /\ ops'[k] = ops[k+1]
        BY <1>2
      <3> QED
        BY <3>1, <1>1 DEF NextIdFresh, n
    <2> QED
      BY <2>2, <2>3, <1>2 DEF NextIdFresh
  <1> QED
    BY <1>6, <1>7, <1>8, <1>9, <1>10, <1>11, <1>12, <1>13, <1>14 DEF IInv, Consistent

\* A restore from unambiguous rows rebuilds a consistent registry, whatever
\* the order the rows come in and whatever the dead process had still queued.
LEMMA RestartIInv ==
  ASSUME IInv, failures = 0, Restart, TypeOK'
  PROVE  IInv'
  <1>1. /\ TypeOK /\ RowsUniquePerToken /\ IsMap(db, Row)
        /\ UNCHANGED <<db, failures>> /\ store' = "sqlite"
        /\ next_id' = NextIdAfter(DOMAIN db)
    BY DEF IInv, Restart, TypeOK
  <1>2. \A i, j \in DOMAIN db : db[i].token = db[j].token => i = j
    BY <1>1 DEF RowsUniquePerToken
  <1>3. PICK e \in Enumerations(DOMAIN db) :
          /\ token_index' = IndexAfter(e)
          /\ ops' = [i \in DOMAIN e |-> RestoreOp(e[i])]
    BY DEF Restart
  <1>4. PICK n \in Nat :
          /\ DOMAIN e = 1..n
          /\ \A i \in 1..n : e[i] \in DOMAIN db
          /\ \A id \in DOMAIN db : \E i \in 1..n : e[i] = id
          /\ \A i, j \in 1..n : e[i] = e[j] => i = j
          /\ \A id \in DOMAIN db : Restored(db[id]).token = db[id].token
    <2>1. /\ Cardinality(DOMAIN db) \in Nat /\ DOMAIN e = 1..Cardinality(DOMAIN db)
          /\ \A i \in DOMAIN e : e[i] \in DOMAIN db
          /\ \A id \in DOMAIN db : \E i \in DOMAIN e : e[i] = id
          /\ \A i, j \in DOMAIN e : e[i] = e[j] => i = j
          /\ \A id \in DOMAIN db : Restored(db[id]).token = db[id].token
      BY <1>1, RestoreFacts
    <2> QED
      BY <2>1
  <1>5. /\ Len(ops') = n
        /\ \A k \in 1..n : ops'[k] = RestoreOp(e[k])
    BY <1>3, <1>4
  <1>6. /\ DOMAIN sessions' = Resumable(db)
        /\ \A id \in Resumable(db) : /\ id \in DOMAIN db /\ Live(db[id])
                                     /\ sessions'[id] = Restored(db[id])
        /\ \A id \in DOMAIN db : Live(db[id]) => id \in Resumable(db)
    BY DEF Restart, Resumable
  <1>7. \A k \in 1..n :
          /\ ops'[k].id = e[k]
          /\ ops'[k].op \in {"save", "delete"}
          /\ ops'[k].op = "save" => e[k] \in Resumable(db)
          /\ e[k] \in Resumable(db) =>
               /\ ops'[k].op = "save" /\ ops'[k] = Save(e[k], sessions'[e[k]])
               /\ ops'[k].row.token = db[e[k]].token
          /\ e[k] \notin Resumable(db) => ops'[k] = Delete(e[k])
    BY <1>4, <1>5, <1>6 DEF RestoreOp, Save, Delete, record_of
  <1>8. TokenIndexExact'
    <2>1. /\ DOMAIN token_index' = { db[id].token : id \in Resumable(db) }
          /\ \A t \in DOMAIN token_index' : /\ token_index'[t] \in Resumable(db)
                                            /\ db[token_index'[t]].token = t
      BY <1>1, <1>3, IndexFacts
    <2>2. ASSUME NEW id \in DOMAIN sessions'
          PROVE  sessions'[id].token \in DOMAIN token_index' /\ token_index'[sessions'[id].token] = id
      <3>1. id \in Resumable(db) /\ sessions'[id].token = db[id].token /\ id \in DOMAIN db
        BY <1>4, <1>6
      <3>2. db[id].token \in DOMAIN token_index'
        BY <3>1, <2>1
      <3>3. token_index'[db[id].token] = id
        BY <3>1, <3>2, <2>1, <1>2, <1>6
      <3> QED
        BY <3>1, <3>2, <3>3
    <2>3. ASSUME NEW t \in DOMAIN token_index'
          PROVE  token_index'[t] \in DOMAIN sessions' /\ sessions'[token_index'[t]].token = t
      BY <2>1, <1>4, <1>6
    <2> QED
      BY <2>2, <2>3 DEF TokenIndexExact
  <1>9. RowsUniquePerToken'
    BY <1>1 DEF RowsUniquePerToken
  <1>10. NextIdFresh'
    <2>1. \A id \in DOMAIN db : id < next_id'
      BY <1>1, NextIdBeyond DEF IsMap
    <2> QED
      BY <2>1, <1>1, <1>4, <1>5, <1>6, <1>7 DEF NextIdFresh
  <1>11. DeadAreDeleted'
    <2>1. ASSUME NEW k \in 1..n, ops'[k].op = "save" PROVE ops'[k].id \in DOMAIN sessions'
      BY <2>1, <1>6, <1>7
    <2>2. ASSUME NEW id \in DOMAIN db' \ DOMAIN sessions' PROVE \E m \in 1..n : ops'[m] = Delete(id)
      BY <2>2, <1>1, <1>4, <1>6, <1>7
    <2> QED
      BY <2>1, <2>2, <1>5 DEF DeadAreDeleted
  <1>12. LiveNotDeleted'
    BY <1>5, <1>6, <1>7 DEF LiveNotDeleted
  <1>13. LiveIsSaved'
    <2>1. ASSUME NEW id \in DOMAIN sessions'
          PROVE  \E k \in 1..n : /\ ops'[k] = Save(id, sessions'[id])
                                 /\ \A m \in k+1..n : ops'[m].id # id
      <3>1. PICK k \in 1..n : e[k] = id
        BY <1>4, <1>6
      <3>2. ops'[k] = Save(id, sessions'[id])
        BY <3>1, <1>6, <1>7
      <3>3. \A m \in k+1..n : ops'[m].id # id
        BY <3>1, <1>4, <1>7
      <3> QED
        BY <3>2, <3>3
    <2> QED
      BY <2>1, <1>5 DEF LiveIsSaved
  <1>14. TokenKept'
    BY <1>1, <1>4, <1>5, <1>6, <1>7 DEF TokenKept
  <1>15. WritesDisjoint'
    <2>1. ASSUME NEW k \in 1..n, ops'[k].op = "save"
          PROVE  /\ ops'[k].id = e[k] /\ e[k] \in DOMAIN db /\ ops'[k].row.token = db[e[k]].token
      BY <2>1, <1>4, <1>7
    <2>2. ASSUME NEW k \in 1..n, ops'[k].op = "save", NEW i \in DOMAIN db', i # ops'[k].id
          PROVE  db'[i].token # ops'[k].row.token
      BY <2>1, <2>2, <1>1, <1>2
    <2>3. ASSUME NEW k \in 1..n, ops'[k].op = "save", NEW l \in 1..k-1, ops'[l].op = "save",
                 ops'[l].id # ops'[k].id
          PROVE  ops'[l].row.token # ops'[k].row.token
      <3>1. l \in 1..n
        OBVIOUS
      <3> QED
        BY <3>1, <2>1, <2>3, <1>2
    <2> QED
      BY <2>2, <2>3, <1>5 DEF WritesDisjoint
  <1>16. NullIsEmpty'
    BY <1>1 DEF NullIsEmpty
  <1> QED
    BY <1>8, <1>9, <1>10, <1>11, <1>12, <1>13, <1>14, <1>15, <1>16 DEF IInv, Consistent

\* The first start satisfies the inductive invariant.
LEMMA InitIInv == Init => IInv
  <1> SUFFICES ASSUME Init PROVE IInv
    OBVIOUS
  <1>1. TypeOK
    BY InitTypeOK
  <1>2. DOMAIN sessions = {} /\ DOMAIN token_index = {} /\ DOMAIN db = {} /\ ops = <<>>
    BY EmptyMap DEF Init
  <1>3. 1..Len(ops) = {}
    BY <1>2
  <1>4. TokenIndexExact /\ RowsUniquePerToken /\ NextIdFresh
    BY <1>2, <1>3 DEF TokenIndexExact, RowsUniquePerToken, NextIdFresh
  <1>5. Consistent
    BY <1>2, <1>3 DEF Consistent, DeadAreDeleted, LiveNotDeleted, LiveIsSaved, TokenKept,
                      WritesDisjoint, NullIsEmpty
  <1> QED
    BY <1>1, <1>4, <1>5 DEF IInv

\* Every step keeps the inductive invariant.
LEMMA StepIInv == IInv /\ [Next]_vars => IInv'
  <1> SUFFICES ASSUME IInv, [Next]_vars PROVE IInv'
    OBVIOUS
  <1>1. TypeOK /\ TypeOK'
    BY TypeStep DEF IInv
  <1>2. CASE UNCHANGED vars
    BY <1>2, <1>1 DEF vars, IInv, TokenIndexExact, RowsUniquePerToken, NextIdFresh, Consistent,
                      DeadAreDeleted, LiveNotDeleted, LiveIsSaved, TokenKept, WritesDisjoint, NullIsEmpty
  <1>3. CASE Next /\ failures' # 0
    BY <1>1, <1>3 DEF IInv, TokenIndexExact, RowsUniquePerToken, NextIdFresh
  <1>4. CASE Next /\ failures' = 0
    <2>1. failures = 0 /\ ~ WriterFail /\ ~ RestartUnloaded
      <3>1. failures' = failures \/ failures' = failures + 1
        BY <1>1, <1>4, NextCases DEF CreateSession, Replaces, CleanupExpired, Tick, WriterApply,
                                     WriterFail, Restart, RestartUnloaded
      <3>2. failures \in Nat
        BY <1>1 DEF TypeOK
      <3> QED
        BY <3>1, <3>2, <1>4 DEF WriterFail, RestartUnloaded
    <2> QED
      BY <2>1, <1>1, <1>4, NextCases, CreateIInv, ReplaceIInv, CleanupIInv, TickIInv, WriterIInv,
         RestartIInv
  <1> QED
    BY <1>2, <1>3, <1>4

\* The inductive invariant holds in every reachable state.
THEOREM Invariance == Spec => []IInv
  BY InitIInv, StepIInv, PTL DEF Spec

-----------------------------------------------------------------------------
(***************************************************************************)
(* The theorems.                                                           *)
(***************************************************************************)

\* Short of a database failure, the token index is the exact inverse of the
\* sessions' tokens, through any expiries, crashes and restores.
THEOREM TokenIndexCorrect == Spec => []TokenIndexExact
  <1>1. IInv => TokenIndexExact
    BY DEF IInv
  <1> QED
    BY <1>1, Invariance, PTL

\* Short of a database failure, whatever instant the process dies at, the
\* table it leaves holds at most one row per token.
THEOREM RowsUnambiguous == Spec => []RowsUniquePerToken
  <1>1. IInv => RowsUniquePerToken
    BY DEF IInv
  <1> QED
    BY <1>1, Invariance, PTL

\* Short of a database failure, a new session never gets an id that memory,
\* the queue or the table still uses.
THEOREM NextIdIsFresh == Spec => []NextIdFresh
  <1>1. IInv => NextIdFresh
    BY DEF IInv
  <1> QED
    BY <1>1, Invariance, PTL

\* Short of a database failure, a table the writer has caught up with is the
\* persisted image of memory.
THEOREM DrainedStoreIsExact == Spec => []DrainedStoreMirrorsMemory
  <1>1. ASSUME IInv PROVE DrainedStoreMirrorsMemory
    <2> SUFFICES ASSUME failures = 0, store = "sqlite", ops = <<>>
                 PROVE  db = [id \in DOMAIN sessions |-> record_of(sessions[id])]
      BY DEF DrainedStoreMirrorsMemory
    <2>1. Consistent /\ IsMap(db, Row) /\ 1..Len(ops) = {}
      BY <1>1 DEF IInv, TypeOK
    <2>2. DOMAIN db \subseteq DOMAIN sessions
      BY <2>1 DEF Consistent, DeadAreDeleted
    <2>3. \A id \in DOMAIN sessions : id \in DOMAIN db /\ db[id] = record_of(sessions[id])
      BY <2>1 DEF Consistent, LiveIsSaved
    <2>4. db = [id \in DOMAIN db |-> db[id]]
      BY <2>1 DEF IsMap
    <2>5. DOMAIN db = DOMAIN sessions
      BY <2>2, <2>3
    <2> QED
      BY <2>3, <2>4, <2>5
  <1> QED
    BY <1>1, Invariance, PTL
=============================================================================
