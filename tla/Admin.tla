-------------------------------- MODULE Admin --------------------------------
(***************************************************************************)
(* The control socket of wrsrvd (admin.rs): one thread accepts connections *)
(* one after the other, reads requests until the peer hangs up, hands each *)
(* to the compositor's loop over a channel and waits, up to REPLY_TIMEOUT, *)
(* for the answer in a slot of its own (dispatch).  The loop answers from  *)
(* the registry as it then is (drain_admin_queries), which may be after    *)
(* the thread has given up.                                                *)
(*                                                                         *)
(* The registry is a number that grows with every change.  The process     *)
(* exits without unwinding, so a channel never closes under the thread.    *)
(***************************************************************************)
EXTENDS Integers, Sequences

CONSTANTS
  Clients, NoClient,
  MaxRequests,  \* bound: requests written
  MaxChanges    \* bound: changes of the registry

ASSUME AdminAssumption ==
  NoClient \notin Clients /\ MaxRequests \in Nat /\ MaxChanges \in Nat

VARIABLES
  registry,     \* what a snapshot taken now would show
  dialled,         \* each client: "away", "queued", "accepted"
  backlog,      \* connections to be accepted
  cur,          \* the connection being served
  asked,        \* registry when the request each client waits with was made; -1: none
  requests, queries, \* requests written, and handed over, so far
  rx,           \* AdminQuery messages to the compositor: their numbers
  slot,         \* the reply slot the thread waits at: the query's number, or 0
  filled,       \* what is in the slots: <<query, snapshot>>
  answers       \* history: <<made, answered with>>, the latter -1 for an error

adminVars == <<registry, dialled, backlog, cur, asked, requests, queries, rx, slot, filled, answers>>

(***************************************************************************)
(* wradm.                                                                  *)
(***************************************************************************)
Dial(c) ==
  /\ dialled[c] = "away" /\ dialled' = [dialled EXCEPT ![c] = "queued"]
  /\ backlog' = Append(backlog, c)
  /\ UNCHANGED <<registry, cur, asked, requests, queries, rx, slot, filled, answers>>

\* The request line is written, accepted or not; the client waits for a line.
send_json(c) ==
  /\ dialled[c] # "away" /\ asked[c] = -1 /\ requests < MaxRequests
  /\ requests' = requests + 1 /\ asked' = [asked EXCEPT ![c] = registry]
  /\ UNCHANGED <<registry, dialled, backlog, cur, queries, rx, slot, filled, answers>>

\* Answered, the client hangs up: the thread reads the end of its stream.
HangUp(c) ==
  /\ cur = c /\ slot = 0 /\ asked[c] = -1
  /\ dialled' = [dialled EXCEPT ![c] = "away"] /\ cur' = NoClient
  /\ UNCHANGED <<registry, backlog, asked, requests, queries, rx, slot, filled, answers>>

(***************************************************************************)
(* The thread of the socket.                                               *)
(***************************************************************************)
serve_json ==
  /\ cur = NoClient /\ backlog # <<>>
  /\ cur' = Head(backlog) /\ backlog' = Tail(backlog)
  /\ dialled' = [dialled EXCEPT ![cur'] = "accepted"]
  /\ UNCHANGED <<registry, asked, requests, queries, rx, slot, filled, answers>>

\* A request is read and handed over.  Each one has a reply channel of its own.
dispatch ==
  /\ cur # NoClient /\ slot = 0 /\ asked[cur] # -1
  /\ queries' = queries + 1 /\ slot' = queries' /\ rx' = Append(rx, queries')
  /\ UNCHANGED <<registry, dialled, backlog, cur, asked, requests, filled, answers>>

Respond(snapshot) ==
  /\ answers' = answers \cup {<<asked[cur], snapshot>>}
  /\ asked' = [asked EXCEPT ![cur] = -1] /\ slot' = 0

\* Mutant: one reply channel for all requests, so a late answer to an earlier
\* one is taken for this one's.
ReplyOfAny ==
  /\ slot # 0
  /\ \E f \in filled : filled' = filled \ {f} /\ Respond(f[2])
  /\ UNCHANGED <<registry, dialled, backlog, cur, requests, queries, rx>>

Reply ==
  /\ slot # 0
  /\ \E f \in filled : f[1] = slot /\ filled' = filled \ {f} /\ Respond(f[2])
  /\ UNCHANGED <<registry, dialled, backlog, cur, requests, queries, rx>>

\* Mutant: the thread waits for as long as it takes.
NoTimeout == slot # 0 /\ slot = 0 /\ UNCHANGED adminVars

ReplyTimeout ==
  /\ slot # 0 /\ Respond(-1)
  /\ UNCHANGED <<registry, dialled, backlog, cur, requests, queries, rx, filled>>

(***************************************************************************)
(* The compositor's loop.                                                  *)
(***************************************************************************)
RegistryChanges ==
  /\ registry < MaxChanges /\ registry' = registry + 1
  /\ UNCHANGED <<dialled, backlog, cur, asked, requests, queries, rx, slot, filled, answers>>

\* An answer to a query given up on goes nowhere.
drain_admin_queries ==
  /\ rx # <<>> /\ rx' = Tail(rx)
  /\ filled' = filled \cup {<<Head(rx), registry>>}
  /\ UNCHANGED <<registry, dialled, backlog, cur, asked, requests, queries, slot, answers>>

-----------------------------------------------------------------------------
AdminInit ==
  /\ registry = 0 /\ dialled = [c \in Clients |-> "away"] /\ backlog = <<>> /\ cur = NoClient
  /\ asked = [c \in Clients |-> -1] /\ requests = 0 /\ queries = 0
  /\ rx = <<>> /\ slot = 0 /\ filled = {} /\ answers = {}

AdminNext ==
  \/ \E c \in Clients : Dial(c) \/ send_json(c) \/ HangUp(c)
  \/ serve_json \/ dispatch \/ Reply \/ ReplyTimeout
  \/ RegistryChanges \/ drain_admin_queries

AdminSpec == AdminInit /\ [][AdminNext]_adminVars

\* The thread runs and time passes, and wradm exits once it has its answer.
\* Of the compositor's loop, which may be stalled, nothing is assumed.
AdminFairSpec ==
  /\ AdminSpec
  /\ WF_adminVars(serve_json) /\ WF_adminVars(dispatch) /\ WF_adminVars(Reply \/ ReplyTimeout)
  /\ \A c \in Clients : WF_adminVars(HangUp(c))

-----------------------------------------------------------------------------
\* What a client is shown is the registry as it was after it asked: an answer
\* that came too late for one request is never given to the next.
AnswerIsRecent == \A a \in answers : a[2] = -1 \/ a[2] >= a[1]

\* Every request gets an answer or an error, also with the compositor's loop
\* stalled: "without hanging wradm".
AdminAnswered == \A c \in Clients : (asked[c] # -1) ~> (asked[c] = -1)
=============================================================================
