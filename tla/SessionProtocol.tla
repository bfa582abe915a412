--------------------------- MODULE SessionProtocol ---------------------------
(***************************************************************************)
(* The SQLite session protocol, packages/session-protocol/src/engine.ts.   *)
(*                                                                         *)
(* Several processes hold a handle on one database. A public write runs in *)
(* its own BEGIN IMMEDIATE .. COMMIT; withTransaction keeps the write lock *)
(* over a whole body, whose tx.enqueue calls share the code of enqueue.    *)
(* "db" is what has been committed and what every other connection reads;  *)
(* "working" is what the connection that holds the write lock sees, equal  *)
(* to "db" while nobody holds it. The immutable message table is a         *)
(* sequence: position i is enqueue_seq i, and a row is never deleted.      *)
(*                                                                         *)
(* A message's kind, body, headers, sender and version are one "content":  *)
(* two messages have equal payload hashes exactly when contents are equal. *)
(***************************************************************************)
EXTENDS Naturals, Sequences, FiniteSets

CONSTANTS
  Sessions,     \* session addresses a caller may name
  Handles,      \* open protocol handles, each in a process of its own
  NoHandle,     \* nobody holds the write lock
  Keys,         \* idempotency keys
  NoKey,        \* a message sent without an idempotency key
  Contents,     \* message contents, up to equality of their payload hash
  MaxMessages   \* bound: rows the message table may grow to

ASSUME ProtocolAssumption ==
  /\ NoHandle \notin Handles
  /\ NoKey \notin Keys
  /\ MaxMessages \in Nat

VARIABLES
  db,        \* the committed store
  working,   \* the store as the write-lock holder sees it
  writer,    \* the handle inside withTransaction, or NoHandle
  reply      \* reply[h]: what the last call on h returned or threw

vars == <<db, working, writer, reply>>

-----------------------------------------------------------------------------
(* The store *)

Status == {"unknown", "live", "retired"}
Message == [to : Sessions, key : Keys \cup {NoKey}, content : Contents]
Row == [to : Sessions, key : Keys \cup {NoKey}, content : Contents, taken : BOOLEAN]
Store == [addr : [Sessions -> Status], log : Seq(Row)]

Codes == {"none", "address", "message", "taken", "empty", "committed", "unknown",
          "retired", "conflict", "non_empty", "invalid", "busy"}
Reply == [code : Codes, seq : Nat]
Answer(code, seq) == [code |-> code, seq |-> seq]

EmptyStore == [addr |-> [s \in Sessions |-> "unknown"], log |-> <<>>]
RowOf(m) == [to |-> m.to, key |-> m.key, content |-> m.content, taken |-> FALSE]

(* Rows of target s whose dequeued_at_ms is NULL. *)
Pending(st, s) == {i \in DOMAIN st.log : st.log[i].to = s /\ ~st.log[i].taken}

(* The FIFO head: the pending row of s with the least enqueue_seq. *)
IsHead(st, s, i) == i \in Pending(st, s) /\ \A j \in Pending(st, s) : i <= j

(* The rows that the idempotency key of m already names, dequeued or not. *)
Prior(st, m) ==
  {i \in DOMAIN st.log : m.key # NoKey /\ st.log[i].to = m.to /\ st.log[i].key = m.key}

-----------------------------------------------------------------------------
(* Who may write *)

(* BEGIN IMMEDIATE succeeds only when no other connection holds the lock. *)
MayWriteDeferred(h) == TRUE
MayWrite(h) == writer \in {NoHandle, h}
Autocommit(h) == writer = NoHandle

(* The store becomes st: at once outside a transaction, at COMMIT inside. *)
Write(h, st) ==
  /\ working' = st
  /\ db' = IF writer = h THEN db ELSE st
  /\ UNCHANGED writer

Say(h, code, seq) == reply' = [reply EXCEPT ![h] = Answer(code, seq)]
KeepStore == UNCHANGED <<db, working, writer>>

-----------------------------------------------------------------------------
(* Operations. A failed call changes no row and reports its code. *)

Initialize(h, s) ==
  /\ Autocommit(h)
  /\ working.addr[s] # "retired"
  /\ Write(h, [working EXCEPT !.addr[s] = "live"])
  /\ Say(h, "address", 0)

InitializeRefused(h, s) ==
  /\ Autocommit(h)
  /\ working.addr[s] = "retired"
  /\ Say(h, "retired", 0)
  /\ KeepStore

Enqueue(h, m) ==
  /\ MayWrite(h)
  /\ working.addr[m.to] = "live"
  /\ Prior(working, m) = {}
  /\ Len(working.log) < MaxMessages
  /\ Write(h, [working EXCEPT !.log = Append(@, RowOf(m))])
  /\ Say(h, "message", Len(working.log) + 1)

EnqueueReplayed(h, m) ==
  /\ MayWrite(h)
  /\ working.addr[m.to] = "live"
  /\ \E i \in Prior(working, m) :
        /\ working.log[i].content = m.content
        /\ Say(h, "message", i)
  /\ KeepStore

EnqueueRefused(h, m) ==
  /\ MayWrite(h)
  /\ \/ working.addr[m.to] # "live" /\ Say(h, working.addr[m.to], 0)
     \/ /\ working.addr[m.to] = "live"
        /\ \E i \in Prior(working, m) : working.log[i].content # m.content
        /\ Say(h, "conflict", 0)
  /\ KeepStore

(* dequeue takes the head, and says null when there is none. *)
DequeueUnmarked(h, s) ==
  /\ Autocommit(h)
  /\ working.addr[s] = "live"
  /\ \E i \in DOMAIN working.log :
        /\ IsHead(working, s, i)
        /\ Say(h, "taken", i)
  /\ KeepStore

Dequeue(h, s) ==
  /\ Autocommit(h)
  /\ working.addr[s] = "live"
  /\ \E i \in DOMAIN working.log :
        /\ IsHead(working, s, i)
        /\ Write(h, [working EXCEPT !.log[i].taken = TRUE])
        /\ Say(h, "taken", i)

DequeueEmpty(h, s) ==
  /\ Autocommit(h)
  /\ working.addr[s] = "live"
  /\ Pending(working, s) = {}
  /\ Say(h, "empty", 0)
  /\ KeepStore

DequeueRefused(h, s) ==
  /\ Autocommit(h)
  /\ working.addr[s] # "live"
  /\ Say(h, working.addr[s], 0)
  /\ KeepStore

(* retire is idempotent on a retired address. *)
Retire(h, s) ==
  /\ Autocommit(h)
  /\ working.addr[s] # "unknown"
  /\ working.addr[s] = "live" => Pending(working, s) = {}
  /\ Write(h, [working EXCEPT !.addr[s] = "retired"])
  /\ Say(h, "address", 0)

RetireRefused(h, s) ==
  /\ Autocommit(h)
  /\ \/ working.addr[s] = "unknown" /\ Say(h, "unknown", 0)
     \/ /\ working.addr[s] = "live"
        /\ Pending(working, s) # {}
        /\ Say(h, "non_empty", 0)
  /\ KeepStore

-----------------------------------------------------------------------------
(* withTransaction *)

Begin(h) ==
  /\ writer = NoHandle
  /\ writer' = h
  /\ Say(h, "none", 0)
  /\ UNCHANGED <<db, working>>

(* The body returned and COMMIT succeeded: the caller gets its value, here *)
(* the last message the body enqueued.                                     *)
Commit(h) ==
  /\ writer = h
  /\ db' = working
  /\ writer' = NoHandle
  /\ UNCHANGED <<working, reply>>

(* The body threw, returned a promise, or COMMIT failed. *)
Rollback(h) ==
  /\ writer = h
  /\ working' = db
  /\ writer' = NoHandle
  /\ Say(h, "none", 0)
  /\ UNCHANGED db

(* A call on the handle from inside its own transaction body. *)
ReentryRejected(h) ==
  /\ writer = h
  /\ Say(h, "invalid", 0)
  /\ KeepStore

(* BEGIN IMMEDIATE waited busy_timeout for another connection's lock. *)
BusyRejected(h) ==
  /\ ~MayWrite(h)
  /\ Say(h, "busy", 0)
  /\ KeepStore

CrashRequeues(h) ==
  LET back == [db EXCEPT !.log = [i \in DOMAIN @ |->
                 IF reply[h] = Answer("taken", i) THEN [@[i] EXCEPT !.taken = FALSE] ELSE @[i]]]
  IN  /\ writer # h
      /\ writer = NoHandle
      /\ db' = back
      /\ working' = back
      /\ Say(h, "none", 0)
      /\ UNCHANGED writer

(* The process dies: SQLite discards its uncommitted pages. A process that *)
(* dies after COMMIT and before it looks at its result loses the result.   *)
Crash(h) ==
  /\ IF writer = h THEN working' = db /\ writer' = NoHandle
                   ELSE UNCHANGED <<working, writer>>
  /\ Say(h, "none", 0)
  /\ UNCHANGED db

-----------------------------------------------------------------------------

Init ==
  /\ db = EmptyStore
  /\ working = EmptyStore
  /\ writer = NoHandle
  /\ reply = [h \in Handles |-> Answer("none", 0)]

AddressCall(h, s) ==
  \/ Initialize(h, s)
  \/ InitializeRefused(h, s)
  \/ Dequeue(h, s)
  \/ DequeueEmpty(h, s)
  \/ DequeueRefused(h, s)
  \/ Retire(h, s)
  \/ RetireRefused(h, s)

MessageCall(h, m) ==
  \/ Enqueue(h, m)
  \/ EnqueueReplayed(h, m)
  \/ EnqueueRefused(h, m)

HandleStep(h) ==
  \/ Begin(h)
  \/ Commit(h)
  \/ Rollback(h)
  \/ ReentryRejected(h)
  \/ BusyRejected(h)
  \/ Crash(h)

Next ==
  \E h \in Handles :
    \/ \E s \in Sessions : AddressCall(h, s)
    \/ \E m \in Message : MessageCall(h, m)
    \/ HandleStep(h)

Spec == Init /\ [][Next]_vars

-----------------------------------------------------------------------------
(* Properties *)

(* Every variable has its type: the stores are well-formed tables.         *)
TypeOK ==
  /\ db \in Store
  /\ working \in Store
  /\ writer \in Handles \cup {NoHandle}
  /\ reply \in [Handles -> Reply]

(* Rows leave a session's queue in the order they were enqueued: no row is *)
(* dequeued while an older one of the same target is still pending         *)
(* (dequeue's FIFO head, whatever transactions interleave with it).        *)
FifoOrder ==
  \A i, j \in DOMAIN db.log :
    (db.log[i].to = db.log[j].to /\ i < j /\ db.log[j].taken) => db.log[i].taken

(* One idempotency key names one row of its target for ever, so a producer *)
(* that retries after a crash, even after its message was consumed, never  *)
(* makes a second one (insertNormalizedMessage's prior-row lookup).        *)
OneRowPerKey ==
  \A i, j \in DOMAIN db.log :
    (/\ db.log[i].key # NoKey
     /\ db.log[i].to = db.log[j].to
     /\ db.log[i].key = db.log[j].key) => i = j

(* A retired address holds no undelivered message and an address nobody    *)
(* initialized holds no message at all: retire and a concurrent enqueue    *)
(* can never strand a row (retire's non-empty check, enqueue's address     *)
(* check).                                                                 *)
NothingStranded ==
  \A i \in DOMAIN db.log :
    LET s == db.log[i].to IN
      /\ db.addr[s] # "unknown"
      /\ db.addr[s] = "retired" => db.log[i].taken

(* What a finished call told its caller stays true: a message it reported  *)
(* accepted is a committed row, a message it handed out is marked          *)
(* dequeued, and no two handles were handed the same row.                  *)
RepliesHold ==
  /\ \A h \in Handles : writer # h =>
       /\ reply[h].code = "message" => reply[h].seq \in DOMAIN db.log
       /\ reply[h].code = "taken" =>
            reply[h].seq \in DOMAIN db.log /\ db.log[reply[h].seq].taken
  /\ \A g, h \in Handles :
       (/\ reply[g].code = "taken"
        /\ reply[h].code = "taken"
        /\ reply[g].seq = reply[h].seq) => g = h

(* A transaction is all or nothing for everybody else: while a handle is   *)
(* inside withTransaction the committed store does not move, and the step  *)
(* that moves it ends the transaction and publishes its whole working      *)
(* store (write lock from BEGIN IMMEDIATE to COMMIT or ROLLBACK).          *)
TransactionAtomic ==
  [][writer # NoHandle =>
       db' = db \/ (db' = working /\ writer' = NoHandle)]_vars

-----------------------------------------------------------------------------
(* The mapping to Mailbox: the pending rows of an address as letters, and   *)
(* the keys of all its rows.                                               *)

LetterAt(st, i) == [id |-> i, key |-> st.log[i].key, content |-> st.log[i].content]
Letters(st, s) == {LetterAt(st, i) : i \in Pending(st, s)}
Keyed(st, s) == {i \in DOMAIN st.log : st.log[i].to = s /\ st.log[i].key # NoKey}
SpentKeys(st, s) == {st.log[i].key : i \in Keyed(st, s)}

Promise == INSTANCE Mailbox WITH
  status <- db.addr,
  inbox <- [s \in Sessions |-> Letters(db, s)],
  spent <- [s \in Sessions |-> SpentKeys(db, s)],
  issued <- Len(db.log)

(* The committed database behaves as the abstract mailbox: whatever        *)
(* transactions, retries and crashes interleave, each step other           *)
(* connections can see opens or closes an address, posts one batch, takes  *)
(* one head, or changes nothing.                                           *)
ImplementsMailbox == Promise!MailboxSpec
=============================================================================
