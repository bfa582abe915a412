------------------------------- MODULE Mailbox -------------------------------
(***************************************************************************)
(* What the session protocol promises the rest of SpexCode, with no rows,  *)
(* transactions or connections: every exact session address owns one FIFO  *)
(* inbox of messages, a keyed message is accepted once for ever, and an    *)
(* address that is retired has been emptied first and accepts no more. The *)
(* id of a message is its place in the order of acceptance.                *)
(* SessionProtocol implements this module under a refinement mapping, and  *)
(* the deliveries of QueueDelivery use it.                                 *)
(***************************************************************************)
EXTENDS Naturals

CONSTANTS
  Sessions,   \* the exact session addresses
  Keys,       \* idempotency keys
  NoKey,      \* a message sent without one
  Contents    \* what a message says, up to equality of its hashed bytes

VARIABLES
  status,     \* status[s]: has address s been opened, has it been closed
  inbox,      \* inbox[s]: accepted and not yet taken
  spent,      \* spent[s]: the keys address s has ever accepted
  issued      \* how many messages have ever been accepted

mailboxVars == <<status, inbox, spent, issued>>

Letter == [id : Nat, key : Keys \cup {NoKey}, content : Contents]

KeysOf(letters) == {l.key : l \in {m \in letters : m.key # NoKey}}

MailboxInit ==
  /\ status = [s \in Sessions |-> "unknown"]
  /\ inbox = [s \in Sessions |-> {}]
  /\ spent = [s \in Sessions |-> {}]
  /\ issued = 0

(* An address is opened once. *)
Open(s) ==
  /\ status[s] = "unknown"
  /\ status' = [status EXCEPT ![s] = "live"]
  /\ UNCHANGED <<inbox, spent, issued>>

(* One producer's transaction adds a batch of new messages to any number   *)
(* of inboxes at once. Only live addresses receive, no key is ever accepted *)
(* twice, and nothing that was accepted before arrives again.              *)
Arrivals(s) == inbox'[s] \ inbox[s]

Deliver(s) ==
  /\ inbox[s] \subseteq inbox'[s]
  /\ \A l \in Arrivals(s) : l \in Letter /\ l.id \in issued + 1 .. issued'
  /\ Arrivals(s) # {} => status[s] = "live"
  /\ KeysOf(Arrivals(s)) \cap spent[s] = {}
  /\ \A l, m \in Arrivals(s) : l.key = m.key /\ l.key # NoKey => l = m
  /\ spent'[s] = spent[s] \cup KeysOf(Arrivals(s))

Post ==
  /\ DOMAIN inbox' = Sessions /\ DOMAIN spent' = Sessions
  /\ issued' >= issued
  /\ \A s \in Sessions : Deliver(s)
  /\ \A s, t \in Sessions : \A l \in Arrivals(s), m \in Arrivals(t) :
       l.id = m.id => s = t /\ l = m
  /\ UNCHANGED status

(* A consumer takes the oldest message of a live address. *)
IsOldest(s, l) == l \in inbox[s] /\ \A m \in inbox[s] : l.id <= m.id

Take(s) ==
  /\ status[s] = "live"
  /\ \E l \in inbox[s] : IsOldest(s, l) /\ inbox' = [inbox EXCEPT ![s] = @ \ {l}]
  /\ UNCHANGED <<status, spent, issued>>

(* Only an empty address is closed, and it never opens again. *)
Close(s) ==
  /\ status[s] = "live"
  /\ inbox[s] = {}
  /\ status' = [status EXCEPT ![s] = "retired"]
  /\ UNCHANGED <<inbox, spent, issued>>

MailboxNext ==
  \/ Post
  \/ \E s \in Sessions : Open(s) \/ Take(s) \/ Close(s)

MailboxSpec == MailboxInit /\ [][MailboxNext]_mailboxVars
=============================================================================
