----------------------- MODULE SessionProtocol_proofs -----------------------
(***************************************************************************)
(* Proofs about SessionProtocol for any sets of addresses, handles, keys   *)
(* and contents and any bound on the table.                                *)
(*                                                                         *)
(* The safety invariants speak of the committed store. They are not        *)
(* inductive alone: COMMIT copies the working store over it, so the same   *)
(* facts must hold of the working store, which while a transaction is open *)
(* extends the committed one by new rows only.                             *)
(***************************************************************************)
EXTENDS SessionProtocol, TLAPS

(* The invariants' bodies, of any store. *)
FifoIn(st) ==
  \A i, j \in DOMAIN st.log :
    (st.log[i].to = st.log[j].to /\ i < j /\ st.log[j].taken) => st.log[i].taken

KeysIn(st) ==
  \A i, j \in DOMAIN st.log :
    (/\ st.log[i].key # NoKey
     /\ st.log[i].to = st.log[j].to
     /\ st.log[i].key = st.log[j].key) => i = j

StrandedIn(st) ==
  \A i \in DOMAIN st.log :
    /\ st.addr[st.log[i].to] # "unknown"
    /\ st.addr[st.log[i].to] = "retired" => st.log[i].taken

StoreOK(st) == FifoIn(st) /\ KeysIn(st) /\ StrandedIn(st)

(* Inside a transaction the working store is the committed one with rows   *)
(* appended; outside, they are the same store.                             *)
WorkingExtends ==
  /\ writer = NoHandle => working = db
  /\ Len(db.log) <= Len(working.log)
  /\ \A i \in 1 .. Len(db.log) : working.log[i] = db.log[i]

RepliesIn ==
  /\ \A h \in Handles : reply[h].code = "message" =>
       /\ reply[h].seq \in 1 .. Len(working.log)
       /\ writer # h => reply[h].seq \in 1 .. Len(db.log)
  /\ \A h \in Handles : reply[h].code = "taken" =>
       reply[h].seq \in 1 .. Len(db.log) /\ db.log[reply[h].seq].taken
  /\ \A g, h \in Handles :
       (/\ reply[g].code = "taken"
        /\ reply[h].code = "taken"
        /\ reply[g].seq = reply[h].seq) => g = h

IInv == TypeOK /\ StoreOK(db) /\ StoreOK(working) /\ WorkingExtends /\ RepliesIn

-----------------------------------------------------------------------------
(* What the operations do to a store *)

(* Replacing one field of a store record leaves the other. *)
LEMMA StoreUpdate ==
  ASSUME NEW st \in Store, NEW l
  PROVE  [st EXCEPT !.log = l] = [addr |-> st.addr, log |-> l]
<1> DEFINE A == [Sessions -> Status]
           L == Seq(Row)
<1>1. st \in [addr : A, log : L]
  BY DEF Store
<1> HIDE DEF A, L
<1>2. QED
  BY <1>1

(* Appending a fresh, live-addressed message keeps a store well-formed. *)
LEMMA AppendStore ==
  ASSUME NEW st \in Store, NEW m \in Message,
         st.addr[m.to] = "live", Prior(st, m) = {}
  PROVE  LET nx == [st EXCEPT !.log = Append(@, RowOf(m))] IN
           /\ nx \in Store
           /\ nx.addr = st.addr
           /\ Len(nx.log) = Len(st.log) + 1
           /\ \A i \in 1 .. Len(st.log) : nx.log[i] = st.log[i]
           /\ StoreOK(st) => StoreOK(nx)
<1> DEFINE nx == [st EXCEPT !.log = Append(@, RowOf(m))]
<1>1. RowOf(m) \in Row /\ RowOf(m).to = m.to /\ RowOf(m).key = m.key /\ ~RowOf(m).taken
  BY DEF RowOf, Row, Message
<1>2. st.log \in Seq(Row) /\ st.addr \in [Sessions -> Status]
  BY DEF Store
<1>3. nx = [addr |-> st.addr, log |-> Append(st.log, RowOf(m))]
  BY StoreUpdate
<1>4. nx.addr = st.addr /\ nx.log = Append(st.log, RowOf(m))
  BY <1>3
<1>5. nx.log \in Seq(Row) /\ Len(nx.log) = Len(st.log) + 1
  BY <1>1, <1>2, <1>4
<1>6. \A i \in 1 .. Len(st.log) : nx.log[i] = st.log[i]
  BY <1>1, <1>2, <1>4
<1>7. nx.log[Len(st.log) + 1] = RowOf(m)
  BY <1>1, <1>2, <1>4
<1>8. DOMAIN nx.log = 1 .. Len(st.log) + 1 /\ DOMAIN st.log = 1 .. Len(st.log) /\ Len(st.log) \in Nat
  BY <1>2, <1>5
<1>9. nx \in Store
  BY <1>2, <1>3, <1>4, <1>5 DEF Store
<1>10. ASSUME StoreOK(st) PROVE StoreOK(nx)
  <2>1. FifoIn(nx)
    BY <1>1, <1>6, <1>7, <1>8, <1>10 DEF StoreOK, FifoIn
  <2>2. KeysIn(nx)
    <3>1. \A i \in 1 .. Len(st.log) :
            m.key # NoKey => ~(st.log[i].to = m.to /\ st.log[i].key = m.key)
      BY <1>8 DEF Prior
    <3>2. QED
      BY <3>1, <1>1, <1>6, <1>7, <1>8, <1>10 DEF StoreOK, KeysIn
  <2>3. StrandedIn(nx)
    BY <1>1, <1>4, <1>6, <1>7, <1>8, <1>10 DEF StoreOK, StrandedIn
  <2>4. QED
    BY <2>1, <2>2, <2>3 DEF StoreOK
<1>11. QED
  BY <1>4, <1>5, <1>6, <1>9, <1>10

(* Marking the FIFO head dequeued keeps a store well-formed. *)
LEMMA MarkStore ==
  ASSUME NEW st \in Store, NEW s \in Sessions, NEW k \in DOMAIN st.log,
         IsHead(st, s, k), st.addr[s] = "live"
  PROVE  LET nx == [st EXCEPT !.log[k].taken = TRUE] IN
           /\ nx \in Store
           /\ Len(nx.log) = Len(st.log)
           /\ nx.log[k].taken
           /\ ~st.log[k].taken
           /\ \A i \in 1 .. Len(st.log) : st.log[i].taken => nx.log[i].taken
           /\ StoreOK(st) => StoreOK(nx)
<1> DEFINE nx == [st EXCEPT !.log[k].taken = TRUE]
<1>1. st.log \in Seq(Row) /\ st.addr \in [Sessions -> Status]
  BY DEF Store
<1>2. DOMAIN st.log = 1 .. Len(st.log) /\ Len(st.log) \in Nat
  BY <1>1
<1>3. nx = [addr |-> st.addr, log |-> [st.log EXCEPT ![k].taken = TRUE]]
  <2>1. nx = [st EXCEPT !.log = [st.log EXCEPT ![k].taken = TRUE]]
    OBVIOUS
  <2>2. QED
    BY <2>1, StoreUpdate
<1>4. nx.addr = st.addr /\ nx.log = [st.log EXCEPT ![k].taken = TRUE]
  BY <1>3
<1>5. st.log[k] \in Row
  BY <1>1, <1>2
<1>6. [st.log[k] EXCEPT !.taken = TRUE] \in Row
  BY <1>5 DEF Row
<1>7. nx.log = [st.log EXCEPT ![k] = [st.log[k] EXCEPT !.taken = TRUE]]
  BY <1>4, <1>1
<1>8. nx.log \in Seq(Row) /\ Len(nx.log) = Len(st.log)
  BY <1>1, <1>2, <1>6, <1>7
<1>9. \A i \in 1 .. Len(st.log) :
        /\ nx.log[i].to = st.log[i].to
        /\ nx.log[i].key = st.log[i].key
        /\ i # k => nx.log[i] = st.log[i]
  BY <1>2, <1>5, <1>7 DEF Row
<1>10. nx.log[k].taken = TRUE
  BY <1>2, <1>5, <1>7 DEF Row
<1>11. DOMAIN nx.log = 1 .. Len(st.log)
  BY <1>8
<1>12. nx \in Store
  BY <1>1, <1>3, <1>4, <1>8 DEF Store
<1>13. st.log[k].to = s /\ ~st.log[k].taken
  BY DEF IsHead, Pending
<1>14. ASSUME StoreOK(st) PROVE StoreOK(nx)
  <2>1. FifoIn(nx)
    <3> SUFFICES ASSUME NEW i \in 1 .. Len(st.log), NEW j \in 1 .. Len(st.log),
                        nx.log[i].to = nx.log[j].to, i < j, nx.log[j].taken
                 PROVE  nx.log[i].taken
      BY <1>11 DEF FifoIn
    <3>1. CASE i = k
      BY <3>1, <1>10
    <3>2. CASE i # k /\ j # k
      BY <3>2, <1>2, <1>9, <1>14 DEF StoreOK, FifoIn
    <3>3. CASE i # k /\ j = k
      <4>1. st.log[i].to = s /\ i < k
        BY <3>3, <1>9, <1>13
      <4>2. i \notin Pending(st, s)
        BY <4>1, <1>2 DEF IsHead
      <4>3. st.log[i].taken
        BY <4>1, <4>2, <1>2 DEF Pending
      <4>4. QED
        BY <4>3, <3>3, <1>9
    <3>4. QED
      BY <3>1, <3>2, <3>3
  <2>2. KeysIn(nx)
    BY <1>2, <1>9, <1>11, <1>14 DEF StoreOK, KeysIn
  <2>3. StrandedIn(nx)
    BY <1>2, <1>4, <1>9, <1>10, <1>11, <1>14 DEF StoreOK, StrandedIn
  <2>4. QED
    BY <2>1, <2>2, <2>3 DEF StoreOK
<1>15. QED
  BY <1>2, <1>8, <1>9, <1>10, <1>12, <1>13, <1>14

(* Opening an address, or retiring one that has nothing pending. *)
LEMMA AddressStore ==
  ASSUME NEW st \in Store, NEW s \in Sessions, NEW a \in {"live", "retired"},
         a = "retired" => \A i \in DOMAIN st.log : st.log[i].to = s => st.log[i].taken
  PROVE  LET nx == [st EXCEPT !.addr[s] = a] IN
           /\ nx \in Store
           /\ nx.log = st.log
           /\ StoreOK(st) => StoreOK(nx)
<1> DEFINE nx == [st EXCEPT !.addr[s] = a]
<1>1. nx = [addr |-> [st.addr EXCEPT ![s] = a], log |-> st.log]
  BY DEF Store
<1>2. nx.addr = [st.addr EXCEPT ![s] = a] /\ nx.log = st.log
  BY <1>1
<1>3. nx \in Store
  BY <1>1, <1>2 DEF Store, Status
<1>4. ASSUME StoreOK(st) PROVE StoreOK(nx)
  <2>1. FifoIn(nx) /\ KeysIn(nx)
    BY <1>2, <1>4 DEF StoreOK, FifoIn, KeysIn
  <2>2. StrandedIn(nx)
    <3>1. \A r \in Sessions : nx.addr[r] = IF r = s THEN a ELSE st.addr[r]
      BY <1>2 DEF Store
    <3>2. \A i \in DOMAIN st.log : st.log[i].to \in Sessions
      <4>1. st.log \in Seq(Row)
        BY DEF Store
      <4>2. \A i \in DOMAIN st.log : st.log[i] \in Row
        BY <4>1
      <4>3. QED
        BY <4>2 DEF Row
    <3>3. QED
      BY <1>2, <1>4, <3>1, <3>2 DEF StoreOK, StrandedIn
  <2>3. QED
    BY <2>1, <2>2 DEF StoreOK
<1>5. QED
  BY <1>2, <1>3, <1>4

-----------------------------------------------------------------------------
(* What a step does to the variables *)

(* A write by a handle that may write, of a well-formed store that keeps   *)
(* the rows of a transaction's working store.                              *)
LEMMA WriteKeeps ==
  ASSUME IInv, NEW h \in Handles, MayWrite(h),
         NEW nx \in Store, StoreOK(working) => StoreOK(nx), Write(h, nx),
         Len(working.log) <= Len(nx.log),
         writer = h => \A i \in 1 .. Len(working.log) : nx.log[i] = working.log[i]
  PROVE  /\ db' \in Store /\ working' \in Store /\ writer' = writer
         /\ StoreOK(db') /\ StoreOK(working') /\ WorkingExtends'
         /\ Len(db.log) <= Len(db'.log) /\ Len(db'.log) <= Len(working'.log)
         /\ Len(working.log) <= Len(working'.log)
<1>1. db.log \in Seq(Row) /\ working.log \in Seq(Row) /\ nx.log \in Seq(Row)
  BY DEF IInv, TypeOK, Store
<1>2. Len(db.log) \in Nat /\ Len(working.log) \in Nat /\ Len(nx.log) \in Nat
  BY <1>1
<1>3. CASE writer = NoHandle
  <2>1. db' = nx /\ working' = nx /\ writer' = writer
    BY <1>3, ProtocolAssumption DEF Write
  <2>2. working = db
    BY <1>3 DEF IInv, WorkingExtends
  <2>3. QED
    BY <2>1, <2>2, <1>2 DEF IInv, WorkingExtends
<1>4. CASE writer = h
  <2>1. db' = db /\ working' = nx /\ writer' = writer
    BY <1>4 DEF Write
  <2>2. \A i \in 1 .. Len(db.log) : nx.log[i] = db.log[i]
    BY <1>2, <1>4 DEF IInv, WorkingExtends
  <2>3. Len(db.log) <= Len(nx.log) /\ writer # NoHandle
    BY <1>2, <1>4, ProtocolAssumption DEF IInv, WorkingExtends
  <2>4. QED
    BY <2>1, <2>2, <2>3, <1>2 DEF IInv, TypeOK, WorkingExtends
<1>5. QED
  BY <1>3, <1>4 DEF MayWrite

(* A handle's new reply keeps every reply true if its own is true and the  *)
(* step loses neither a row nor a mark that another handle's reply names.  *)
LEMMA ReplyKeeps ==
  ASSUME IInv, NEW h \in Handles, NEW code \in Codes, NEW seq \in Nat,
         Say(h, code, seq),
         Len(db.log) \in Nat, Len(db'.log) \in Nat,
         Len(working.log) \in Nat, Len(working'.log) \in Nat,
         Len(db.log) <= Len(db'.log), Len(db'.log) <= Len(working'.log),
         \A i \in 1 .. Len(db.log) : db.log[i].taken => db'.log[i].taken,
         \A g \in Handles \ {h} :
           writer = g => writer' = g /\ Len(working.log) <= Len(working'.log),
         code = "message" =>
           seq \in 1 .. Len(working'.log) /\ (writer' # h => seq \in 1 .. Len(db'.log)),
         code = "taken" =>
           seq \in 1 .. Len(db.log) /\ ~db.log[seq].taken /\ db'.log[seq].taken
  PROVE  reply' \in [Handles -> Reply] /\ RepliesIn'
<1>1. reply \in [Handles -> Reply]
  BY DEF IInv, TypeOK
<1>2. /\ reply' = [reply EXCEPT ![h] = Answer(code, seq)]
      /\ Answer(code, seq) \in Reply
      /\ Answer(code, seq).code = code
      /\ Answer(code, seq).seq = seq
  BY DEF Say, Answer, Reply
<1>3. reply' \in [Handles -> Reply]
  BY <1>1, <1>2
<1>4. reply'[h].code = code /\ reply'[h].seq = seq
  BY <1>1, <1>2
<1>5. \A g \in Handles \ {h} : reply'[g] = reply[g]
  BY <1>1, <1>2
<1>6. \A g \in Handles : reply[g].seq \in Nat
  BY <1>1 DEF Reply
<1>7. ASSUME NEW g \in Handles, reply'[g].code = "message"
      PROVE  /\ reply'[g].seq \in 1 .. Len(working'.log)
             /\ writer' # g => reply'[g].seq \in 1 .. Len(db'.log)
  <2>1. CASE g = h
    BY <2>1, <1>4, <1>7
  <2>2. CASE g # h /\ writer = g
    BY <2>2, <1>5, <1>6, <1>7 DEF IInv, RepliesIn
  <2>3. CASE g # h /\ writer # g
    BY <2>3, <1>5, <1>6, <1>7 DEF IInv, RepliesIn
  <2>4. QED
    BY <2>1, <2>2, <2>3
<1>8. ASSUME NEW g \in Handles, reply'[g].code = "taken"
      PROVE  reply'[g].seq \in 1 .. Len(db'.log) /\ db'.log[reply'[g].seq].taken
  <2>1. CASE g = h
    BY <2>1, <1>4, <1>8
  <2>2. CASE g # h
    <3>1. reply[g].seq \in 1 .. Len(db.log) /\ db.log[reply[g].seq].taken
      BY <2>2, <1>5, <1>8 DEF IInv, RepliesIn
    <3>2. db'.log[reply[g].seq].taken
      BY <3>1
    <3>3. QED
      BY <2>2, <3>1, <3>2, <1>5, <1>6
  <2>3. QED
    BY <2>1, <2>2
<1>9. ASSUME NEW f \in Handles, NEW g \in Handles,
             reply'[f].code = "taken", reply'[g].code = "taken",
             reply'[f].seq = reply'[g].seq
      PROVE  f = g
  <2>1. CASE f # h /\ g # h
    BY <2>1, <1>5, <1>9 DEF IInv, RepliesIn
  <2>2. CASE f = h /\ g # h
    BY <2>2, <1>4, <1>5, <1>9 DEF IInv, RepliesIn
  <2>3. CASE f # h /\ g = h
    BY <2>3, <1>4, <1>5, <1>9 DEF IInv, RepliesIn
  <2>4. QED
    BY <2>1, <2>2, <2>3
<1>10. QED
  BY <1>3, <1>7, <1>8, <1>9 DEF RepliesIn

-----------------------------------------------------------------------------
(* The inductive invariant *)

LEMMA Lengths ==
  ASSUME NEW st \in Store
  PROVE  Len(st.log) \in Nat /\ DOMAIN st.log = 1 .. Len(st.log)
<1>1. st.log \in Seq(Row)
  BY DEF Store
<1>2. QED
  BY <1>1

LEMMA InitEstablishes == Init => IInv
<1> SUFFICES ASSUME Init PROVE IInv
  OBVIOUS
<1>1. EmptyStore \in Store /\ EmptyStore.log = <<>>
  BY DEF EmptyStore, Store, Status
<1>2. DOMAIN EmptyStore.log = {} /\ Len(EmptyStore.log) = 0
  BY <1>1
<1>3. StoreOK(EmptyStore)
  BY <1>2 DEF StoreOK, FifoIn, KeysIn, StrandedIn
<1>4. reply \in [Handles -> Reply] /\ \A h \in Handles : reply[h].code = "none"
  BY DEF Init, Answer, Reply, Codes
<1>5. RepliesIn
  BY <1>4 DEF RepliesIn
<1>6. WorkingExtends
  BY <1>2 DEF Init, WorkingExtends
<1>7. QED
  BY <1>1, <1>3, <1>4, <1>5, <1>6 DEF Init, IInv, TypeOK

(* A call that only answers. *)
LEMMA AnswerKeeps ==
  ASSUME IInv, NEW h \in Handles, NEW code \in Codes \ {"message", "taken"},
         Say(h, code, 0), KeepStore
  PROVE  IInv'
<1>1. db' = db /\ working' = working /\ writer' = writer
  BY DEF KeepStore
<1>2. db \in Store /\ working \in Store
  BY DEF IInv, TypeOK
<1>3. reply' \in [Handles -> Reply] /\ RepliesIn'
  BY <1>1, <1>2, Lengths, ReplyKeeps DEF IInv, WorkingExtends
<1>4. QED
  BY <1>1, <1>3 DEF IInv, TypeOK, WorkingExtends

LEMMA RefusalKeeps ==
  ASSUME IInv, NEW h \in Handles, NEW s \in Sessions, working.addr[s] # "live",
         Say(h, working.addr[s], 0), KeepStore
  PROVE  IInv'
<1>1. working.addr[s] \in Codes \ {"message", "taken"}
  BY DEF IInv, TypeOK, Store, Status, Codes
<1>2. QED
  BY <1>1, AnswerKeeps

LEMMA AddressWriteKeeps ==
  ASSUME IInv, NEW h \in Handles, NEW s \in Sessions, NEW a \in {"live", "retired"},
         Autocommit(h),
         a = "retired" =>
           \A i \in DOMAIN working.log : working.log[i].to = s => working.log[i].taken,
         Write(h, [working EXCEPT !.addr[s] = a]),
         Say(h, "address", 0)
  PROVE  IInv'
<1> DEFINE nx == [working EXCEPT !.addr[s] = a]
<1>1. working \in Store /\ db \in Store /\ writer = NoHandle /\ working = db
  BY DEF IInv, TypeOK, Autocommit, WorkingExtends
<1>2. nx \in Store /\ nx.log = working.log /\ (StoreOK(working) => StoreOK(nx))
  <2>1. a = "retired" =>
          \A i \in DOMAIN working.log : working.log[i].to = s => working.log[i].taken
    OBVIOUS
  <2>2. QED
    BY <1>1, <2>1, AddressStore, ZenonT(30)
<1>3. Len(working.log) \in Nat
  BY <1>1, Lengths
<1>4. /\ db' \in Store /\ working' \in Store /\ writer' = writer
      /\ StoreOK(db') /\ StoreOK(working') /\ WorkingExtends'
      /\ Len(db.log) <= Len(db'.log) /\ Len(db'.log) <= Len(working'.log)
  <2> HIDE DEF nx
  <2>1. MayWrite(h) /\ Write(h, nx)
    BY <1>1 DEF MayWrite, nx
  <2>2. QED
    BY <1>2, <1>3, <2>1, WriteKeeps
<1>5. db'.log = db.log
  BY <1>1, <1>2 DEF Write
<1>6. reply' \in [Handles -> Reply] /\ RepliesIn'
  <2>1. Len(db'.log) \in Nat /\ Len(working'.log) \in Nat /\ Len(db.log) \in Nat
    BY <1>1, <1>4, Lengths
  <2>2. \A g \in Handles : writer # g
    BY <1>1, ProtocolAssumption
  <2>3. QED
    BY <1>3, <1>4, <1>5, <2>1, <2>2, ReplyKeeps DEF Codes
<1>7. QED
  BY <1>1, <1>4, <1>6 DEF IInv, TypeOK

LEMMA RetireKeeps ==
  ASSUME IInv, NEW h \in Handles, NEW s \in Sessions, Retire(h, s)
  PROVE  IInv'
<1>1. working \in Store /\ db = working
  BY DEF Retire, Autocommit, IInv, TypeOK, WorkingExtends
<1>2. working.addr[s] \in {"live", "retired"}
  BY <1>1 DEF Retire, Store, Status
<1>3. ASSUME NEW i \in DOMAIN working.log, working.log[i].to = s
      PROVE  working.log[i].taken
  <2>1. CASE working.addr[s] = "live"
    BY <2>1, <1>3 DEF Retire, Pending
  <2>2. CASE working.addr[s] = "retired"
    BY <2>2, <1>3 DEF IInv, StoreOK, StrandedIn
  <2>3. QED
    BY <1>2, <2>1, <2>2
<1>4. QED
  BY <1>3, AddressWriteKeeps DEF Retire

LEMMA DequeueKeeps ==
  ASSUME IInv, NEW h \in Handles, NEW s \in Sessions, Dequeue(h, s)
  PROVE  IInv'
<1>1. /\ working \in Store /\ db \in Store /\ writer = NoHandle /\ working = db
      /\ working.addr[s] = "live"
  BY DEF IInv, TypeOK, Dequeue, Autocommit, WorkingExtends
<1>2. PICK k \in DOMAIN working.log :
        /\ IsHead(working, s, k)
        /\ Write(h, [working EXCEPT !.log[k].taken = TRUE])
        /\ Say(h, "taken", k)
  BY DEF Dequeue
<1> DEFINE nx == [working EXCEPT !.log[k].taken = TRUE]
<1>3. /\ nx \in Store
      /\ Len(nx.log) = Len(working.log)
      /\ nx.log[k].taken
      /\ ~working.log[k].taken
      /\ \A i \in 1 .. Len(working.log) : working.log[i].taken => nx.log[i].taken
      /\ StoreOK(working) => StoreOK(nx)
  BY <1>1, <1>2, MarkStore
<1>4. Len(working.log) \in Nat /\ k \in 1 .. Len(working.log)
  BY <1>1, <1>2, Lengths
<1>5. MayWrite(h) /\ h # NoHandle
  BY <1>1, ProtocolAssumption DEF MayWrite
<1>6. Write(h, nx)
  BY <1>2
<1> HIDE DEF nx
<1>7. /\ db' \in Store /\ working' \in Store /\ writer' = writer
      /\ StoreOK(db') /\ StoreOK(working') /\ WorkingExtends'
      /\ Len(db.log) <= Len(db'.log) /\ Len(db'.log) <= Len(working'.log)
  BY <1>1, <1>3, <1>4, <1>5, <1>6, WriteKeeps
<1>8. db' = nx
  BY <1>1, <1>5, <1>6 DEF Write
<1>9. reply' \in [Handles -> Reply] /\ RepliesIn'
  <2>1. Len(db'.log) \in Nat /\ Len(working'.log) \in Nat /\ Len(db.log) \in Nat
    BY <1>1, <1>7, Lengths
  <2>2. \A g \in Handles : writer # g
    BY <1>1, ProtocolAssumption
  <2>3. k \in Nat /\ "taken" \in Codes /\ "taken" # "message"
    BY <1>4 DEF Codes
  <2>4. QED
    BY <1>1, <1>2, <1>3, <1>4, <1>7, <1>8, <2>1, <2>2, <2>3, ReplyKeeps
<1>10. QED
  BY <1>1, <1>7, <1>9 DEF IInv, TypeOK

LEMMA EnqueueKeeps ==
  ASSUME IInv, NEW h \in Handles, NEW m \in Message, Enqueue(h, m)
  PROVE  IInv'
<1> DEFINE nx == [working EXCEPT !.log = Append(@, RowOf(m))]
<1>1. working \in Store /\ db \in Store /\ MayWrite(h) /\ Write(h, nx)
  BY DEF IInv, TypeOK, Enqueue
<1>2. /\ nx \in Store
      /\ Len(nx.log) = Len(working.log) + 1
      /\ \A i \in 1 .. Len(working.log) : nx.log[i] = working.log[i]
      /\ StoreOK(working) => StoreOK(nx)
  BY <1>1, AppendStore DEF Enqueue
<1>3. Len(working.log) \in Nat
  BY <1>1, Lengths
<1> HIDE DEF nx
<1>4. /\ db' \in Store /\ working' \in Store /\ writer' = writer
      /\ StoreOK(db') /\ StoreOK(working') /\ WorkingExtends'
      /\ Len(db.log) <= Len(db'.log) /\ Len(db'.log) <= Len(working'.log)
      /\ Len(working.log) <= Len(working'.log)
  BY <1>1, <1>2, <1>3, WriteKeeps
<1>5. working' = nx /\ db' = IF writer = h THEN db ELSE nx
  BY <1>1 DEF Write
<1>6. \A i \in 1 .. Len(db.log) : db.log[i].taken => db'.log[i].taken
  <2>1. CASE writer = h
    BY <2>1, <1>5
  <2>2. CASE writer = NoHandle
    BY <2>2, <1>2, <1>5, ProtocolAssumption DEF IInv, WorkingExtends
  <2>3. QED
    BY <1>1, <2>1, <2>2 DEF MayWrite
<1>7. reply' \in [Handles -> Reply] /\ RepliesIn'
  <2>1. Len(db'.log) \in Nat /\ Len(working'.log) \in Nat /\ Len(db.log) \in Nat
    BY <1>1, <1>4, Lengths
  <2>2. \A g \in Handles \ {h} : writer # g
    BY <1>1, ProtocolAssumption DEF MayWrite
  <2>3. Len(working.log) + 1 \in 1 .. Len(working'.log)
    BY <1>2, <1>3, <1>5
  <2>4. writer' # h => Len(working.log) + 1 \in 1 .. Len(db'.log)
    BY <1>2, <1>3, <1>4, <1>5
  <2>5. Say(h, "message", Len(working.log) + 1) /\ "message" \in Codes
    BY DEF Enqueue, Codes
  <2>6. QED
    BY <1>3, <1>4, <1>6, <2>1, <2>2, <2>3, <2>4, <2>5, ReplyKeeps
<1>8. QED
  BY <1>1, <1>4, <1>7 DEF IInv, TypeOK

LEMMA ReplayKeeps ==
  ASSUME IInv, NEW h \in Handles, NEW m \in Message, EnqueueReplayed(h, m)
  PROVE  IInv'
<1>1. /\ db' = db /\ working' = working /\ writer' = writer
      /\ db \in Store /\ working \in Store
  BY DEF EnqueueReplayed, KeepStore, IInv, TypeOK
<1>2. PICK k \in DOMAIN working.log : Say(h, "message", k)
  BY DEF EnqueueReplayed, Prior
<1>3. k \in 1 .. Len(working.log)
  BY <1>1, <1>2, Lengths
<1>4. writer # h => k \in 1 .. Len(db.log)
  BY <1>3 DEF EnqueueReplayed, MayWrite, IInv, WorkingExtends
<1>5. reply' \in [Handles -> Reply] /\ RepliesIn'
  <2>1. Len(db.log) \in Nat /\ Len(working.log) \in Nat /\ Len(db.log) <= Len(working.log)
    BY <1>1, Lengths DEF IInv, WorkingExtends
  <2>2. k \in Nat /\ "message" \in Codes /\ "message" # "taken"
    BY <1>3, <2>1 DEF Codes
  <2>3. QED
    BY <1>1, <1>2, <1>3, <1>4, <2>1, <2>2, ReplyKeeps
<1>6. QED
  BY <1>1, <1>5 DEF IInv, TypeOK, WorkingExtends

(* COMMIT publishes the working store; ROLLBACK and a crash go back to the *)
(* committed one.                                                          *)
LEMMA CommitKeeps ==
  ASSUME IInv, NEW h \in Handles, Commit(h)
  PROVE  IInv'
<1>1. db' = working /\ working' = working /\ writer' = NoHandle /\ reply' = reply /\ writer = h
  BY DEF Commit
<1>2. /\ Len(db.log) \in Nat /\ Len(working.log) \in Nat /\ Len(db.log) <= Len(working.log)
      /\ \A g \in Handles : reply[g].seq \in Nat
  BY Lengths DEF IInv, TypeOK, WorkingExtends, Reply
<1>3. WorkingExtends'
  BY <1>1, <1>2 DEF WorkingExtends
<1>4. \A i \in 1 .. Len(db.log) : i \in 1 .. Len(working.log) /\ working.log[i] = db.log[i]
  BY <1>2 DEF IInv, WorkingExtends
<1>5. RepliesIn'
  BY <1>1, <1>4 DEF IInv, RepliesIn
<1>6. QED
  BY <1>1, <1>3, <1>5 DEF IInv, TypeOK

LEMMA DiscardKeeps ==
  ASSUME IInv, NEW h \in Handles, writer = h, working' = db, writer' = NoHandle,
         db' = db, Say(h, "none", 0)
  PROVE  IInv'
<1>1. db \in Store /\ working \in Store
  BY DEF IInv, TypeOK
<1>2. Len(db.log) \in Nat /\ Len(working.log) \in Nat
  BY <1>1, Lengths
<1>3. reply' \in [Handles -> Reply] /\ RepliesIn'
  BY <1>2, ReplyKeeps DEF Codes
<1>4. WorkingExtends'
  BY <1>2 DEF WorkingExtends
<1>5. QED
  BY <1>1, <1>3, <1>4 DEF IInv, TypeOK

LEMMA BeginKeeps ==
  ASSUME IInv, NEW h \in Handles, Begin(h)
  PROVE  IInv'
<1>1. db' = db /\ working' = working /\ writer' = h /\ writer = NoHandle /\ working = db
  BY DEF Begin, IInv, WorkingExtends
<1>2. db \in Store /\ Len(db.log) \in Nat
  BY Lengths DEF IInv, TypeOK
<1>3. reply' \in [Handles -> Reply] /\ RepliesIn'
  <2>1. \A g \in Handles : writer # g
    BY <1>1, ProtocolAssumption
  <2>2. Say(h, "none", 0) /\ "none" \in Codes /\ "none" \notin {"message", "taken"}
    BY DEF Begin, Codes
  <2>3. QED
    BY <1>1, <1>2, <2>1, <2>2, ReplyKeeps
<1>4. WorkingExtends'
  BY <1>1, <1>2, ProtocolAssumption DEF WorkingExtends
<1>5. QED
  BY <1>1, <1>3, <1>4 DEF IInv, TypeOK

LEMMA NextKeeps == IInv /\ [Next]_vars => IInv'
<1> SUFFICES ASSUME IInv, [Next]_vars PROVE IInv'
  OBVIOUS
<1>1. ASSUME NEW h \in Handles, NEW s \in Sessions, AddressCall(h, s)
      PROVE  IInv'
  <2>1. CASE Initialize(h, s)
    BY <2>1, AddressWriteKeeps DEF Initialize
  <2>2. CASE InitializeRefused(h, s)
    BY <2>2, AnswerKeeps DEF InitializeRefused, Codes
  <2>3. CASE Dequeue(h, s)
    BY <2>3, DequeueKeeps
  <2>4. CASE DequeueEmpty(h, s)
    BY <2>4, AnswerKeeps DEF DequeueEmpty, Codes
  <2>5. CASE DequeueRefused(h, s)
    BY <2>5, RefusalKeeps DEF DequeueRefused
  <2>6. CASE Retire(h, s)
    BY <2>6, RetireKeeps
  <2>7. CASE RetireRefused(h, s)
    BY <2>7, AnswerKeeps DEF RetireRefused, Codes
  <2>8. QED
    BY <1>1, <2>1, <2>2, <2>3, <2>4, <2>5, <2>6, <2>7 DEF AddressCall
<1>2. ASSUME NEW h \in Handles, NEW m \in Message, MessageCall(h, m)
      PROVE  IInv'
  <2>1. CASE Enqueue(h, m)
    BY <2>1, EnqueueKeeps
  <2>2. CASE EnqueueReplayed(h, m)
    BY <2>2, ReplayKeeps
  <2>3. CASE EnqueueRefused(h, m)
    <3>1. m.to \in Sessions
      BY DEF Message
    <3>2. CASE working.addr[m.to] # "live" /\ Say(h, working.addr[m.to], 0)
      BY <2>3, <3>1, <3>2, RefusalKeeps DEF EnqueueRefused
    <3>3. CASE Say(h, "conflict", 0)
      BY <2>3, <3>3, AnswerKeeps DEF EnqueueRefused, Codes
    <3>4. QED
      BY <2>3, <3>2, <3>3 DEF EnqueueRefused
  <2>4. QED
    BY <1>2, <2>1, <2>2, <2>3 DEF MessageCall
<1>3. ASSUME NEW h \in Handles, HandleStep(h)
      PROVE  IInv'
  <2>1. CASE Begin(h)
    BY <2>1, BeginKeeps
  <2>2. CASE Commit(h)
    BY <2>2, CommitKeeps
  <2>3. CASE Rollback(h)
    BY <2>3, DiscardKeeps DEF Rollback
  <2>4. CASE ReentryRejected(h)
    BY <2>4, AnswerKeeps DEF ReentryRejected, Codes
  <2>5. CASE BusyRejected(h)
    BY <2>5, AnswerKeeps DEF BusyRejected, Codes
  <2>6. CASE Crash(h)
    <3>1. CASE writer = h
      BY <2>6, <3>1, DiscardKeeps DEF Crash
    <3>2. CASE writer # h
      BY <2>6, <3>2, AnswerKeeps DEF Crash, KeepStore, Codes
    <3>3. QED
      BY <3>1, <3>2
  <2>7. QED
    BY <1>3, <2>1, <2>2, <2>3, <2>4, <2>5, <2>6 DEF HandleStep
<1>4. CASE UNCHANGED vars
  BY <1>4 DEF vars, IInv, TypeOK, WorkingExtends, RepliesIn
<1>5. QED
  BY <1>1, <1>2, <1>3, <1>4 DEF Next

(* The inductive invariant holds in every reachable state.                 *)
THEOREM Invariance == Spec => []IInv
BY InitEstablishes, NextKeeps, PTL DEF Spec

-----------------------------------------------------------------------------
(* The results *)

(* Every reachable store, committed or inside a transaction, is a          *)
(* well-formed table (engine.ts and its schema).                           *)
THEOREM TypeCorrect == Spec => []TypeOK
<1>1. IInv => TypeOK
  BY DEF IInv
<1>2. QED
  BY <1>1, Invariance, PTL

(* A session's messages are dequeued in the order they were enqueued, for  *)
(* any number of producers, consumers, transactions and crashes.           *)
THEOREM FifoDelivery == Spec => []FifoOrder
<1>1. IInv => FifoOrder
  BY DEF IInv, StoreOK, FifoIn, FifoOrder
<1>2. QED
  BY <1>1, Invariance, PTL

(* An idempotency key never names two rows of one target.                  *)
THEOREM KeyedEnqueueOnce == Spec => []OneRowPerKey
<1>1. IInv => OneRowPerKey
  BY DEF IInv, StoreOK, KeysIn, OneRowPerKey
<1>2. QED
  BY <1>1, Invariance, PTL

(* No message is left in the queue of a retired or unknown address.        *)
THEOREM RetirementDrained == Spec => []NothingStranded
<1>1. IInv => NothingStranded
  BY DEF IInv, StoreOK, StrandedIn, NothingStranded
<1>2. QED
  BY <1>1, Invariance, PTL

(* Accepted messages are durable, and no row is handed out twice.          *)
THEOREM RepliesTrue == Spec => []RepliesHold
<1>1. IInv => RepliesHold
  <2> SUFFICES ASSUME IInv PROVE RepliesHold
    OBVIOUS
  <2>1. DOMAIN db.log = 1 .. Len(db.log)
    BY Lengths DEF IInv, TypeOK
  <2>2. QED
    BY <2>1 DEF IInv, RepliesIn, RepliesHold
<1>2. QED
  BY <1>1, Invariance, PTL

(* While one handle is inside withTransaction nobody sees the committed    *)
(* store move, and the move that ends it publishes the whole body.         *)
THEOREM Atomicity == Spec => TransactionAtomic
<1>1. IInv /\ [Next]_vars =>
        [writer # NoHandle => db' = db \/ (db' = working /\ writer' = NoHandle)]_vars
  <2> SUFFICES ASSUME IInv, Next, writer # NoHandle
               PROVE  db' = db \/ (db' = working /\ writer' = NoHandle)
    OBVIOUS
  <2>1. ASSUME NEW h \in Handles, NEW s \in Sessions, AddressCall(h, s)
        PROVE  FALSE
    BY <2>1 DEF AddressCall, Initialize, InitializeRefused, Dequeue, DequeueEmpty,
                DequeueRefused, Retire, RetireRefused, Autocommit
  <2>2. ASSUME NEW h \in Handles, NEW m \in Message, MessageCall(h, m)
        PROVE  db' = db
    BY <2>2 DEF MessageCall, Enqueue, EnqueueReplayed, EnqueueRefused, MayWrite, Write, KeepStore
  <2>3. ASSUME NEW h \in Handles, HandleStep(h)
        PROVE  db' = db \/ (db' = working /\ writer' = NoHandle)
    BY <2>3 DEF HandleStep, Begin, Commit, Rollback, ReentryRejected, BusyRejected, Crash, KeepStore
  <2>4. QED
    BY <2>1, <2>2, <2>3 DEF Next
<1>2. QED
  BY <1>1, Invariance, PTL DEF Spec, TransactionAtomic
-----------------------------------------------------------------------------
(* The committed store implements the mailbox. What COMMIT publishes must   *)
(* be one batch of deliveries, so besides IInv the working store of a       *)
(* transaction differs from the committed one by unread rows of addresses   *)
(* that are live, and by nothing else.                                      *)

NewRows(st, nx) == Len(st.log) + 1 .. Len(nx.log)

Appends(st, nx) ==
  /\ nx.addr = st.addr
  /\ Len(st.log) <= Len(nx.log)
  /\ \A i \in 1 .. Len(st.log) : nx.log[i] = st.log[i]
  /\ \A i \in NewRows(st, nx) : ~nx.log[i].taken /\ st.addr[nx.log[i].to] = "live"

LEMMA AppendsNothing ==
  ASSUME NEW st \in Store
  PROVE  Appends(st, st)
BY Lengths DEF Appends, NewRows

(* The row tx.enqueue or enqueue inserts is unread and its address live.   *)
LEMMA EnqueueAppends ==
  ASSUME IInv, Appends(db, working), NEW h \in Handles, NEW m \in Message, Enqueue(h, m)
  PROVE  Appends(db, working')
<1> DEFINE nx == [working EXCEPT !.log = Append(@, RowOf(m))]
<1>1. working \in Store /\ db \in Store /\ working' = nx
  BY DEF IInv, TypeOK, Enqueue, Write
<1>2. /\ nx.addr = working.addr
      /\ Len(nx.log) = Len(working.log) + 1
      /\ \A i \in 1 .. Len(working.log) : nx.log[i] = working.log[i]
  BY <1>1, AppendStore DEF Enqueue
<1>3. nx.log[Len(working.log) + 1] = RowOf(m)
  <2>1. nx.log = Append(working.log, RowOf(m)) /\ working.log \in Seq(Row)
    BY <1>1, StoreUpdate DEF Store
  <2>2. RowOf(m) \in Row
    BY DEF RowOf, Row, Message
  <2>3. QED
    BY <2>1, <2>2
<1>4. ~RowOf(m).taken /\ working.addr[RowOf(m).to] = "live"
  BY DEF RowOf, Enqueue
<1>5. Len(working.log) \in Nat /\ Len(db.log) \in Nat
  BY <1>1, Lengths
<1> HIDE DEF nx
<1>6. Len(db.log) <= Len(nx.log) /\ \A i \in 1 .. Len(db.log) : nx.log[i] = db.log[i]
  BY <1>2, <1>5 DEF Appends
<1>7. ASSUME NEW i \in NewRows(db, nx)
      PROVE  ~nx.log[i].taken /\ db.addr[nx.log[i].to] = "live"
  <2>1. CASE i = Len(working.log) + 1
    BY <2>1, <1>3, <1>4 DEF Appends
  <2>2. CASE i # Len(working.log) + 1
    <3>1. i \in NewRows(db, working) /\ i \in 1 .. Len(working.log)
      BY <1>2, <1>5, <1>7, <2>2 DEF NewRows
    <3>2. QED
      BY <1>2, <3>1 DEF Appends
  <2>3. QED
    BY <2>1, <2>2
<1>8. QED
  BY <1>1, <1>2, <1>6, <1>7 DEF Appends

LEMMA AppendsKept == IInv /\ Appends(db, working) /\ [Next]_vars => Appends(db, working)'
<1> SUFFICES ASSUME IInv, Appends(db, working), [Next]_vars
             PROVE  Appends(db', working')
  OBVIOUS
<1>1. IInv'
  BY NextKeeps
<1>2. CASE writer' = NoHandle
  BY <1>1, <1>2, AppendsNothing DEF IInv, TypeOK, WorkingExtends
<1>3. ASSUME writer' # NoHandle, NEW h \in Handles, NEW m \in Message, Enqueue(h, m)
      PROVE  Appends(db', working')
  <2>1. db' = db
    BY <1>3 DEF Enqueue, Write, MayWrite
  <2>2. QED
    BY <1>3, <2>1, EnqueueAppends
<1>4. ASSUME writer' # NoHandle, ~(\E h \in Handles, m \in Message : Enqueue(h, m))
      PROVE  db' = db /\ (working' = working \/ working' = db)
  BY <1>4 DEF Next, vars, AddressCall, Initialize, InitializeRefused, Dequeue, DequeueEmpty,
              DequeueRefused, Retire, RetireRefused, Autocommit, MessageCall, EnqueueReplayed,
              EnqueueRefused, HandleStep, Begin, Commit, Rollback, ReentryRejected,
              BusyRejected, Crash, Write, KeepStore
<1>5. QED
  BY <1>2, <1>3, <1>4, AppendsNothing DEF IInv, TypeOK

(* What an address holds after a batch: what it held, and the new rows.    *)
LEMMA LettersAfterAppend ==
  ASSUME NEW st \in Store, NEW nx \in Store, Appends(st, nx), NEW s \in Sessions
  PROVE  /\ Letters(st, s) \subseteq Letters(nx, s)
         /\ \A l \in Letters(nx, s) \ Letters(st, s) :
              /\ l.id \in NewRows(st, nx)
              /\ nx.log[l.id].to = s
              /\ l = LetterAt(nx, l.id)
         /\ \A i \in NewRows(st, nx) : nx.log[i].to = s =>
              LetterAt(nx, i) \in Letters(nx, s) \ Letters(st, s)
<1>1. /\ DOMAIN st.log = 1 .. Len(st.log) /\ DOMAIN nx.log = 1 .. Len(nx.log)
      /\ Len(st.log) \in Nat /\ Len(nx.log) \in Nat /\ Len(st.log) <= Len(nx.log)
  BY Lengths DEF Appends
<1>2. \A i \in 1 .. Len(st.log) :
        /\ LetterAt(nx, i) = LetterAt(st, i)
        /\ i \in Pending(nx, s) <=> i \in Pending(st, s)
  BY <1>1 DEF Appends, LetterAt, Pending
<1>3. \A i : LetterAt(nx, i).id = i /\ LetterAt(st, i).id = i
  BY DEF LetterAt
<1>4. Letters(st, s) \subseteq Letters(nx, s)
  BY <1>1, <1>2 DEF Letters, Pending
<1>5. ASSUME NEW l \in Letters(nx, s) \ Letters(st, s)
      PROVE  l.id \in NewRows(st, nx) /\ nx.log[l.id].to = s /\ l = LetterAt(nx, l.id)
  <2>1. PICK i \in Pending(nx, s) : l = LetterAt(nx, i)
    BY <1>5 DEF Letters
  <2>2. i \in 1 .. Len(nx.log) /\ nx.log[i].to = s
    BY <1>1, <2>1 DEF Pending
  <2>3. i \notin 1 .. Len(st.log)
    BY <1>2, <1>5, <2>1 DEF Letters
  <2>4. QED
    BY <1>1, <1>3, <2>1, <2>2, <2>3 DEF NewRows
<1>6. ASSUME NEW i \in NewRows(st, nx), nx.log[i].to = s
      PROVE  LetterAt(nx, i) \in Letters(nx, s) \ Letters(st, s)
  <2>1. i \in Pending(nx, s) /\ i \notin 1 .. Len(st.log)
    BY <1>1, <1>6 DEF Appends, NewRows, Pending
  <2>2. \A j \in Pending(st, s) : LetterAt(st, j) # LetterAt(nx, i)
    BY <1>1, <1>3, <2>1 DEF Pending
  <2>3. QED
    BY <2>1, <2>2 DEF Letters
<1>7. QED
  BY <1>4, <1>5, <1>6

(* The keys an address has ever accepted after a batch. *)
LEMMA KeysAfterAppend ==
  ASSUME NEW st \in Store, NEW nx \in Store, Appends(st, nx), NEW s \in Sessions
  PROVE  SpentKeys(nx, s) =
           SpentKeys(st, s) \cup Promise!KeysOf(Letters(nx, s) \ Letters(st, s))
<1> DEFINE arrivals == Letters(nx, s) \ Letters(st, s)
<1>1. /\ DOMAIN st.log = 1 .. Len(st.log) /\ DOMAIN nx.log = 1 .. Len(nx.log)
      /\ Len(st.log) \in Nat /\ Len(nx.log) \in Nat /\ Len(st.log) <= Len(nx.log)
  BY Lengths DEF Appends
<1>2. \A i : LetterAt(nx, i).key = nx.log[i].key
  BY DEF LetterAt
<1>3. ASSUME NEW k \in SpentKeys(nx, s) PROVE k \in SpentKeys(st, s) \cup Promise!KeysOf(arrivals)
  <2>1. PICK i \in DOMAIN nx.log : nx.log[i].to = s /\ nx.log[i].key # NoKey /\ k = nx.log[i].key
    BY <1>3 DEF SpentKeys, Keyed
  <2>2. CASE i \in 1 .. Len(st.log)
    BY <1>1, <2>1, <2>2 DEF Appends, SpentKeys, Keyed
  <2>3. CASE i \in NewRows(st, nx)
    <3>1. LetterAt(nx, i) \in arrivals
      BY <2>1, <2>3, LettersAfterAppend
    <3> HIDE DEF arrivals
    <3>2. QED
      BY <1>2, <2>1, <3>1 DEF Promise!KeysOf
  <2>4. QED
    BY <1>1, <2>1, <2>2, <2>3 DEF NewRows
<1>4. ASSUME NEW k \in SpentKeys(st, s) PROVE k \in SpentKeys(nx, s)
  BY <1>1, <1>4 DEF Appends, SpentKeys, Keyed
<1>5. ASSUME NEW k \in Promise!KeysOf(arrivals) PROVE k \in SpentKeys(nx, s)
  <2>1. PICK l \in arrivals : l.key # NoKey /\ k = l.key
    <3> HIDE DEF arrivals
    <3>1. QED
      BY <1>5 DEF Promise!KeysOf
  <2>2. l.id \in NewRows(st, nx) /\ nx.log[l.id].to = s /\ l = LetterAt(nx, l.id)
    BY <2>1, LettersAfterAppend
  <2>3. k = nx.log[l.id].key /\ l.id \in DOMAIN nx.log
    BY <1>1, <1>2, <2>1, <2>2 DEF NewRows
  <2>4. QED
    BY <2>1, <2>2, <2>3 DEF SpentKeys, Keyed
<1>6. QED
  BY <1>3, <1>4, <1>5

(* Publishing a batch is a Post. *)
LEMMA AppendPosts ==
  ASSUME IInv, db' \in Store, KeysIn(db'), Appends(db, db')
  PROVE  Promise!Post
<1> DEFINE new(s) == Letters(db', s) \ Letters(db, s)
<1>1. /\ db \in Store
      /\ DOMAIN db.log = 1 .. Len(db.log) /\ DOMAIN db'.log = 1 .. Len(db'.log)
      /\ Len(db.log) \in Nat /\ Len(db'.log) \in Nat /\ Len(db.log) <= Len(db'.log)
  BY Lengths DEF Appends, IInv, TypeOK
<1>2. \A s \in Sessions : \A l \in new(s) :
        l.id \in NewRows(db, db') /\ db'.log[l.id].to = s /\ l = LetterAt(db', l.id)
  BY <1>1, LettersAfterAppend
<1>3. \A s \in Sessions : Letters(db, s) \subseteq Letters(db', s)
  BY <1>1, LettersAfterAppend
<1>4. \A s \in Sessions : SpentKeys(db', s) = SpentKeys(db, s) \cup Promise!KeysOf(new(s))
  BY <1>1, KeysAfterAppend
<1>5. \A s \in Sessions : Promise!Arrivals(s) = new(s)
  BY DEF Promise!Arrivals
<1>6. \A i \in NewRows(db, db') :
        i \in DOMAIN db'.log /\ i \notin DOMAIN db.log /\ i \in Nat /\ db'.log[i] \in Row
  BY <1>1 DEF NewRows, Store
<1> HIDE DEF new
<1>7. ASSUME NEW s \in Sessions PROVE Promise!Deliver(s)
  <2>1. ASSUME NEW l \in new(s)
        PROVE  /\ l \in Promise!Letter
               /\ l.id \in Len(db.log) + 1 .. Len(db'.log)
               /\ l.key = db'.log[l.id].key
               /\ db.addr[s] = "live"
    BY <1>2, <1>6, <2>1 DEF Promise!Letter, LetterAt, Row, NewRows, Appends
  <2>2. Promise!KeysOf(new(s)) \cap SpentKeys(db, s) = {}
    <3> SUFFICES ASSUME NEW l \in new(s), l.key # NoKey, l.key \in SpentKeys(db, s)
                 PROVE  FALSE
      BY DEF Promise!KeysOf
    <3>1. PICK i \in DOMAIN db.log : db.log[i].to = s /\ db.log[i].key = l.key
      BY DEF SpentKeys, Keyed
    <3>2. db'.log[i] = db.log[i] /\ i \in DOMAIN db'.log
      BY <1>1, <3>1 DEF Appends
    <3>3. i = l.id
      BY <1>2, <1>6, <2>1, <3>1, <3>2 DEF KeysIn
    <3>4. QED
      BY <1>2, <1>6, <3>1, <3>3
  <2>3. ASSUME NEW l \in new(s), NEW m \in new(s), l.key = m.key, l.key # NoKey
        PROVE  l = m
    <3>1. l.id = m.id
      BY <1>2, <1>6, <2>1, <2>3 DEF KeysIn
    <3>2. QED
      BY <1>2, <3>1
  <2>4. QED
    BY <1>3, <1>4, <1>5, <2>1, <2>2, <2>3 DEF Promise!Deliver
<1>8. \A s, t \in Sessions : \A l \in new(s), m \in new(t) : l.id = m.id => s = t /\ l = m
  BY <1>2
<1>9. db'.addr = db.addr
  BY DEF Appends
<1>10. QED
  BY <1>1, <1>5, <1>7, <1>8, <1>9 DEF Promise!Post

(* Marking the head of an address takes its oldest letter. *)
LEMMA MarkTakes ==
  ASSUME NEW st \in Store, NEW s \in Sessions, NEW k \in DOMAIN st.log, IsHead(st, s, k)
  PROVE  LET nx == [st EXCEPT !.log[k].taken = TRUE] IN
           /\ nx.addr = st.addr
           /\ Len(nx.log) = Len(st.log)
           /\ LetterAt(st, k) \in Letters(st, s)
           /\ \A m \in Letters(st, s) : k <= m.id
           /\ Letters(nx, s) = Letters(st, s) \ {LetterAt(st, k)}
           /\ \A t \in Sessions \ {s} : Letters(nx, t) = Letters(st, t)
           /\ \A t \in Sessions : SpentKeys(nx, t) = SpentKeys(st, t)
<1> DEFINE nx == [st EXCEPT !.log[k].taken = TRUE]
<1>1. st.log \in Seq(Row) /\ DOMAIN st.log = 1 .. Len(st.log) /\ Len(st.log) \in Nat
  BY Lengths DEF Store
<1>2. nx.addr = st.addr /\ nx.log = [st.log EXCEPT ![k].taken = TRUE]
  <2>1. nx = [st EXCEPT !.log = [st.log EXCEPT ![k].taken = TRUE]]
    OBVIOUS
  <2>2. QED
    BY <2>1, StoreUpdate
<1>3. st.log[k] \in Row
  BY <1>1
<1>4. nx.log = [st.log EXCEPT ![k] = [st.log[k] EXCEPT !.taken = TRUE]]
  BY <1>1, <1>2
<1>5. DOMAIN nx.log = DOMAIN st.log
  BY <1>4
<1>6. nx.log[k].taken = TRUE
  BY <1>1, <1>3, <1>4 DEF Row
<1>7. \A i \in DOMAIN st.log :
        /\ nx.log[i].to = st.log[i].to
        /\ nx.log[i].key = st.log[i].key
        /\ nx.log[i].content = st.log[i].content
        /\ i # k => nx.log[i] = st.log[i]
  BY <1>1, <1>3, <1>4 DEF Row
<1>8. Len(nx.log) = Len(st.log)
  <2>1. [st.log[k] EXCEPT !.taken = TRUE] \in Row
    BY <1>3 DEF Row
  <2>2. QED
    BY <1>1, <1>4, <2>1
<1> HIDE DEF nx
<1>9. \A i \in DOMAIN st.log : LetterAt(nx, i) = LetterAt(st, i)
  BY <1>7 DEF LetterAt
<1>10. \A i : LetterAt(st, i).id = i
  BY DEF LetterAt
<1>11. k \in Pending(st, s) /\ st.log[k].to = s /\ \A j \in Pending(st, s) : k <= j
  BY DEF IsHead, Pending
<1>12. Pending(nx, s) = Pending(st, s) \ {k}
  BY <1>5, <1>6, <1>7 DEF Pending
<1>13. \A t \in Sessions \ {s} : Pending(nx, t) = Pending(st, t)
  BY <1>5, <1>6, <1>7, <1>11 DEF Pending
<1>14. \A t : Pending(st, t) \subseteq DOMAIN st.log
  BY DEF Pending
<1>15. Letters(nx, s) = Letters(st, s) \ {LetterAt(st, k)}
  BY <1>9, <1>10, <1>12, <1>14 DEF Letters
<1>16. \A t \in Sessions \ {s} : Letters(nx, t) = Letters(st, t)
  BY <1>9, <1>13, <1>14 DEF Letters
<1>17. \A t \in Sessions : SpentKeys(nx, t) = SpentKeys(st, t)
  BY <1>5, <1>7 DEF SpentKeys, Keyed
<1>18. \A m \in Letters(st, s) : k <= m.id
  BY <1>10, <1>11 DEF Letters
<1>19. QED
  BY <1>2, <1>8, <1>11, <1>15, <1>16, <1>17, <1>18 DEF Letters, nx

LEMMA DequeueTakes ==
  ASSUME IInv, NEW h \in Handles, NEW s \in Sessions, Dequeue(h, s)
  PROVE  Promise!Take(s)
<1>1. working \in Store /\ working = db /\ writer = NoHandle /\ db.addr[s] = "live"
  BY DEF IInv, TypeOK, Dequeue, Autocommit, WorkingExtends
<1>2. PICK k \in DOMAIN db.log :
        IsHead(db, s, k) /\ db' = [db EXCEPT !.log[k].taken = TRUE]
  BY <1>1, ProtocolAssumption DEF Dequeue, Write
<1>3. /\ db'.addr = db.addr /\ Len(db'.log) = Len(db.log)
      /\ LetterAt(db, k) \in Letters(db, s)
      /\ \A m \in Letters(db, s) : k <= m.id
      /\ Letters(db', s) = Letters(db, s) \ {LetterAt(db, k)}
      /\ \A t \in Sessions \ {s} : Letters(db', t) = Letters(db, t)
      /\ \A t \in Sessions : SpentKeys(db', t) = SpentKeys(db, t)
  BY <1>1, <1>2, MarkTakes
<1>4. LetterAt(db, k).id = k
  BY DEF LetterAt
<1>5. Promise!IsOldest(s, LetterAt(db, k))
  BY <1>3, <1>4 DEF Promise!IsOldest
<1>6. QED
  BY <1>1, <1>3, <1>5 DEF Promise!Take

(* A change of an address alone opens it, closes it, or changes nothing.   *)
LEMMA AddressMaps ==
  ASSUME IInv, NEW s \in Sessions, NEW a \in {"live", "retired"},
         db' = [db EXCEPT !.addr[s] = a],
         a = "live" => db.addr[s] # "retired",
         a = "retired" => db.addr[s] # "unknown" /\ (db.addr[s] = "live" => Pending(db, s) = {})
  PROVE  Promise!Open(s) \/ Promise!Close(s) \/ UNCHANGED db
<1>1. db \in Store /\ db.addr \in [Sessions -> Status]
  BY DEF IInv, TypeOK, Store
<1>2. db' = [addr |-> [db.addr EXCEPT ![s] = a], log |-> db.log]
  BY <1>1 DEF Store
<1>3. db'.addr = [db.addr EXCEPT ![s] = a] /\ db'.log = db.log
  BY <1>2
<1>4. \A t \in Sessions : Letters(db', t) = Letters(db, t) /\ SpentKeys(db', t) = SpentKeys(db, t)
  BY <1>3 DEF Letters, LetterAt, Pending, SpentKeys, Keyed
<1>5. CASE db.addr[s] = a
  <2>1. db'.addr = db.addr
    BY <1>1, <1>3, <1>5
  <2>2. db = [addr |-> db.addr, log |-> db.log]
    BY <1>1 DEF Store
  <2>3. QED
    BY <1>2, <1>3, <2>1, <2>2
<1>6. CASE a = "live" /\ db.addr[s] = "unknown"
  BY <1>3, <1>4, <1>6 DEF Promise!Open
<1>7. CASE a = "retired" /\ db.addr[s] = "live"
  <2>1. Letters(db, s) = {}
    BY <1>7 DEF Letters
  <2>2. QED
    BY <1>3, <1>4, <1>7, <2>1 DEF Promise!Close
<1>8. db.addr[s] \in {"unknown", "live", "retired"}
  BY <1>1 DEF Status
<1>9. QED
  BY <1>5, <1>6, <1>7, <1>8

LEMMA StepRefines ==
  IInv /\ Appends(db, working) /\ [Next]_vars => [Promise!MailboxNext]_(Promise!mailboxVars)
<1> SUFFICES ASSUME IInv, Appends(db, working), [Next]_vars
             PROVE  Promise!MailboxNext \/ UNCHANGED Promise!mailboxVars
  OBVIOUS
<1> DEFINE Goal == Promise!MailboxNext \/ UNCHANGED Promise!mailboxVars
<1>1. db \in Store /\ working \in Store /\ db' \in Store /\ working' \in Store /\ KeysIn(db')
  BY NextKeeps DEF IInv, TypeOK, StoreOK
<1>2. ASSUME UNCHANGED db PROVE Goal
  BY <1>2 DEF Promise!mailboxVars
<1>3. ASSUME Appends(db, db') PROVE Goal
  BY <1>1, <1>3, AppendPosts DEF Promise!MailboxNext
<1>4. ASSUME NEW h \in Handles, NEW s \in Sessions, AddressCall(h, s)
      PROVE  Goal
  <2>1. CASE Initialize(h, s)
    <3>1. working = db /\ db' = [db EXCEPT !.addr[s] = "live"] /\ db.addr[s] # "retired"
      BY <2>1, ProtocolAssumption DEF Initialize, Autocommit, Write, IInv, WorkingExtends
    <3>2. Promise!Open(s) \/ Promise!Close(s) \/ UNCHANGED db
      BY <3>1, AddressMaps
    <3>3. QED
      BY <1>2, <3>2 DEF Promise!MailboxNext
  <2>2. CASE Retire(h, s)
    <3>1. /\ working = db /\ db' = [db EXCEPT !.addr[s] = "retired"]
          /\ db.addr[s] # "unknown" /\ (db.addr[s] = "live" => Pending(db, s) = {})
      BY <2>2, ProtocolAssumption DEF Retire, Autocommit, Write, IInv, WorkingExtends
    <3>2. Promise!Open(s) \/ Promise!Close(s) \/ UNCHANGED db
      BY <3>1, AddressMaps
    <3>3. QED
      BY <1>2, <3>2 DEF Promise!MailboxNext
  <2>3. CASE Dequeue(h, s)
    BY <2>3, DequeueTakes DEF Promise!MailboxNext
  <2>4. CASE InitializeRefused(h, s) \/ DequeueEmpty(h, s) \/ DequeueRefused(h, s) \/ RetireRefused(h, s)
    BY <1>2, <2>4 DEF InitializeRefused, DequeueEmpty, DequeueRefused, RetireRefused, KeepStore
  <2>5. QED
    BY <1>4, <2>1, <2>2, <2>3, <2>4 DEF AddressCall
<1>5. ASSUME NEW h \in Handles, NEW m \in Message, MessageCall(h, m)
      PROVE  Goal
  <2>1. CASE Enqueue(h, m)
    <3>1. CASE writer = h
      BY <1>2, <2>1, <3>1 DEF Enqueue, Write
    <3>2. CASE writer = NoHandle
      <4>1. working' = db'
        BY <2>1, <3>2, ProtocolAssumption DEF Enqueue, Write
      <4>2. Appends(db, db')
        BY <2>1, <3>2, <4>1, EnqueueAppends DEF IInv, WorkingExtends
      <4>3. QED
        BY <1>3, <4>2
    <3>3. QED
      BY <2>1, <3>1, <3>2 DEF Enqueue, MayWrite
  <2>2. CASE EnqueueReplayed(h, m) \/ EnqueueRefused(h, m)
    BY <1>2, <2>2 DEF EnqueueReplayed, EnqueueRefused, KeepStore
  <2>3. QED
    BY <1>5, <2>1, <2>2 DEF MessageCall
<1>6. ASSUME NEW h \in Handles, HandleStep(h)
      PROVE  Goal
  <2>1. CASE Commit(h)
    BY <1>3, <2>1 DEF Commit
  <2>2. CASE ~Commit(h)
    BY <1>2, <1>6, <2>2 DEF HandleStep, Begin, Rollback, ReentryRejected, BusyRejected, Crash, KeepStore
  <2>3. QED
    BY <2>1, <2>2
<1>7. CASE UNCHANGED vars
  BY <1>2, <1>7 DEF vars
<1>8. QED
  BY <1>4, <1>5, <1>6, <1>7 DEF Next

(* The session protocol keeps the promise of the abstract mailbox, for     *)
(* every set of addresses, handles, keys and contents: what commits become *)
(* visible is a sequence of openings, posted batches, heads taken in order *)
(* and closings of emptied addresses (engine.ts).                          *)
THEOREM Refinement == Spec => ImplementsMailbox
<1>1. Init => Promise!MailboxInit
  <2> SUFFICES ASSUME Init PROVE Promise!MailboxInit
    OBVIOUS
  <2>1. db.addr = [s \in Sessions |-> "unknown"] /\ db.log = <<>>
    BY DEF Init, EmptyStore
  <2>2. DOMAIN db.log = {} /\ Len(db.log) = 0
    BY <2>1
  <2>3. \A s \in Sessions : Letters(db, s) = {} /\ SpentKeys(db, s) = {}
    BY <2>2 DEF Letters, Pending, SpentKeys, Keyed
  <2>4. QED
    BY <2>1, <2>2, <2>3 DEF Promise!MailboxInit
<1>2. Init => Appends(db, working)
  BY InitEstablishes, AppendsNothing DEF Init, IInv, TypeOK
<1>3. Spec => []Appends(db, working)
  BY <1>2, Invariance, AppendsKept, PTL DEF Spec
<1>4. QED
  BY <1>1, <1>3, Invariance, StepRefines, PTL DEF Spec, ImplementsMailbox, Promise!MailboxSpec
=============================================================================
