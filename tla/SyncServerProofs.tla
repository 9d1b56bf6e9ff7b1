-------------------------- MODULE SyncServerProofs --------------------------
(***************************************************************************)
(* The sync path keeps its promises for any number of connections,         *)
(* devices, providers and accounts and any length of history: its state is *)
(* well typed, write permits are conserved, cursors belong to registered   *)
(* devices and, while devices only upload, a cursor covers only events the *)
(* store holds and a reply only what the cursor covers.                    *)
(***************************************************************************)
EXTENDS SyncServer, FiniteSetTheorems, TLAPS

(* A batch in progress has a start, and does not end before it. *)
BatchHasStart ==
  \A c \in Conns : InBatch(c) => conn[c].from # None /\ conn[c].from <= conn[c].hi

TypeInv == TypeOK /\ BatchHasStart /\ PermitsConserved

LEMMA ClosedType == Closed \in Conn /\ Closed.st = "closed"
  BY SyncAssumption DEF Closed, Conn, States

LEMMA HoldersFinite == IsFiniteSet(Holders) /\ Cardinality(Holders) \in Nat
  BY SyncAssumption, FS_Subset, FS_CardinalityType DEF Holders

(* A step after which the same connections are in their store write, with    *)
(* the same permits, keeps the permits' balance.                             *)
LEMMA PermitsUntouched ==
  ASSUME PermitsConserved, permits' = permits,
         \A c \in Conns : conn'[c].st \in HolderStates <=> conn[c].st \in HolderStates
  PROVE  PermitsConserved'
  <1>1. Holders' = Holders
    BY DEF Holders
  <1> QED BY <1>1 DEF PermitsConserved

(* The connections after a step are typed, the same ones hold a permit.      *)
ConnsOK     == conn' \in [Conns -> Conn] /\ BatchHasStart'
SameHolders ==
  \A x \in Conns : conn'[x].st \in HolderStates <=> conn[x].st \in HolderStates

BatchStates == {"check", "ensure", "empty", "permit", "upsert", "advance"}

(* The update of one connection's record, as every handler step makes it.    *)
LEMMA OneConn ==
  ASSUME TypeOK, BatchHasStart, NEW c \in Conns, NEW r \in Conn,
         conn' = [conn EXCEPT ![c] = r],
         r.st \in BatchStates => r.from # None /\ r.from <= r.hi
  PROVE  ConnsOK /\ ((r.st \in HolderStates <=> conn[c].st \in HolderStates) => SameHolders)
  BY DEF TypeOK, BatchHasStart, InBatch, ConnsOK, SameHolders, BatchStates

LEMMA GotoOK ==
  ASSUME TypeOK, BatchHasStart, NEW c \in Conns, NEW s \in States, Goto(c, s),
         s \in BatchStates => InBatch(c)
  PROVE  ConnsOK /\ ((s \in HolderStates <=> conn[c].st \in HolderStates) => SameHolders)
  <1> DEFINE r == [conn[c] EXCEPT !.st = s]
  <1>1. conn[c] \in Conn
    BY DEF TypeOK
  <1>2. r \in Conn /\ r.st = s /\ r.from = conn[c].from /\ r.hi = conn[c].hi
    BY <1>1 DEF Conn
  <1>3. conn' = [conn EXCEPT ![c] = r]
    BY DEF Goto, TypeOK
  <1>4. r.st \in BatchStates => r.from # None /\ r.from <= r.hi
    BY <1>2 DEF BatchHasStart
  <1> HIDE DEF r
  <1> QED BY <1>2, <1>3, <1>4, OneConn

LEMMA HangupOK ==
  ASSUME TypeOK, BatchHasStart, NEW c \in Conns, Hangup(c)
  PROVE  ConnsOK /\ (conn[c].st \notin HolderStates => SameHolders)
  BY ClosedType, OneConn DEF Hangup, BatchStates, HolderStates

LEMMA RefuseOK ==
  ASSUME TypeOK, BatchHasStart, NEW c \in Conns, Refuse(c)
  PROVE  /\ ConnsOK /\ (conn[c].st \notin HolderStates => SameHolders)
         /\ conn'[c].st \notin HolderStates /\ \A x \in Conns : x # c => conn'[x] = conn[x]
  <1> DEFINE r == [conn[c] EXCEPT !.st = "ready", !.hi = 0]
  <1>0. conn[c] \in Conn /\ 0 \in 0..MaxTs
    BY SyncAssumption DEF TypeOK
  <1>1. r \in Conn /\ r.st = "ready"
    BY <1>0 DEF Conn, States
  <1>2. CASE conn[c].peer
    <2>1. conn' = [conn EXCEPT ![c] = r]
      BY <1>2 DEF Refuse, TypeOK
    <2> HIDE DEF r
    <2> QED BY <1>1, <2>1, OneConn DEF BatchStates, HolderStates, TypeOK
  <1>3. CASE ~conn[c].peer
    <2>1. Hangup(c)
      BY <1>3 DEF Refuse
    <2> QED BY <2>1, HangupOK, ClosedType DEF Hangup, HolderStates, TypeOK
  <1> QED BY <1>2, <1>3

(* A step of a handler that changes only its connection.                     *)
LEMMA ConnOnly ==
  ASSUME TypeInv, ConnsOK, SameHolders,
         UNCHANGED <<db, store, permits, accepting, del, acked>>
  PROVE  TypeInv'
  BY PermitsUntouched DEF TypeInv, TypeOK, ConnsOK, SameHolders, db

(* A step that also changes the device rows, cursors or acks, to typed ones. *)
LEMMA ConnAndDb ==
  ASSUME TypeInv, ConnsOK, SameHolders,
         UNCHANGED <<userRow, active, store, permits, accepting, del>>,
         deviceRow' \in [Devices -> BOOLEAN],
         cursor' \in [Devices -> [Providers -> 0..MaxTs \cup {None}]],
         acked' \in [Devices -> [Providers -> 0..MaxTs]]
  PROVE  TypeInv'
  BY PermitsUntouched DEF TypeInv, TypeOK, ConnsOK, SameHolders

LEMMA NatBounds == 0 \in 0..MaxTs /\ MaxTs \in Nat /\ None \notin Int
  BY SyncAssumption

LEMMA EnsuredType ==
  ASSUME TypeOK, NEW d \in Devices, NEW p \in Providers
  PROVE  EnsuredCursor(d, p) \in [Devices -> [Providers -> 0..MaxTs \cup {None}]]
  BY NatBounds DEF TypeOK, EnsuredCursor

LEMMA ResetType ==
  ASSUME TypeOK, NEW d \in Devices, NEW p \in Providers
  PROVE  ResetCursor(d, p) \in [Devices -> [Providers -> 0..MaxTs \cup {None}]]
  BY NatBounds DEF TypeOK, ResetCursor

LEMMA AdvancedType ==
  ASSUME TypeOK, NEW d \in Devices, NEW p \in Providers, NEW t \in 0..MaxTs
  PROVE  Advanced(d, p, t) \in [Devices -> [Providers -> 0..MaxTs \cup {None}]]
  BY NatBounds DEF TypeOK, Advanced, Max2

LEMMA TablesEmpty ==
  /\ NoCursors \in [Providers -> 0..MaxTs \cup {None}]
  /\ NoEvents \in [Providers -> SUBSET Ts]
  /\ NoAcks \in [Providers -> 0..MaxTs]
  BY NatBounds DEF NoCursors, NoEvents, NoAcks

(* Authentication and the schema reset keep the types.                       *)
LEMMA AuthTypes ==
  ASSUME TypeInv, NEW c \in Conns,
         \/ AuthActive(c) \/ FindDevice(c) \/ CreateDevice(c) \/ EnsureFirst(c)
         \/ SchemaPurge(c) \/ SchemaReset(c)
  PROVE  TypeInv'
  <1> USE DEF TypeInv
  <1>c. conn[c].dev \in Devices /\ conn[c].prov \in Providers
    BY DEF TypeOK, Conn
  <1>1. CASE AuthActive(c)
    <2>1. ConnsOK /\ SameHolders
      BY <1>1, GotoOK, HangupOK DEF AuthActive, At, States, BatchStates, HolderStates
    <2> QED BY <1>1, <2>1, ConnOnly DEF AuthActive
  <1>2. CASE FindDevice(c)
    <2>1. ConnsOK /\ SameHolders
      BY <1>2, GotoOK DEF FindDevice, At, AfterDevice, States, BatchStates, HolderStates
    <2> QED BY <1>2, <2>1, ConnOnly DEF FindDevice
  <1>3. CASE CreateDevice(c)
    <2>1. ConnsOK /\ SameHolders
      BY <1>3, GotoOK, HangupOK DEF CreateDevice, At, AfterDevice, States, BatchStates, HolderStates
    <2>2. deviceRow' \in [Devices -> BOOLEAN]
      BY <1>3 DEF CreateDevice, TypeOK
    <2> QED BY <1>3, <2>1, <2>2, ConnAndDb DEF CreateDevice, TypeOK
  <1>4. CASE EnsureFirst(c)
    <2>1. ConnsOK /\ SameHolders
      BY <1>4, GotoOK, HangupOK DEF EnsureFirst, At, States, BatchStates, HolderStates
    <2>2. cursor' \in [Devices -> [Providers -> 0..MaxTs \cup {None}]]
      BY <1>4, <1>c, EnsuredType DEF EnsureFirst, TypeOK
    <2> QED BY <1>4, <2>1, <2>2, ConnAndDb DEF EnsureFirst, TypeOK
  <1>5. CASE SchemaPurge(c)
    <2>1. ConnsOK /\ SameHolders
      BY <1>5, GotoOK DEF SchemaPurge, At, States, BatchStates, HolderStates
    <2>2. store' \in [Devices -> [Providers -> SUBSET Ts]]
      BY <1>5, TablesEmpty DEF SchemaPurge, TypeOK
    <2> QED BY <1>5, <2>1, <2>2, PermitsUntouched
        DEF SchemaPurge, TypeOK, ConnsOK, SameHolders, db
  <1>6. CASE SchemaReset(c)
    <2>1. ConnsOK /\ SameHolders
      BY <1>6, GotoOK DEF SchemaReset, At, States, BatchStates, HolderStates
    <2>2. cursor' \in [Devices -> [Providers -> 0..MaxTs \cup {None}]]
      BY <1>6, <1>c, ResetType DEF SchemaReset, TypeOK
    <2>3. acked' \in [Devices -> [Providers -> 0..MaxTs]]
      BY <1>6, <1>c, TablesEmpty DEF SchemaReset, TypeOK
    <2> QED BY <1>6, <2>1, <2>2, <2>3, ConnAndDb DEF SchemaReset, TypeOK
  <1> QED BY <1>1, <1>2, <1>3, <1>4, <1>5, <1>6

(* A batch or windows upload, from its frame to its reply, keeps the types;  *)
(* the permit it takes for the store write is given back, whether the write  *)
(* fails or not.                                                             *)
LEMMA BatchTypes ==
  ASSUME TypeInv, NEW c \in Conns,
         \/ BatchActive(c) \/ EnsureCursor(c) \/ AnswerEmpty(c) \/ RefuseTooLarge(c)
         \/ AcquirePermit(c) \/ UpsertEvents(c) \/ UpsertFails(c)
         \/ WindowsActive(c) \/ AcquireWindowsPermit(c) \/ UpsertWindows(c)
         \/ AdvanceCursor(c) \/ AdvanceFails(c) \/ HandlerFails(c)
  PROVE  TypeInv'
  <1> USE DEF TypeInv
  <1>c. /\ conn[c] \in Conn
        /\ conn[c].dev \in Devices /\ conn[c].bprov \in Providers
        /\ conn[c].hi \in 0..MaxTs /\ conn[c].from \in 0..MaxTs \cup {None}
    BY DEF TypeOK, Conn
  <1>h. IsFiniteSet(Holders) /\ Cardinality(Holders) \in Nat
    BY HoldersFinite
  <1>a. ASSUME NEW s \in HolderStates, Goto(c, s), conn[c].st \notin HolderStates,
               permits > 0, permits' = permits - 1
        PROVE  PermitsConserved' /\ permits' \in 0..MaxWrites
    <2>1. conn'[c].st = s /\ \A x \in Conns : x # c => conn'[x] = conn[x]
      BY <1>a, <1>c DEF Goto, TypeOK, Conn
    <2>2. c \notin Holders /\ Holders' = Holders \cup {c}
      BY <1>a, <2>1 DEF Holders
    <2>3. Cardinality(Holders') = Cardinality(Holders) + 1
      BY <1>h, <2>2, FS_AddElement
    <2> QED BY <1>a, <1>h, <2>3, SyncAssumption DEF PermitsConserved, TypeOK
  <1>1. CASE BatchActive(c)
    <2>1. ConnsOK /\ SameHolders
      BY <1>1, GotoOK, HangupOK DEF BatchActive, At, InBatch, States, BatchStates, HolderStates
    <2> QED BY <1>1, <2>1, ConnOnly DEF BatchActive
  <1>2. CASE EnsureCursor(c)
    <2>1. ConnsOK /\ SameHolders
      BY <1>2, GotoOK, HangupOK DEF EnsureCursor, At, InBatch, States, BatchStates, HolderStates
    <2>2. cursor' \in [Devices -> [Providers -> 0..MaxTs \cup {None}]]
      BY <1>2, <1>c, EnsuredType DEF EnsureCursor, TypeOK
    <2> QED BY <1>2, <2>1, <2>2, ConnAndDb DEF EnsureCursor, TypeOK
  <1>3. CASE AnswerEmpty(c)
    <2> DEFINE a == cursor[conn[c].dev][conn[c].bprov]
               r == [conn[c] EXCEPT !.st = "ack", !.ack = IF a = None THEN 0 ELSE a]
    <2>1. a \in 0..MaxTs \cup {None}
      BY <1>c DEF TypeOK
    <2>2. r \in Conn /\ r.st = "ack"
      BY <1>c, <2>1, NatBounds DEF Conn, States
    <2>3. conn' = [conn EXCEPT ![c] = r]
      BY <1>3 DEF AnswerEmpty, TypeOK
    <2> HIDE DEF r
    <2>4. ConnsOK /\ SameHolders
      BY <1>3, <2>2, <2>3, OneConn DEF AnswerEmpty, At, BatchStates, HolderStates
    <2> QED BY <1>3, <2>4, ConnOnly DEF AnswerEmpty
  <1>4. CASE RefuseTooLarge(c)
    BY <1>4, RefuseOK, ConnOnly DEF RefuseTooLarge, At, HolderStates
  <1>5. CASE AcquirePermit(c)
    <2>1. ConnsOK
      BY <1>5, GotoOK DEF AcquirePermit, At, InBatch, States, BatchStates, HolderStates
    <2>2. PermitsConserved' /\ permits' \in 0..MaxWrites
      BY <1>5, <1>a DEF AcquirePermit, At, HolderStates
    <2> QED BY <1>5, <2>1, <2>2 DEF AcquirePermit, TypeOK, ConnsOK, db
  <1>r. ASSUME conn[c].st \in HolderStates, conn'[c].st \notin HolderStates,
               \A x \in Conns : x # c => conn'[x] = conn[x], permits' = permits + 1
        PROVE  PermitsConserved' /\ permits' \in 0..MaxWrites
    <2>1. c \in Holders /\ Holders' = Holders \ {c}
      BY <1>r DEF Holders
    <2>2. Cardinality(Holders') = Cardinality(Holders) - 1 /\ Cardinality(Holders') \in Nat
      BY <1>h, <2>1, FS_RemoveElement, FS_CardinalityType
    <2> QED BY <1>h, <1>r, <2>2, SyncAssumption DEF PermitsConserved, TypeOK
  <1>6. CASE UpsertEvents(c)
    <2>1. ConnsOK
      BY <1>6, GotoOK DEF UpsertEvents, At, InBatch, States, BatchStates, HolderStates
    <2>2. PermitsConserved' /\ permits' \in 0..MaxWrites
      BY <1>6, <1>r, <1>c DEF UpsertEvents, At, Goto, TypeOK, Conn, HolderStates
    <2>3. conn[c].from \in Nat
      BY <1>6, <1>c, NatBounds DEF UpsertEvents, At, BatchHasStart, InBatch
    <2>4. (conn[c].from + 1)..conn[c].hi \subseteq Ts
      BY <1>c, <2>3, NatBounds DEF Ts
    <2>5. store' \in [Devices -> [Providers -> SUBSET Ts]]
      BY <1>6, <1>c, <2>4 DEF UpsertEvents, TypeOK
    <2> QED BY <1>6, <2>1, <2>2, <2>5 DEF UpsertEvents, TypeOK, ConnsOK, db
  <1>7. CASE UpsertFails(c)
    <2>1. ConnsOK /\ PermitsConserved' /\ permits' \in 0..MaxWrites
      BY <1>7, <1>r, RefuseOK DEF UpsertFails, At, HolderStates
    <2> QED BY <1>7, <2>1 DEF UpsertFails, TypeOK, ConnsOK, db
  <1>8. CASE AdvanceCursor(c)
    <2> DEFINE r == [conn[c] EXCEPT !.st = "ack", !.ack = conn[c].hi]
    <2>1. r \in Conn /\ r.st = "ack"
      BY <1>c DEF Conn, States
    <2>2. conn' = [conn EXCEPT ![c] = r]
      BY <1>8 DEF AdvanceCursor, TypeOK
    <2> HIDE DEF r
    <2>3. ConnsOK /\ SameHolders
      BY <1>8, <2>1, <2>2, OneConn DEF AdvanceCursor, At, BatchStates, HolderStates
    <2>4. cursor' \in [Devices -> [Providers -> 0..MaxTs \cup {None}]]
      BY <1>8, <1>c, AdvancedType DEF AdvanceCursor
    <2> QED BY <1>8, <2>3, <2>4, ConnAndDb DEF AdvanceCursor, TypeOK
  <1>9. CASE AdvanceFails(c)
    BY <1>9, RefuseOK, ConnOnly DEF AdvanceFails, At, HolderStates
  <1>10. CASE HandlerFails(c)
    <2>1. ConnsOK /\ SameHolders
      BY <1>10, RefuseOK, HangupOK DEF HandlerFails, At, HolderStates
    <2> QED BY <1>10, <2>1, ConnOnly DEF HandlerFails
  <1>11. CASE WindowsActive(c)
    <2>1. CASE Goto(c, "wpermit")
      BY <1>11, <2>1, GotoOK, ConnOnly DEF WindowsActive, At, States, BatchStates, HolderStates
    <2>2. CASE Refuse(c) \/ Hangup(c)
      BY <1>11, <2>2, RefuseOK, HangupOK, ConnOnly DEF WindowsActive, At, HolderStates
    <2> QED BY <1>11, <2>1, <2>2 DEF WindowsActive
  <1>12. CASE AcquireWindowsPermit(c)
    <2>1. ConnsOK
      BY <1>12, GotoOK DEF AcquireWindowsPermit, States, BatchStates
    <2>2. PermitsConserved' /\ permits' \in 0..MaxWrites
      BY <1>12, <1>a DEF AcquireWindowsPermit, At, HolderStates
    <2> QED BY <1>12, <2>1, <2>2 DEF AcquireWindowsPermit, TypeOK, ConnsOK, db
  <1>13. CASE UpsertWindows(c)
    <2>1. ConnsOK
      BY <1>13, GotoOK DEF UpsertWindows, States, BatchStates
    <2>2. PermitsConserved' /\ permits' \in 0..MaxWrites
      BY <1>13, <1>r, <1>c DEF UpsertWindows, At, Goto, TypeOK, Conn, HolderStates
    <2> QED BY <1>13, <2>1, <2>2 DEF UpsertWindows, TypeOK, ConnsOK, db
  <1> QED
    BY <1>1, <1>2, <1>3, <1>4, <1>5, <1>6, <1>7, <1>8, <1>9, <1>10, <1>11, <1>12, <1>13

(* What the client does, and the reply to it, keeps the types.               *)
LEMMA ClientTypes ==
  ASSUME TypeInv, NEW c \in Conns, Client(c) \/ \E b \in BOOLEAN : Connect(c, b)
  PROVE  TypeInv'
  <1> USE DEF TypeInv
  <1>c. /\ conn[c] \in Conn
        /\ conn[c].dev \in Devices /\ conn[c].bprov \in Providers /\ conn[c].ack \in 0..MaxTs
    BY DEF TypeOK, Conn
  <1>1. ASSUME NEW p \in Providers, GetLastTs(c, p) PROVE TypeInv'
    <2> DEFINE a == cursor[conn[c].dev][p]
               r == [conn[c] EXCEPT !.bprov = p, !.from = IF a = None THEN 0 ELSE a]
    <2>1. a \in 0..MaxTs \cup {None}
      BY <1>c DEF TypeOK
    <2>2. r \in Conn /\ r.st = conn[c].st
      BY <1>c, <2>1, NatBounds DEF Conn
    <2>3. conn' = [conn EXCEPT ![c] = r]
      BY <1>1 DEF GetLastTs, TypeOK
    <2> HIDE DEF r
    <2>4. ConnsOK /\ SameHolders
      BY <1>1, <2>2, <2>3, OneConn DEF GetLastTs, At, BatchStates, HolderStates
    <2> QED BY <1>1, <2>4, ConnOnly DEF GetLastTs
  <1>2. ASSUME NEW hi \in 0..MaxTs, SendBatch(c, hi) PROVE TypeInv'
    <2> DEFINE r == [conn[c] EXCEPT !.st = "check", !.hi = hi]
    <2>2. r \in Conn /\ r.st = "check" /\ r.from = conn[c].from /\ r.hi = hi
      BY <1>c DEF Conn, States
    <2>3. conn' = [conn EXCEPT ![c] = r]
      BY <1>2 DEF SendBatch, TypeOK
    <2> HIDE DEF r
    <2>4. ConnsOK /\ SameHolders
      BY <1>2, <2>2, <2>3, OneConn DEF SendBatch, At, HolderStates
    <2> QED BY <1>2, <2>4, ConnOnly DEF SendBatch
  <1>3. CASE Close(c)
    BY <1>3, HangupOK, ConnOnly DEF Close, HolderStates
  <1>4. CASE PeerLost(c)
    <2> DEFINE r == [conn[c] EXCEPT !.peer = FALSE]
    <2>1. /\ r \in Conn /\ r.st = conn[c].st /\ r.from = conn[c].from /\ r.hi = conn[c].hi
      BY <1>c DEF Conn
    <2>2. conn' = [conn EXCEPT ![c] = r]
      BY <1>4 DEF PeerLost, TypeOK
    <2> HIDE DEF r
    <2>3. ConnsOK /\ SameHolders
      BY <2>1, <2>2, OneConn DEF BatchHasStart, InBatch, BatchStates
    <2> QED BY <1>4, <2>3, ConnOnly DEF PeerLost
  <1>5. CASE SendAck(c)
    <2> DEFINE r == [conn[c] EXCEPT !.st = "ready", !.from = conn[c].ack, !.hi = 0, !.ack = 0]
    <2>1. r \in Conn /\ r.st = "ready"
      BY <1>c, NatBounds DEF Conn, States
    <2>2. conn[c].peer => conn' = [conn EXCEPT ![c] = r]
      BY <1>5 DEF SendAck, TypeOK
    <2> HIDE DEF r
    <2>3. ConnsOK /\ SameHolders
      BY <1>5, <2>1, <2>2, OneConn, HangupOK DEF SendAck, At, BatchStates, HolderStates
    <2>4. acked' \in [Devices -> [Providers -> 0..MaxTs]]
      <3> DEFINE m == Max2(acked[conn[c].dev][conn[c].bprov], conn[c].ack)
                 n == [acked EXCEPT ![conn[c].dev][conn[c].bprov] = m]
      <3>1. m \in 0..MaxTs
        BY <1>c DEF TypeOK, Max2
      <3> HIDE DEF m
      <3>2. n \in [Devices -> [Providers -> 0..MaxTs]]
        BY <1>c, <3>1 DEF TypeOK
      <3>3. acked' = n \/ acked' = acked
        BY <1>5 DEF SendAck, m
      <3> QED BY <3>2, <3>3 DEF TypeOK
    <2> QED BY <1>5, <2>3, <2>4, ConnAndDb DEF SendAck, TypeOK, db
  <1>6. ASSUME NEW b \in BOOLEAN, NEW d \in Devices, NEW p \in Providers, Accept(c, d, p, b)
        PROVE  TypeInv'
    <2> DEFINE r == [Closed EXCEPT !.st = "auth", !.dev = d, !.prov = p,
                                   !.stale = b, !.bprov = p, !.peer = TRUE]
    <2>1. r \in Conn /\ r.st = "auth"
      BY ClosedType DEF Conn, States
    <2>2. conn' = [conn EXCEPT ![c] = r]
      BY <1>6 DEF Accept
    <2> HIDE DEF r
    <2>3. ConnsOK /\ SameHolders
      BY <1>6, <2>1, <2>2, OneConn DEF Accept, At, BatchStates, HolderStates
    <2> QED BY <1>6, <2>3, ConnOnly DEF Accept
  <1>7. CASE SendWindows(c)
    BY <1>7, GotoOK, ConnOnly DEF SendWindows, At, States, BatchStates, HolderStates
  <1>8. CASE SendWindowsReply(c)
    <2>1. ConnsOK /\ SameHolders
      BY <1>8, GotoOK, HangupOK DEF SendWindowsReply, At, States, BatchStates, HolderStates
    <2> QED BY <1>8, <2>1, ConnOnly DEF SendWindowsReply
  <1> QED BY <1>1, <1>2, <1>3, <1>4, <1>5, <1>6, <1>7, <1>8 DEF Client, Connect

(* A restart keeps the databases and starts with every permit free.          *)
LEMMA RestartTypes ==
  ASSUME TypeInv, conn' = [c \in Conns |-> Closed], permits' = MaxWrites,
         accepting' = TRUE, del' = NoDeletion,
         store' \in [Devices -> [Providers -> SUBSET Ts]], UNCHANGED <<db, acked>>
  PROVE  TypeInv'
  <1>1. Holders' = {}
    BY ClosedType DEF Holders, HolderStates
  <1>2. PermitsConserved' /\ permits' \in 0..MaxWrites
    BY <1>1, FS_EmptySet, SyncAssumption DEF PermitsConserved
  <1>3. BatchHasStart' /\ conn' \in [Conns -> Conn]
    BY ClosedType DEF BatchHasStart, InBatch
  <1>4. del' \in Deletion
    BY DEF NoDeletion, Deletion
  <1> QED BY <1>2, <1>3, <1>4 DEF TypeInv, TypeOK, db

(* Shutdown, restart, deletions and activation keep the types.               *)
LEMMA AdminTypes ==
  ASSUME TypeInv,
         \/ Shutdown \/ Restart \/ RestartCleared \/ Deleting
         \/ \E u \in Users, b \in BOOLEAN : SetUserActive(u, b)
  PROVE  TypeInv'
  <1>1. ASSUME UNCHANGED <<permits, conn>>,
               userRow' \in [Users -> BOOLEAN], active' \in [Users -> BOOLEAN],
               deviceRow' \in [Devices -> BOOLEAN], accepting' \in BOOLEAN,
               cursor' \in [Devices -> [Providers -> 0..MaxTs \cup {None}]],
               store' \in [Devices -> [Providers -> SUBSET Ts]], del' \in Deletion,
               acked' \in [Devices -> [Providers -> 0..MaxTs]]
        PROVE  TypeInv'
    BY <1>1 DEF TypeInv, TypeOK, BatchHasStart, InBatch, PermitsConserved, Holders
  <1> USE DEF TypeInv
  <1>2. CASE Shutdown
    BY <1>1, <1>2 DEF Shutdown, TypeOK, db
  <1>3. CASE Restart
    BY <1>3, RestartTypes DEF Restart, TypeOK
  <1>3a. CASE RestartCleared
    BY <1>3a, RestartTypes, TablesEmpty DEF RestartCleared
  <1>4. ASSUME NEW d \in Devices, DeleteDevice(d) PROVE TypeInv'
    <2>1. del' \in Deletion
      BY <1>4 DEF DeleteDevice, Deletion
    <2> QED BY <1>1, <1>4, <2>1 DEF DeleteDevice, TypeOK, db
  <1>5. ASSUME NEW u \in Users, DeleteUser(u) PROVE TypeInv'
    <2>1. del' \in Deletion
      BY <1>5 DEF DeleteUser, Deletion
    <2> QED BY <1>1, <1>5, <2>1 DEF DeleteUser, TypeOK, db
  <1>6. CASE DeleteDeactivate
    <2>1. del' \in Deletion
      BY <1>6 DEF DeleteDeactivate, TypeOK, Deletion
    <2> QED BY <1>1, <1>6, <2>1 DEF DeleteDeactivate, TypeOK
  <1>7. ASSUME NEW d \in Devices, DeletePurge(d) PROVE TypeInv'
    <2>1. del' \in Deletion
      BY <1>7 DEF DeletePurge, TypeOK, Deletion
    <2>2. store' \in [Devices -> [Providers -> SUBSET Ts]]
      BY <1>7, TablesEmpty DEF DeletePurge, TypeOK
    <2> QED BY <1>1, <1>7, <2>1, <2>2 DEF DeletePurge, TypeOK, db
  <1>8. CASE DeletePurged
    <2>1. del' \in Deletion
      BY <1>8 DEF DeletePurged, TypeOK, Deletion, NoDeletion
    <2> QED BY <1>1, <1>8, <2>1 DEF DeletePurged, TypeOK, db
  <1>9. CASE DeleteRows
    <2>1. del' \in Deletion
      BY <1>9 DEF DeleteRows, TypeOK, Deletion, NoDeletion
    <2>2. cursor' \in [Devices -> [Providers -> 0..MaxTs \cup {None}]]
      BY <1>9, TablesEmpty DEF DeleteRows, TypeOK
    <2>3. acked' \in [Devices -> [Providers -> 0..MaxTs]]
      BY <1>9, TablesEmpty DEF DeleteRows, TypeOK
    <2>4. /\ userRow' \in [Users -> BOOLEAN] /\ active' \in [Users -> BOOLEAN]
          /\ deviceRow' \in [Devices -> BOOLEAN]
      BY <1>9 DEF DeleteRows, TypeOK
    <2> QED BY <1>1, <1>9, <2>1, <2>2, <2>3, <2>4 DEF DeleteRows, TypeOK
  <1>10. CASE DeleteRowsFail
    <2>1. del' \in Deletion
      BY <1>10 DEF DeleteRowsFail, Deletion, NoDeletion
    <2> QED BY <1>1, <1>10, <2>1 DEF DeleteRowsFail, TypeOK, db
  <1>11. ASSUME NEW u \in Users, NEW b \in BOOLEAN, SetUserActive(u, b) PROVE TypeInv'
    BY <1>1, <1>11 DEF SetUserActive, TypeOK
  <1> QED
    BY <1>2, <1>3, <1>3a, <1>4, <1>5, <1>6, <1>7, <1>8, <1>9, <1>10, <1>11 DEF Deleting

LEMMA TypeStep == TypeInv /\ [Next]_vars => TypeInv'
  <1> SUFFICES ASSUME TypeInv, [Next]_vars PROVE TypeInv'
    OBVIOUS
  <1>1. CASE UNCHANGED vars
    BY <1>1 DEF vars, TypeInv, TypeOK, BatchHasStart, InBatch, PermitsConserved, Holders
  <1>2. CASE \E c \in Conns : \/ Connect(c, FALSE) \/ Client(c) \/ Handler(c)
                              \/ Acquire(c) \/ Connect(c, TRUE)
    BY <1>2, ClientTypes, AuthTypes, BatchTypes DEF Handler, Acquire
  <1>3. CASE \/ Shutdown \/ Restart \/ RestartCleared \/ Deleting
             \/ \E u \in Users, b \in BOOLEAN : SetUserActive(u, b)
    BY <1>3, AdminTypes
  <1> QED
    BY <1>1, <1>2, <1>3 DEF Next, IngestNext, Uploading, Resetting

LEMMA TypeInit == Init => TypeInv
  <1> SUFFICES ASSUME Init PROVE TypeInv
    OBVIOUS
  <1>1. TypeOK
    BY ClosedType, TablesEmpty, SyncAssumption DEF Init, TypeOK, Deletion, NoDeletion
  <1>2. BatchHasStart
    BY ClosedType DEF Init, BatchHasStart, InBatch
  <1>3. Holders = {}
    BY ClosedType DEF Init, Holders, HolderStates
  <1>4. PermitsConserved
    BY <1>3, FS_EmptySet, SyncAssumption DEF Init, PermitsConserved
  <1> QED BY <1>1, <1>2, <1>4 DEF TypeInv

(* The state of the sync server is well typed in every behaviour: whatever   *)
(* handle_connection, the deletions and the restarts do to it.               *)
THEOREM SyncTypeCorrect == Spec => []TypeOK
  <1>1. TypeInv => TypeOK
    BY DEF TypeInv
  <1> QED BY TypeInit, TypeStep, <1>1, PTL DEF Spec

(* batch_semaphore: in every behaviour, with any number of connections and   *)
(* permits, each permit is free or held by one SYNC_BATCH or SYNC_WINDOWS in *)
(* its store write, on the error paths too.                                  *)
THEOREM PermitsNeverLeak == Spec => []PermitsConserved
  <1>1. TypeInv => PermitsConserved
    BY DEF TypeInv
  <1> QED BY TypeInit, TypeStep, <1>1, PTL DEF Spec

-----------------------------------------------------------------------------
(* Cursors and registered devices                                            *)

RowsInv ==
  /\ TypeInv
  /\ CursorNeedsDevice
  /\ \A d \in Devices : deviceRow[d] => userRow[Owner[d]]

(* The rows that the foreign keys of the relational database tie together    *)
(* change only in five actions; the others leave them as they are.           *)
LEMMA RowsStep == RowsInv /\ [Next]_vars => RowsInv'
  <1> SUFFICES ASSUME RowsInv, [Next]_vars PROVE RowsInv'
    OBVIOUS
  <1>t. TypeInv /\ TypeInv'
    BY TypeStep DEF RowsInv
  <1>o. \A d \in Devices : Owner[d] \in Users
    BY SyncAssumption
  <1>0. CASE UNCHANGED <<userRow, deviceRow, cursor>>
    BY <1>0, <1>t DEF RowsInv, CursorNeedsDevice
  <1>1. ASSUME NEW c \in Conns, CreateDevice(c) PROVE RowsInv'
    BY <1>1, <1>t DEF CreateDevice, RowsInv, CursorNeedsDevice, TypeInv, TypeOK
  <1>2. ASSUME NEW c \in Conns, NEW p \in Providers, deviceRow[conn[c].dev],
               cursor' = EnsuredCursor(conn[c].dev, p), UNCHANGED <<userRow, deviceRow>>
        PROVE  RowsInv'
    BY <1>2, <1>t DEF EnsuredCursor, RowsInv, CursorNeedsDevice, TypeInv, TypeOK
  <1>3. ASSUME NEW c \in Conns, NEW p \in Providers, NEW t \in 0..MaxTs,
               \/ cursor' = ResetCursor(conn[c].dev, p)
               \/ cursor' = Advanced(conn[c].dev, p, t),
               UNCHANGED <<userRow, deviceRow>>
        PROVE  RowsInv'
    BY <1>3, <1>t, ZenonT(60) DEF ResetCursor, Advanced, RowsInv, CursorNeedsDevice, TypeInv, TypeOK
  <1>4. CASE DeleteRows
    <2>1. ASSUME NEW d \in Devices, deviceRow'[d]
          PROVE  deviceRow[d] /\ userRow'[Owner[d]] /\ cursor'[d] = cursor[d]
      <3>1. d \notin IF del.user = None THEN del.devs ELSE {x \in Devices : Owner[x] = del.user}
        BY <1>4, <2>1 DEF DeleteRows
      <3>2. deviceRow[d] /\ cursor'[d] = cursor[d]
        BY <1>4, <2>1, <3>1 DEF DeleteRows
      <3>3. Owner[d] # del.user
        BY <3>1, <1>o, SyncAssumption
      <3> QED BY <1>4, <1>o, <3>2, <3>3 DEF DeleteRows, RowsInv
    <2>2. ASSUME NEW d \in Devices, NEW p \in Providers, cursor'[d][p] # None
          PROVE  deviceRow'[d]
      BY <1>4, <2>2, <1>t DEF DeleteRows, NoCursors, RowsInv, CursorNeedsDevice, TypeInv, TypeOK
    <2> QED BY <1>t, <2>1, <2>2 DEF RowsInv, CursorNeedsDevice
  <1>5. \A c \in Conns : /\ conn[c].prov \in Providers /\ conn[c].bprov \in Providers
                         /\ conn[c].hi \in 0..MaxTs
    BY <1>t DEF TypeInv, TypeOK, Conn
  <1>6. ASSUME NEW c \in Conns, Handler(c) PROVE RowsInv'
    <2>1. CASE CreateDevice(c)
      BY <1>1, <2>1
    <2>2. CASE EnsureFirst(c)
      BY <1>0, <1>2, <1>5, <2>2 DEF EnsureFirst
    <2>3. CASE EnsureCursor(c)
      BY <1>0, <1>2, <1>5, <2>3 DEF EnsureCursor
    <2>4. CASE SchemaReset(c)
      BY <1>0, <1>3, <1>5, <2>4 DEF SchemaReset
    <2>5. CASE AdvanceCursor(c)
      BY <1>3, <1>5, <2>5 DEF AdvanceCursor
    <2> QED BY <1>0, <1>6, <2>1, <2>2, <2>3, <2>4, <2>5
        DEF Handler, AuthActive, FindDevice, SchemaPurge, BatchActive, AnswerEmpty,
            RefuseTooLarge, UpsertEvents, UpsertFails, AdvanceFails, WindowsActive,
            UpsertWindows, HandlerFails, db
  <1>7. ASSUME NEW c \in Conns, NEW b \in BOOLEAN, Client(c) \/ Connect(c, b) \/ Acquire(c)
        PROVE  RowsInv'
    BY <1>0, <1>7 DEF Client, Connect, GetLastTs, SendBatch, SendWindows, Close, PeerLost,
       SendAck, SendWindowsReply, Accept, Acquire, AcquirePermit, AcquireWindowsPermit, db
  <1>8. CASE Shutdown \/ Restart \/ RestartCleared \/ \E u \in Users, b \in BOOLEAN : SetUserActive(u, b)
    BY <1>0, <1>8 DEF Shutdown, Restart, RestartCleared, SetUserActive, db
  <1>9. CASE Deleting
    BY <1>0, <1>4, <1>9 DEF Deleting, DeleteDevice, DeleteUser, DeleteDeactivate,
       DeletePurge, DeletePurged, DeleteRowsFail, db
  <1>10. CASE UNCHANGED vars
    BY <1>0, <1>10 DEF vars
  <1> QED
    BY <1>6, <1>7, <1>8, <1>9, <1>10 DEF Next, IngestNext, Uploading, Resetting

(* A batch that outlives the deletion of its device cannot bring a cursor    *)
(* back (advance_cursor is an UPDATE, ensure_cursor fails on the foreign     *)
(* key): in every behaviour cursors belong to registered devices of          *)
(* existing accounts.                                                        *)
THEOREM CursorsBelongToDevices == Spec => []CursorNeedsDevice
  <1>1. Init => RowsInv
    BY TypeInit DEF Init, RowsInv, CursorNeedsDevice, NoCursors
  <1>2. RowsInv => CursorNeedsDevice
    BY DEF RowsInv
  <1> QED BY <1>1, <1>2, RowsStep, PTL DEF Spec

-----------------------------------------------------------------------------
(* Uploading: cursors, replies and the store                                 *)

(* Nobody announces another schema version. *)
NoResets == \A c \in Conns : ~conn[c].stale /\ conn[c].st \notin {"purge", "reset", "told"}

(* What the client was told, what the handler is about to write to the       *)
(* cursor and what it is about to reply are all covered by stored events.    *)
RepliesCovered ==
  \A c \in Conns :
    LET held == store[conn[c].dev][conn[c].bprov] IN
    /\ conn[c].from # None => 1..conn[c].from \subseteq held
    /\ conn[c].st = "advance" => 1..conn[c].hi \subseteq held

(* From ensure_cursor to the reply the batch's cursor row exists, and the    *)
(* reply is not ahead of it.                                                 *)
RepliesBacked ==
  \A c \in Conns :
    LET cur == cursor[conn[c].dev][conn[c].bprov] IN
    /\ conn[c].st \in {"empty", "permit", "upsert", "advance", "ack"} => cur # None
    /\ conn[c].st = "ack" => conn[c].ack <= cur

UploadInv ==
  /\ TypeInv /\ NoResets
  /\ CursorCovered /\ AckDurable
  /\ RepliesCovered /\ RepliesBacked

(* No event leaves the store and no cursor row goes or moves back. *)
Grows ==
  \A d \in Devices, p \in Providers :
    /\ store[d][p] \subseteq store'[d][p]
    /\ cursor[d][p] # None => cursor'[d][p] # None /\ cursor'[d][p] >= cursor[d][p]

(* What UploadInv asks of the record of one connection, after a step. *)
RecordOK(r) ==
  /\ ~r.stale /\ r.st \notin {"purge", "reset", "told"}
  /\ r.from # None => 1..r.from \subseteq store'[r.dev][r.bprov]
  /\ r.st = "advance" => 1..r.hi \subseteq store'[r.dev][r.bprov]
  /\ r.st \in {"empty", "permit", "upsert", "advance", "ack"} => cursor'[r.dev][r.bprov] # None
  /\ r.st = "ack" => r.ack <= cursor'[r.dev][r.bprov]

LEMMA OneReply ==
  ASSUME UploadInv, TypeInv', NEW c \in Conns, \A x \in Conns : x # c => conn'[x] = conn[x],
         Grows, RecordOK(conn'[c]), CursorCovered', AckDurable'
  PROVE  UploadInv'
  <1>1. ASSUME NEW x \in Conns PROVE RecordOK(conn'[x])
    <2>1. CASE x = c
      BY <2>1
    <2>2. CASE x # c
      <3>1. conn'[x] = conn[x] /\ conn[x] \in Conn
        BY <2>2 DEF UploadInv, TypeInv, TypeOK
      <3>2. /\ conn[x].dev \in Devices /\ conn[x].bprov \in Providers
            /\ conn[x].ack \in 0..MaxTs
        BY <3>1 DEF Conn
      <3>3. /\ cursor[conn[x].dev][conn[x].bprov] \in 0..MaxTs \cup {None}
            /\ cursor'[conn[x].dev][conn[x].bprov] \in 0..MaxTs \cup {None}
        BY <3>2 DEF UploadInv, TypeInv, TypeOK
      <3> QED BY <3>1, <3>2, <3>3, NatBounds
          DEF Grows, RecordOK, UploadInv, NoResets, RepliesCovered, RepliesBacked
    <2> QED BY <2>1, <2>2
  <1> QED BY <1>1 DEF RecordOK, UploadInv, NoResets, RepliesCovered, RepliesBacked

LEMMA UnchangedGrows ==
  ASSUME UploadInv, UNCHANGED <<store, cursor>>
  PROVE  Grows /\ CursorCovered' /\ (acked' = acked => AckDurable')
  <1>1. \A d \in Devices, p \in Providers : cursor[d][p] \in 0..MaxTs \cup {None}
    BY DEF UploadInv, TypeInv, TypeOK
  <1> QED BY <1>1, NatBounds DEF UploadInv, Grows, CursorCovered, AckDurable

LEMMA ClosedOK == RecordOK(Closed)
  BY DEF RecordOK, Closed

(* Moving on to state s keeps a record's obligations when s asks no more. *)
LEMMA GotoRecord ==
  ASSUME UploadInv, Grows, NEW c \in Conns, NEW s \in States, Goto(c, s),
         s \notin {"purge", "reset", "told", "advance", "ack"},
         s \in {"empty", "permit", "upsert"} => cursor'[conn[c].dev][conn[c].bprov] # None
  PROVE  RecordOK(conn'[c]) /\ \A x \in Conns : x # c => conn'[x] = conn[x]
  <1>1. conn[c] \in Conn /\ conn \in [Conns -> Conn]
    BY DEF UploadInv, TypeInv, TypeOK
  <1>2. conn'[c] = [conn[c] EXCEPT !.st = s] /\ \A x \in Conns : x # c => conn'[x] = conn[x]
    BY <1>1 DEF Goto
  <1>3. /\ conn'[c].st = s /\ conn'[c].from = conn[c].from /\ conn'[c].dev = conn[c].dev
        /\ conn'[c].bprov = conn[c].bprov /\ conn'[c].stale = conn[c].stale
        /\ conn[c].dev \in Devices /\ conn[c].bprov \in Providers
    BY <1>1, <1>2 DEF Conn
  <1> QED BY <1>2, <1>3 DEF RecordOK, Grows, UploadInv, NoResets, RepliesCovered

LEMMA HangupRecord ==
  ASSUME UploadInv, NEW c \in Conns, Hangup(c)
  PROVE  RecordOK(conn'[c]) /\ \A x \in Conns : x # c => conn'[x] = conn[x]
  BY ClosedOK DEF Hangup, UploadInv, TypeInv, TypeOK

LEMMA RefuseRecord ==
  ASSUME UploadInv, Grows, NEW c \in Conns, Refuse(c)
  PROVE  RecordOK(conn'[c]) /\ \A x \in Conns : x # c => conn'[x] = conn[x]
  <1>1. conn[c] \in Conn /\ conn \in [Conns -> Conn]
    BY DEF UploadInv, TypeInv, TypeOK
  <1>2. CASE conn[c].peer
    <2>1. conn'[c] = [conn[c] EXCEPT !.st = "ready", !.hi = 0]
          /\ \A x \in Conns : x # c => conn'[x] = conn[x]
      BY <1>1, <1>2 DEF Refuse
    <2>2. /\ conn'[c].st = "ready" /\ conn'[c].from = conn[c].from /\ conn'[c].dev = conn[c].dev
          /\ conn'[c].bprov = conn[c].bprov /\ conn'[c].stale = conn[c].stale
          /\ conn[c].dev \in Devices /\ conn[c].bprov \in Providers
      BY <1>1, <2>1 DEF Conn
    <2> QED BY <2>1, <2>2 DEF RecordOK, Grows, UploadInv, NoResets, RepliesCovered
  <1>3. CASE ~conn[c].peer
    BY <1>3, HangupRecord DEF Refuse
  <1> QED BY <1>2, <1>3

(* The steps of a handler: only three of them touch a cursor or the store.   *)
LEMMA UploadHandler ==
  ASSUME UploadInv, TypeInv', NEW c \in Conns, Handler(c) \/ Acquire(c)
  PROVE  UploadInv' /\ Grows
  <1> DEFINE d == conn[c].dev
             p == conn[c].bprov
             Done == UploadInv' /\ Grows
  <1>t. conn[c] \in Conn /\ conn \in [Conns -> Conn]
    BY DEF UploadInv, TypeInv, TypeOK
  <1>c. /\ d \in Devices /\ p \in Providers /\ conn[c].prov \in Providers
        /\ conn[c].hi \in 0..MaxTs /\ conn[c].from \in 0..MaxTs \cup {None}
    BY <1>t DEF Conn
  <1>k. \A x \in Devices, y \in Providers :
          /\ cursor[x][y] \in 0..MaxTs \cup {None} /\ cursor'[x][y] \in 0..MaxTs \cup {None}
          /\ acked[x][y] \in 0..MaxTs
    BY DEF UploadInv, TypeInv, TypeOK
  <1>s. ~conn[c].stale /\ conn[c].st \notin {"purge", "reset", "told"}
    BY DEF UploadInv, NoResets
  <1>u. ASSUME UNCHANGED <<cursor, store, acked>>, RecordOK(conn'[c]),
               \A x \in Conns : x # c => conn'[x] = conn[x]
        PROVE  Done
    BY <1>u, UnchangedGrows, OneReply
  <1>1. CASE AuthActive(c)
    <2>1. UNCHANGED <<cursor, store, acked>> /\ Grows
      BY <1>1, UnchangedGrows DEF AuthActive, db
    <2> QED BY <1>1, <1>u, <2>1, GotoRecord, HangupRecord DEF AuthActive, States
  <1>2. CASE FindDevice(c)
    <2>1. UNCHANGED <<cursor, store, acked>> /\ Grows
      BY <1>2, UnchangedGrows DEF FindDevice, db
    <2> QED BY <1>2, <1>s, <1>u, <2>1, GotoRecord DEF FindDevice, AfterDevice, States
  <1>3. CASE CreateDevice(c)
    <2>1. UNCHANGED <<cursor, store, acked>> /\ Grows
      BY <1>3, UnchangedGrows DEF CreateDevice
    <2> QED BY <1>3, <1>s, <1>u, <2>1, GotoRecord, HangupRecord
        DEF CreateDevice, AfterDevice, States
  <1>e. ASSUME NEW q \in Providers, cursor' = EnsuredCursor(d, q), UNCHANGED <<store, acked>>
        PROVE  Grows /\ CursorCovered' /\ AckDurable' /\ cursor'[d][q] # None
    <2>1. cursor \in [Devices -> [Providers -> 0..MaxTs \cup {None}]]
      BY DEF UploadInv, TypeInv, TypeOK
    <2>2. \A x \in Devices, y \in Providers :
            \/ cursor'[x][y] = cursor[x][y] /\ <<x, y>> # <<d, q>>
            \/ cursor'[x][y] = cursor[x][y] /\ cursor[x][y] # None
            \/ cursor[x][y] = None /\ cursor'[x][y] = 0
      BY <1>c, <1>e, <2>1 DEF EnsuredCursor
    <2>3. Grows
      BY <1>e, <1>k, <2>2, NatBounds DEF Grows
    <2>4. CursorCovered'
      BY <1>e, <1>k, <2>2, NatBounds DEF CursorCovered, UploadInv
    <2>5. AckDurable'
      BY <1>e, <1>k, <2>2, NatBounds DEF AckDurable, UploadInv
    <2>6. cursor'[d][q] # None
      BY <1>c, <2>2, NatBounds
    <2> QED BY <2>3, <2>4, <2>5, <2>6
  <1>4. CASE EnsureFirst(c)
    <2>1. CASE deviceRow[d]
      <3>1. Grows /\ CursorCovered' /\ AckDurable'
        BY <1>4, <1>c, <1>e, <2>1 DEF EnsureFirst
      <3>2. RecordOK(conn'[c]) /\ \A x \in Conns : x # c => conn'[x] = conn[x]
        BY <1>4, <2>1, <3>1, GotoRecord DEF EnsureFirst, States
      <3> QED BY <3>1, <3>2, OneReply
    <2>2. CASE ~deviceRow[d]
      BY <1>4, <1>u, <2>2, HangupRecord DEF EnsureFirst
    <2> QED BY <2>1, <2>2
  <1>5. CASE BatchActive(c)
    <2>1. UNCHANGED <<cursor, store, acked>> /\ Grows
      BY <1>5, UnchangedGrows DEF BatchActive, db
    <2> QED BY <1>5, <1>u, <2>1, GotoRecord, HangupRecord DEF BatchActive, States
  <1>6. CASE EnsureCursor(c)
    <2>1. CASE deviceRow[d]
      <3>1. Grows /\ CursorCovered' /\ AckDurable' /\ cursor'[d][p] # None
        BY <1>6, <1>c, <1>e, <2>1 DEF EnsureCursor
      <3>2. RecordOK(conn'[c]) /\ \A x \in Conns : x # c => conn'[x] = conn[x]
        BY <1>6, <2>1, <3>1, GotoRecord DEF EnsureCursor, States
      <3> QED BY <3>1, <3>2, OneReply
    <2>2. CASE ~deviceRow[d]
      BY <1>6, <1>u, <2>2, HangupRecord DEF EnsureCursor
    <2> QED BY <2>1, <2>2
  <1>7. CASE AnswerEmpty(c)
    <2>1. UNCHANGED <<cursor, store, acked>>
      BY <1>7 DEF AnswerEmpty, db
    <2>2. cursor[d][p] # None
      BY <1>7 DEF AnswerEmpty, At, UploadInv, RepliesBacked
    <2>3. conn'[c] = [conn[c] EXCEPT !.st = "ack", !.ack = cursor[d][p]]
          /\ \A x \in Conns : x # c => conn'[x] = conn[x]
      BY <1>7, <1>t, <2>2 DEF AnswerEmpty
    <2>4. /\ conn'[c].st = "ack" /\ conn'[c].from = conn[c].from /\ conn'[c].dev = d
          /\ conn'[c].bprov = p /\ conn'[c].stale = conn[c].stale /\ conn'[c].ack = cursor[d][p]
      BY <1>t, <2>3 DEF Conn
    <2>5. RecordOK(conn'[c])
      BY <1>c, <1>k, <1>s, <2>1, <2>2, <2>4 DEF RecordOK, UploadInv, RepliesCovered
    <2> QED BY <1>u, <2>1, <2>3, <2>5
  <1>8. CASE RefuseTooLarge(c)
    <2>1. UNCHANGED <<cursor, store, acked>> /\ Grows
      BY <1>8, UnchangedGrows DEF RefuseTooLarge, db
    <2> QED BY <1>8, <1>u, <2>1, RefuseRecord DEF RefuseTooLarge
  <1>9. CASE AcquirePermit(c)
    <2>1. UNCHANGED <<cursor, store, acked>> /\ Grows
      BY <1>9, UnchangedGrows DEF AcquirePermit, db
    <2>2. cursor[d][p] # None
      BY <1>9 DEF AcquirePermit, At, UploadInv, RepliesBacked
    <2> QED BY <1>9, <1>u, <2>1, <2>2, GotoRecord DEF AcquirePermit, States
  <1>10. CASE UpsertEvents(c)
    <2> DEFINE new == (conn[c].from + 1)..conn[c].hi
    <2>1. conn[c].from \in 0..MaxTs /\ conn[c].from <= conn[c].hi
      BY <1>10, <1>c DEF UpsertEvents, At, UploadInv, TypeInv, BatchHasStart, InBatch
    <2>2. store' = [store EXCEPT ![d][p] = @ \cup new] /\ UNCHANGED <<cursor, acked>>
      BY <1>10 DEF UpsertEvents, db
    <2>3. store \in [Devices -> [Providers -> SUBSET Ts]]
      BY DEF UploadInv, TypeInv, TypeOK
    <2>4. store'[d][p] = store[d][p] \cup new
      BY <1>c, <2>2, <2>3
    <2>5. \A x \in Devices, y \in Providers : store[x][y] \subseteq store'[x][y]
      BY <1>c, <2>2, <2>3
    <2>6. Grows
      BY <2>2, <2>5, <1>k, NatBounds DEF Grows
    <2>7. CursorCovered'
      BY <2>2, <2>5 DEF CursorCovered, UploadInv
    <2>8. AckDurable'
      BY <2>2 DEF AckDurable, UploadInv
    <2>9. 1..conn[c].from \subseteq store[d][p]
      BY <2>1, NatBounds DEF UploadInv, RepliesCovered
    <2>10. 1..conn[c].hi \subseteq store'[d][p]
      <3>1. 1..conn[c].hi \subseteq (1..conn[c].from) \cup new
        BY <1>c, <2>1
      <3> QED BY <2>4, <2>9, <3>1
    <2>11. cursor[d][p] # None
      BY <1>10 DEF UpsertEvents, At, UploadInv, RepliesBacked
    <2>12. conn'[c] = [conn[c] EXCEPT !.st = "advance"]
           /\ \A x \in Conns : x # c => conn'[x] = conn[x]
      BY <1>10, <1>t DEF UpsertEvents, Goto
    <2>13. /\ conn'[c].st = "advance" /\ conn'[c].from = conn[c].from /\ conn'[c].dev = d
           /\ conn'[c].bprov = p /\ conn'[c].stale = conn[c].stale /\ conn'[c].hi = conn[c].hi
      BY <1>t, <2>12 DEF Conn
    <2>14. RecordOK(conn'[c])
      BY <1>s, <2>2, <2>4, <2>9, <2>10, <2>11, <2>13 DEF RecordOK
    <2> QED BY <2>6, <2>7, <2>8, <2>12, <2>14, OneReply
  <1>11. CASE UpsertFails(c)
    <2>1. UNCHANGED <<cursor, store, acked>> /\ Grows
      BY <1>11, UnchangedGrows DEF UpsertFails, db
    <2> QED BY <1>11, <1>u, <2>1, RefuseRecord DEF UpsertFails
  <1>12. CASE AdvanceCursor(c)
    <2>1. cursor[d][p] \in 0..MaxTs /\ 1..conn[c].hi \subseteq store[d][p]
      BY <1>12, <1>c, <1>k DEF AdvanceCursor, At, UploadInv, RepliesBacked, RepliesCovered
    <2>2. cursor \in [Devices -> [Providers -> 0..MaxTs \cup {None}]]
      BY DEF UploadInv, TypeInv, TypeOK
    <2>3. /\ cursor' = [cursor EXCEPT ![d][p] = Max2(@, conn[c].hi)]
          /\ UNCHANGED <<store, acked>>
      BY <1>12, <2>1, NatBounds DEF AdvanceCursor, Advanced
    <2>4. cursor'[d][p] = Max2(cursor[d][p], conn[c].hi)
      BY <1>c, <2>2, <2>3
    <2>5. \A x \in Devices, y \in Providers : x # d \/ y # p => cursor'[x][y] = cursor[x][y]
      BY <1>c, <2>2, <2>3
    <2>6. /\ cursor'[d][p] # None /\ cursor'[d][p] >= cursor[d][p]
          /\ cursor'[d][p] >= conn[c].hi
          /\ cursor'[d][p] = cursor[d][p] \/ cursor'[d][p] = conn[c].hi
      BY <1>c, <2>1, <2>4, NatBounds DEF Max2
    <2>7. Grows
      <3> SUFFICES ASSUME NEW x \in Devices, NEW y \in Providers
                   PROVE  cursor[x][y] # None =>
                            cursor'[x][y] # None /\ cursor'[x][y] >= cursor[x][y]
        BY <2>3 DEF Grows
      <3>1. CASE x = d /\ y = p
        BY <2>6, <3>1
      <3>2. CASE x # d \/ y # p
        BY <1>k, <2>5, <3>2, NatBounds
      <3> QED BY <3>1, <3>2
    <2>8. CursorCovered'
      <3> SUFFICES ASSUME NEW x \in Devices, NEW y \in Providers, cursor'[x][y] # None
                   PROVE  1..cursor'[x][y] \subseteq store[x][y]
        BY <2>3 DEF CursorCovered
      <3>1. CASE x = d /\ y = p
        BY <2>1, <2>6, <3>1, NatBounds DEF UploadInv, CursorCovered
      <3>2. CASE x # d \/ y # p
        BY <2>5, <3>2 DEF UploadInv, CursorCovered
      <3> QED BY <3>1, <3>2
    <2>9. AckDurable'
      <3> SUFFICES ASSUME NEW x \in Devices, NEW y \in Providers, acked[x][y] > 0
                   PROVE  cursor'[x][y] # None /\ acked[x][y] <= cursor'[x][y]
        BY <2>3 DEF AckDurable
      <3>1. cursor[x][y] # None /\ acked[x][y] <= cursor[x][y]
        BY DEF UploadInv, AckDurable
      <3> QED BY <1>k, <2>7, <3>1, NatBounds DEF Grows
    <2>10. conn'[c] = [conn[c] EXCEPT !.st = "ack", !.ack = conn[c].hi]
           /\ \A x \in Conns : x # c => conn'[x] = conn[x]
      BY <1>12, <1>t DEF AdvanceCursor
    <2>11. /\ conn'[c].st = "ack" /\ conn'[c].from = conn[c].from /\ conn'[c].dev = d
           /\ conn'[c].bprov = p /\ conn'[c].stale = conn[c].stale /\ conn'[c].ack = conn[c].hi
      BY <1>t, <2>10 DEF Conn
    <2>12. conn[c].from # None => 1..conn[c].from \subseteq store[d][p]
      BY DEF UploadInv, RepliesCovered
    <2>13. RecordOK(conn'[c])
      BY <1>c, <1>s, <2>3, <2>6, <2>11, <2>12 DEF RecordOK
    <2> QED BY <2>7, <2>8, <2>9, <2>10, <2>13, OneReply
  <1>13. CASE AdvanceFails(c)
    <2>1. UNCHANGED <<cursor, store, acked>> /\ Grows
      BY <1>13, UnchangedGrows DEF AdvanceFails, db
    <2> QED BY <1>13, <1>u, <2>1, RefuseRecord DEF AdvanceFails
  <1>14. CASE HandlerFails(c)
    <2>1. UNCHANGED <<cursor, store, acked>> /\ Grows
      BY <1>14, UnchangedGrows DEF HandlerFails, db
    <2> QED BY <1>14, <1>u, <2>1, RefuseRecord, HangupRecord DEF HandlerFails
  <1>15. ~SchemaPurge(c) /\ ~SchemaReset(c)
    BY <1>s DEF SchemaPurge, SchemaReset, At
  <1>16. CASE WindowsActive(c)
    <2>1. UNCHANGED <<cursor, store, acked>> /\ Grows
      BY <1>16, UnchangedGrows DEF WindowsActive, db
    <2> QED BY <1>16, <1>u, <2>1, GotoRecord, RefuseRecord, HangupRecord DEF WindowsActive, States
  <1>17. CASE AcquireWindowsPermit(c)
    <2>1. UNCHANGED <<cursor, store, acked>> /\ Grows
      BY <1>17, UnchangedGrows DEF AcquireWindowsPermit, db
    <2> QED BY <1>17, <1>u, <2>1, GotoRecord DEF AcquireWindowsPermit, States
  <1>18. CASE UpsertWindows(c)
    <2>1. UNCHANGED <<cursor, store, acked>> /\ Grows
      BY <1>18, UnchangedGrows DEF UpsertWindows, db
    <2> QED BY <1>18, <1>u, <2>1, GotoRecord DEF UpsertWindows, States
  <1> QED
    BY <1>1, <1>2, <1>3, <1>4, <1>5, <1>6, <1>7, <1>8, <1>9, <1>10, <1>11, <1>12, <1>13,
       <1>14, <1>15, <1>16, <1>17, <1>18 DEF Handler, Acquire

(* The steps of a client: LAST_TS tells it a covered cursor, and the reply   *)
(* it reads becomes the start of its next batch.                             *)
LEMMA UploadClient ==
  ASSUME UploadInv, TypeInv', NEW c \in Conns, Client(c) \/ Connect(c, FALSE)
  PROVE  UploadInv' /\ Grows
  <1> DEFINE d == conn[c].dev
             p == conn[c].bprov
  <1>t. conn[c] \in Conn /\ conn \in [Conns -> Conn]
    BY DEF UploadInv, TypeInv, TypeOK
  <1>c. /\ d \in Devices /\ p \in Providers
        /\ conn[c].ack \in 0..MaxTs /\ conn[c].from \in 0..MaxTs \cup {None}
    BY <1>t DEF Conn
  <1>k. \A x \in Devices, y \in Providers :
          cursor[x][y] \in 0..MaxTs \cup {None} /\ acked[x][y] \in 0..MaxTs
    BY DEF UploadInv, TypeInv, TypeOK
  <1>s. ~conn[c].stale /\ conn[c].st \notin {"purge", "reset", "told"}
    BY DEF UploadInv, NoResets
  <1>g. UNCHANGED <<cursor, store>> /\ Grows /\ CursorCovered'
    <2>1. UNCHANGED <<cursor, store>>
      BY DEF Client, Connect, GetLastTs, SendBatch, SendWindows, Close, PeerLost, SendAck,
         SendWindowsReply, Accept, db
    <2> QED BY <2>1, UnchangedGrows
  <1>u. ASSUME acked' = acked, RecordOK(conn'[c]), \A x \in Conns : x # c => conn'[x] = conn[x]
        PROVE  UploadInv' /\ Grows
    BY <1>g, <1>u, UnchangedGrows, OneReply
  <1>1. ASSUME NEW q \in Providers, GetLastTs(c, q) PROVE UploadInv' /\ Grows
    <2> DEFINE a == cursor[d][q]
               n == IF a = None THEN 0 ELSE a
    <2>1. conn'[c] = [conn[c] EXCEPT !.bprov = q, !.from = n]
          /\ \A x \in Conns : x # c => conn'[x] = conn[x]
      BY <1>1, <1>t DEF GetLastTs
    <2>2. /\ conn'[c].st = "ready" /\ conn'[c].from = n /\ conn'[c].dev = d
          /\ conn'[c].bprov = q /\ conn'[c].stale = conn[c].stale
      BY <1>1, <1>t, <2>1 DEF Conn, GetLastTs, At
    <2>3. 1..n \subseteq store[d][q]
      BY <1>c DEF UploadInv, CursorCovered
    <2>4. RecordOK(conn'[c])
      BY <1>g, <1>s, <2>2, <2>3 DEF RecordOK
    <2> QED BY <1>1, <1>u, <2>1, <2>4 DEF GetLastTs
  <1>2. ASSUME NEW hi \in 0..MaxTs, SendBatch(c, hi) PROVE UploadInv' /\ Grows
    <2>1. conn'[c] = [conn[c] EXCEPT !.st = "check", !.hi = hi]
          /\ \A x \in Conns : x # c => conn'[x] = conn[x]
      BY <1>2, <1>t DEF SendBatch
    <2>2. /\ conn'[c].st = "check" /\ conn'[c].from = conn[c].from /\ conn'[c].dev = d
          /\ conn'[c].bprov = p /\ conn'[c].stale = conn[c].stale
      BY <1>t, <2>1 DEF Conn
    <2>3. RecordOK(conn'[c])
      BY <1>g, <1>s, <2>2 DEF RecordOK, UploadInv, RepliesCovered
    <2> QED BY <1>2, <1>u, <2>1, <2>3 DEF SendBatch
  <1>3. CASE Close(c)
    BY <1>3, <1>u, HangupRecord DEF Close
  <1>4. CASE PeerLost(c)
    <2>1. conn'[c] = [conn[c] EXCEPT !.peer = FALSE]
          /\ \A x \in Conns : x # c => conn'[x] = conn[x]
      BY <1>4, <1>t DEF PeerLost
    <2>2. /\ conn'[c].st = conn[c].st /\ conn'[c].from = conn[c].from /\ conn'[c].dev = d
          /\ conn'[c].bprov = p /\ conn'[c].stale = conn[c].stale
          /\ conn'[c].hi = conn[c].hi /\ conn'[c].ack = conn[c].ack
      BY <1>t, <2>1 DEF Conn
    <2>3. RecordOK(conn'[c])
      BY <1>g, <1>s, <2>2 DEF RecordOK, UploadInv, RepliesCovered, RepliesBacked
    <2> QED BY <1>4, <1>u, <2>1, <2>3 DEF PeerLost
  <1>5. CASE SendAck(c)
    <2>1. CASE conn[c].peer
      <3>1. conn'[c] = [conn[c] EXCEPT !.st = "ready", !.from = conn[c].ack, !.hi = 0, !.ack = 0]
            /\ \A x \in Conns : x # c => conn'[x] = conn[x]
        BY <1>5, <1>t, <2>1 DEF SendAck
      <3>2. /\ conn'[c].st = "ready" /\ conn'[c].from = conn[c].ack /\ conn'[c].dev = d
            /\ conn'[c].bprov = p /\ conn'[c].stale = conn[c].stale
        BY <1>t, <3>1 DEF Conn
      <3>3. cursor[d][p] # None /\ conn[c].ack <= cursor[d][p]
        BY <1>5 DEF SendAck, At, UploadInv, RepliesBacked
      <3>4. 1..conn[c].ack \subseteq 1..cursor[d][p]
        BY <1>c, <1>k, <3>3
      <3>5. 1..conn[c].ack \subseteq store[d][p]
        BY <1>c, <3>3, <3>4 DEF UploadInv, CursorCovered
      <3>6. RecordOK(conn'[c])
        BY <1>g, <1>s, <3>2, <3>5 DEF RecordOK
      <3>7. \A x \in Devices, y \in Providers :
              \/ acked'[x][y] = acked[x][y]
              \/ x = d /\ y = p /\ acked'[x][y] = Max2(acked[x][y], conn[c].ack)
        <4>1. acked \in [Devices -> [Providers -> 0..MaxTs]]
          BY DEF UploadInv, TypeInv, TypeOK
        <4> QED BY <1>5, <1>c, <2>1, <4>1 DEF SendAck
      <3>8. AckDurable'
        <4> SUFFICES ASSUME NEW x \in Devices, NEW y \in Providers, acked'[x][y] > 0
                     PROVE  cursor[x][y] # None /\ acked'[x][y] <= cursor[x][y]
          BY <1>g DEF AckDurable
        <4>1. acked[x][y] > 0 => cursor[x][y] # None /\ acked[x][y] <= cursor[x][y]
          BY DEF UploadInv, AckDurable
        <4> QED BY <1>c, <1>k, <3>3, <3>7, <4>1, NatBounds DEF Max2
      <3> QED BY <1>g, <3>1, <3>6, <3>8, OneReply
    <2>2. CASE ~conn[c].peer
      BY <1>5, <1>u, <2>2, HangupRecord DEF SendAck
    <2> QED BY <2>1, <2>2
  <1>6. ASSUME NEW e \in Devices, NEW q \in Providers, Accept(c, e, q, FALSE)
        PROVE  UploadInv' /\ Grows
    <2>1. conn'[c] = [Closed EXCEPT !.st = "auth", !.dev = e, !.prov = q, !.stale = FALSE,
                                    !.bprov = q, !.peer = TRUE]
          /\ \A x \in Conns : x # c => conn'[x] = conn[x]
      BY <1>6, <1>t DEF Accept
    <2>2. conn'[c].st = "auth" /\ conn'[c].from = None /\ conn'[c].stale = FALSE
      BY <2>1 DEF Closed
    <2>3. RecordOK(conn'[c])
      BY <2>2 DEF RecordOK
    <2> QED BY <1>6, <1>u, <2>1, <2>3 DEF Accept
  <1>7. CASE SendWindows(c)
    BY <1>7, <1>g, <1>u, GotoRecord DEF SendWindows, States
  <1>8. CASE SendWindowsReply(c)
    BY <1>8, <1>g, <1>u, GotoRecord, HangupRecord DEF SendWindowsReply, States
  <1> QED BY <1>1, <1>2, <1>3, <1>4, <1>5, <1>6, <1>7, <1>8 DEF Client, Connect

LEMMA UploadStep == UploadInv /\ [IngestNext]_vars => UploadInv' /\ Grows
  <1> SUFFICES ASSUME UploadInv, [IngestNext]_vars PROVE UploadInv' /\ Grows
    OBVIOUS
  <1>t. TypeInv'
    BY TypeStep DEF UploadInv, Next
  <1>1. CASE \E c \in Conns : \/ Connect(c, FALSE) \/ Client(c) \/ Handler(c) \/ Acquire(c)
    BY <1>1, <1>t, UploadHandler, UploadClient
  <1>2. CASE UNCHANGED <<cursor, store, acked, conn>>
    BY <1>2, <1>t, UnchangedGrows
    DEF UploadInv, NoResets, CursorCovered, AckDurable, RepliesCovered, RepliesBacked
  <1>3. CASE Restart
    <2>1. UNCHANGED <<cursor, store, acked>> /\ \A c \in Conns : conn'[c] = Closed
      BY <1>3 DEF Restart, db
    <2>2. Closed.st = "closed" /\ Closed.from = None /\ Closed.stale = FALSE
      BY DEF Closed
    <2> QED BY <1>t, <2>1, <2>2, UnchangedGrows
        DEF UploadInv, NoResets, RepliesCovered, RepliesBacked
  <1>4. CASE Shutdown \/ (\E u \in Users, b \in BOOLEAN : SetUserActive(u, b)) \/ UNCHANGED vars
    BY <1>2, <1>4 DEF Shutdown, SetUserActive, vars, db
  <1> QED BY <1>1, <1>3, <1>4 DEF IngestNext, Uploading

LEMMA UploadInit == Init => UploadInv
  <1> SUFFICES ASSUME Init PROVE UploadInv
    OBVIOUS
  <1>1. Closed.st = "closed" /\ Closed.from = None /\ Closed.stale = FALSE
    BY DEF Closed
  <1>2. NoResets /\ RepliesCovered /\ RepliesBacked
    BY <1>1 DEF Init, NoResets, RepliesCovered, RepliesBacked
  <1>3. CursorCovered /\ AckDurable
    BY DEF Init, CursorCovered, AckDurable, NoCursors, NoAcks
  <1> QED BY <1>2, <1>3, TypeInit DEF UploadInv

(* handle_sync_batch writes before it advances: however connections of the   *)
(* same device interleave, fail or are cut off by a restart, a cursor covers *)
(* only events the store holds.                                              *)
THEOREM CursorsCoverStoredEvents == IngestSpec => []CursorCovered
  <1>1. UploadInv => CursorCovered
    BY DEF UploadInv
  <1> QED BY UploadInit, UploadStep, <1>1, PTL DEF IngestSpec

(* No SYNC_ACK is ahead of the cursor a restarted server reads. *)
THEOREM AcksAreDurable == IngestSpec => []AckDurable
  <1>1. UploadInv => AckDurable
    BY DEF UploadInv
  <1> QED BY UploadInit, UploadStep, <1>1, PTL DEF IngestSpec

(* advance_cursor takes the maximum and ensure_cursor ignores an existing    *)
(* row: no cursor moves back.                                                *)
THEOREM CursorsAreMonotone == IngestSpec => CursorMonotone
  <1>1. UploadInv /\ [IngestNext]_vars =>
          [\A d \in Devices, p \in Providers : cursor[d][p] # None =>
             cursor'[d][p] # None /\ cursor'[d][p] >= cursor[d][p]]_vars
    BY UploadStep DEF Grows
  <1> QED BY UploadInit, UploadStep, <1>1, PTL DEF IngestSpec, CursorMonotone
=============================================================================
