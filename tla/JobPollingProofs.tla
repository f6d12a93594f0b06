-------------------------- MODULE JobPollingProofs --------------------------
(***************************************************************************)
(* What holds of JobPolling for any users and pollers, and any number of   *)
(* jobs in the two tables.                                                 *)
(***************************************************************************)
EXTENDS JobPolling, FiniteSetTheorems, TLAPS

-----------------------------------------------------------------------------
(* One table: s and t are its status column before and after a step on     *)
(* row j, r and q say which rows carry a result.                           *)

RowMoves(s, t, r, q, j) ==
  \/ /\ s[j] = "absent" /\ q = r
     /\ t = [s EXCEPT ![j] = "queued"] \/ t = [s EXCEPT ![j] = "processing"]
  \/ s[j] = "queued" /\ t = [s EXCEPT ![j] = "processing"] /\ q = r
  \/ /\ s[j] = "processing" /\ t = [s EXCEPT ![j] = "completed"]
     /\ q = [r EXCEPT ![j] = TRUE]
  \/ s[j] \in {"queued", "processing"} /\ t = [s EXCEPT ![j] = "failed"] /\ q = r

QueuedUpTo(s, j) == {i \in DOMAIN s : s[i] = "queued" /\ i <= j}

(* A row that is there moves forward, to an outcome that stays. *)
RowForward(s, t, r, q, i) ==
  /\ t[i] # "absent"
  /\ Rank(s[i]) <= Rank(t[i])
  /\ s[i] \in SettledStatus => t[i] = s[i] /\ q[i] = r[i]

LEMMA Ranks ==
  /\ Rank("queued") = 1 /\ Rank("processing") = 2
  /\ Rank("completed") = 3 /\ Rank("failed") = 3
  /\ \A status \in Status : Rank(status) \in 1 .. 3
BY DEF Rank, Status

LEMMA RowsMoveForward ==
  ASSUME NEW N \in Nat, NEW s \in [1 .. N -> Status], NEW r \in [1 .. N -> BOOLEAN],
         NEW t, NEW q, NEW j \in 1 .. N, RowMoves(s, t, r, q, j)
  PROVE  /\ t \in [1 .. N -> Status] /\ q \in [1 .. N -> BOOLEAN]
         /\ t[j] # "absent" /\ \A i \in 1 .. N : i # j => t[i] = s[i]
         /\ \A i \in 1 .. N : s[i] # "absent" => RowForward(s, t, r, q, i)
         /\ \A i \in 1 .. N : t[i] = "queued" =>
              s[i] = "queued" \/ (i = j /\ s[j] = "absent")
<1>1. PICK to \in Status \ {"absent"} :
        /\ t = [s EXCEPT ![j] = to]
        /\ s[j] # "absent" => to # "queued"
        /\ s[j] \notin SettledStatus
        /\ Rank(s[j]) <= Rank(to) \/ s[j] = "absent"
  BY Ranks DEF RowMoves, Status, SettledStatus
<1>2. q = r \/ q = [r EXCEPT ![j] = TRUE]
  BY DEF RowMoves
<1>3. /\ t \in [1 .. N -> Status] /\ q \in [1 .. N -> BOOLEAN]
      /\ \A i \in 1 .. N : t[i] = IF i = j THEN to ELSE s[i]
      /\ \A i \in 1 .. N : i # j => q[i] = r[i]
  BY <1>1, <1>2
<1>4. ASSUME NEW i \in 1 .. N, s[i] # "absent" PROVE RowForward(s, t, r, q, i)
  <2>1. t[i] # "absent" /\ Rank(s[i]) <= Rank(t[i])
    BY <1>1, <1>3, <1>4, Ranks
  <2>2. s[i] \in SettledStatus => t[i] = s[i] /\ q[i] = r[i]
    BY <1>1, <1>3
  <2> QED
    BY <2>1, <2>2 DEF RowForward
<1> QED
  BY <1>1, <1>3, <1>4

-----------------------------------------------------------------------------
(* The two tables and the ids *)

Table(k) ==
  /\ StatusOf(k) \in [JobOf(k) -> Status]
  /\ ResultOf(k) \in [JobOf(k) -> BOOLEAN]
  /\ owner[k] \in [JobOf(k) -> User \cup {NoUser}]
  /\ \A j \in JobOf(k) : StatusOf(k)[j] = "absent" => owner[k][j] = NoUser

(* Process p has a row before row j that is still to be committed. *)
Behind(p, k, j) ==
  flushed[p] # Nothing /\ flushed[p].kind = k /\ flushed[p].job < j

(* What may still come before row j, and with it all that may ever be ahead. *)
Unseen(k, j) == {i \in JobOf(k) : \E p \in Process : Behind(p, k, j) /\ flushed[p].job = i}

Ahead(k, j) == QueuedUpTo(StatusOf(k), j) \cup Unseen(k, j)

(* The process that has committed a row has none before it, then or later. *)
IdsInv ==
  /\ lastId \in [Kind -> Nat]
  /\ flushed \in [Process -> Insert \cup {Nothing}]
  /\ \A p \in Process : flushed[p] # Nothing =>
       /\ flushed[p].job \in JobOf(flushed[p].kind)
       /\ flushed[p].job <= lastId[flushed[p].kind]
  /\ \A k \in Kind : \A j \in JobOf(k) : StatusOf(k)[j] # "absent" =>
       /\ j <= lastId[k]
       /\ \E p \in Process : ~ Behind(p, k, j)

TablesInv == DOMAIN owner = Kind /\ IdsInv /\ \A k \in Kind : Table(k)

(* What a step may do to a table. *)
TableForward(k) ==
  \A i \in JobOf(k) : StatusOf(k)[i] # "absent" =>
    /\ RowForward(StatusOf(k), StatusOf(k)', ResultOf(k), ResultOf(k)', i)
    /\ owner'[k][i] = owner[k][i]
    /\ Ahead(k, i)' \subseteq Ahead(k, i)

LEMMA Sizes == \A k \in Kind : \E N \in Nat : JobOf(k) = 1 .. N
BY PollingAssumption DEF Kind, JobOf

LEMMA Inserts ==
  ASSUME NEW row \in Insert
  PROVE  row.kind \in Kind /\ row.job \in Job /\ row.user \in User /\ row # Nothing
<1>1. row.kind \in Kind /\ row.job \in Job /\ row.user \in User
  BY DEF Insert
<1>2. Nothing.kind = "none" /\ "none" \notin Kind
  BY DEF Nothing, Kind
<1> QED
  BY <1>1, <1>2

(* A step on row j of one table, by whoever: a row that comes into the      *)
(* queue was one still to be committed.                                    *)
LEMMA OneTable ==
  ASSUME NEW k \in Kind, Table(k), NEW j \in JobOf(k),
         RowMoves(StatusOf(k), StatusOf(k)', ResultOf(k), ResultOf(k)', j),
         \/ owner'[k] = owner[k] /\ StatusOf(k)[j] # "absent"
         \/ \E u \in User :
              owner'[k] = [owner[k] EXCEPT ![j] = u] /\ StatusOf(k)[j] = "absent",
         \A i \in JobOf(k) : StatusOf(k)[i] # "absent" =>
           /\ Unseen(k, i)' \subseteq Unseen(k, i)
           /\ StatusOf(k)[j] = "absent" /\ j < i => j \in Unseen(k, i)
  PROVE  Table(k)' /\ TableForward(k)
<1>1. PICK N \in Nat : JobOf(k) = 1 .. N
  BY Sizes
<1>2. PICK s, t, r, q : s = StatusOf(k) /\ t = StatusOf(k)' /\ r = ResultOf(k) /\ q = ResultOf(k)'
  OBVIOUS
<1>3. /\ s \in [1 .. N -> Status] /\ r \in [1 .. N -> BOOLEAN]
      /\ owner[k] \in [1 .. N -> User \cup {NoUser}]
      /\ \A i \in 1 .. N : s[i] = "absent" => owner[k][i] = NoUser
      /\ RowMoves(s, t, r, q, j) /\ j \in 1 .. N
  BY <1>1, <1>2 DEF Table
<1>4. /\ t \in [1 .. N -> Status] /\ q \in [1 .. N -> BOOLEAN]
      /\ t[j] # "absent" /\ \A i \in 1 .. N : i # j => t[i] = s[i]
      /\ \A i \in 1 .. N : s[i] # "absent" => RowForward(s, t, r, q, i)
      /\ \A i \in 1 .. N : t[i] = "queued" => s[i] = "queued" \/ (i = j /\ s[j] = "absent")
  BY <1>3, RowsMoveForward
<1>5. /\ owner'[k] \in [1 .. N -> User \cup {NoUser}]
      /\ \A i \in 1 .. N : i # j => owner'[k][i] = owner[k][i]
      /\ s[j] # "absent" => owner'[k] = owner[k]
  BY <1>2, <1>3
<1>6. Table(k)'
  BY <1>1, <1>2, <1>3, <1>4, <1>5 DEF Table, JobOf
<1>7. ASSUME NEW i \in 1 .. N, s[i] # "absent" PROVE Ahead(k, i)' \subseteq Ahead(k, i)
  <2>1. ASSUME NEW m \in QueuedUpTo(t, i) PROVE m \in QueuedUpTo(s, i) \cup Unseen(k, i)
    <3>1. m \in 1 .. N /\ t[m] = "queued" /\ m <= i
      BY <1>4 DEF QueuedUpTo
    <3>2. CASE s[m] = "queued"
      BY <1>3, <3>1, <3>2 DEF QueuedUpTo
    <3>3. CASE s[m] # "queued"
      <4>1. m = j /\ s[j] = "absent" /\ j < i
        BY <1>4, <1>7, <3>1, <3>3
      <4> QED
        BY <1>1, <1>2, <1>7, <4>1
    <3> QED
      BY <3>2, <3>3
  <2>2. Ahead(k, i)' = QueuedUpTo(t, i) \cup Unseen(k, i)'
    BY <1>2 DEF Ahead, QueuedUpTo
  <2>3. Unseen(k, i)' \subseteq Unseen(k, i)
    BY <1>1, <1>2, <1>7
  <2> QED
    BY <1>2, <2>1, <2>2, <2>3 DEF Ahead
<1>8. TableForward(k)
  BY <1>1, <1>2, <1>3, <1>4, <1>5, <1>7 DEF TableForward
<1> QED
  BY <1>6, <1>8

LEMMA TableStays ==
  ASSUME NEW k \in Kind, Table(k), StatusOf(k)' = StatusOf(k), ResultOf(k)' = ResultOf(k),
         owner'[k] = owner[k],
         \A i \in JobOf(k) : StatusOf(k)[i] # "absent" => Unseen(k, i)' \subseteq Unseen(k, i)
  PROVE  Table(k)' /\ TableForward(k)
<1>1. Table(k)'
  BY DEF Table, JobOf
<1>2. PICK N \in Nat : JobOf(k) = 1 .. N
  BY Sizes
<1>3. ASSUME NEW i \in 1 .. N PROVE Rank(StatusOf(k)[i]) <= Rank(StatusOf(k)[i])
  <2>1. StatusOf(k)[i] \in Status
    BY <1>2 DEF Table
  <2> QED
    BY <2>1, Ranks
<1>4. ASSUME NEW i \in JobOf(k), StatusOf(k)[i] # "absent"
      PROVE  Ahead(k, i)' \subseteq Ahead(k, i)
  BY <1>4 DEF Ahead, QueuedUpTo
<1>5. TableForward(k)
  BY <1>2, <1>3, <1>4 DEF TableForward, RowForward
<1> QED
  BY <1>1, <1>5

(* Committing or losing rows, or none. *)
LEMMA RowsLeave ==
  ASSUME \A p \in Process : flushed'[p] = flushed[p] \/ flushed'[p] = Nothing
  PROVE  /\ \A p \in Process : \A k, j : Behind(p, k, j)' => Behind(p, k, j)
         /\ \A k, j : Unseen(k, j)' \subseteq Unseen(k, j)
<1>1. ASSUME NEW p \in Process, NEW k, NEW j, Behind(p, k, j)'
      PROVE  Behind(p, k, j) /\ flushed'[p].job = flushed[p].job
  BY <1>1 DEF Behind
<1>2. \A k, j : Unseen(k, j)' \subseteq Unseen(k, j)
  BY <1>1 DEF Unseen, JobOf
<1> QED
  BY <1>1, <1>2

LEMMA IdsStay ==
  ASSUME IdsInv, lastId' = lastId,
         flushed' \in [Process -> Insert \cup {Nothing}],
         \A p \in Process : flushed'[p] = flushed[p] \/ flushed'[p] = Nothing,
         \A k \in Kind : \A j \in JobOf(k) :
           StatusOf(k)'[j] # "absent" /\ StatusOf(k)[j] = "absent" =>
             \E p \in Process : /\ flushed[p] # Nothing /\ flushed'[p] = Nothing
                                /\ flushed[p].kind = k /\ flushed[p].job = j
  PROVE  IdsInv'
<1>1. /\ flushed' \in [Process -> Insert \cup {Nothing}]
      /\ \A p \in Process : flushed'[p] # Nothing => flushed'[p] = flushed[p]
  OBVIOUS
<1>2. ASSUME NEW p \in Process, flushed'[p] # Nothing
      PROVE  /\ flushed'[p].job \in JobOf(flushed'[p].kind)
             /\ flushed'[p].job <= lastId'[flushed'[p].kind]
  BY <1>1, <1>2 DEF IdsInv
<1>3. ASSUME NEW k \in Kind, NEW j \in JobOf(k), StatusOf(k)'[j] # "absent"
      PROVE  j <= lastId'[k] /\ \E p \in Process : ~ Behind(p, k, j)'
  <2>1. CASE StatusOf(k)[j] # "absent"
    BY <2>1, RowsLeave DEF IdsInv
  <2>2. CASE StatusOf(k)[j] = "absent"
    <3>1. PICK p \in Process : /\ flushed[p] # Nothing /\ flushed'[p] = Nothing
                               /\ flushed[p].kind = k /\ flushed[p].job = j
      BY <1>3, <2>2
    <3>2. ~ Behind(p, k, j)'
      BY <3>1 DEF Behind
    <3> QED
      BY <3>1, <3>2 DEF IdsInv
  <2> QED
    BY <2>1, <2>2
<1>4. \A k \in Kind : \A j \in JobOf(k) : StatusOf(k)'[j] # "absent" =>
        j <= lastId'[k] /\ \E p \in Process : ~ Behind(p, k, j)'
  BY <1>3
<1> QED
  BY <1>1, <1>2, <1>4 DEF IdsInv, Insert, Job, JobOf

(* An INSERT takes an id after all that are in the table. *)
LEMMA FlushForward ==
  ASSUME TablesInv, NEW p \in Process, NEW u \in User, NEW k \in Kind, Flush(p, u, k)
  PROVE  TablesInv' /\ \A l \in Kind : TableForward(l)
<1>1. PICK row : row = [kind |-> k, job |-> lastId[k] + 1, user |-> u]
  OBVIOUS
<1>2. /\ row.kind = k /\ row.job = lastId[k] + 1 /\ row.job \in JobOf(k)
      /\ row \in Insert /\ lastId[k] \in Nat
  BY <1>1 DEF Flush, Insert, Job, Kind, TablesInv, IdsInv
<1>3. /\ flushed \in [Process -> Insert \cup {Nothing}]
      /\ flushed' = [flushed EXCEPT ![p] = row]
      /\ lastId \in [Kind -> Nat]
      /\ lastId' = [lastId EXCEPT ![k] = lastId[k] + 1]
      /\ owner' = owner
      /\ \A l \in Kind : StatusOf(l)' = StatusOf(l) /\ ResultOf(l)' = ResultOf(l)
  BY <1>1 DEF Flush, TablesInv, IdsInv, ttsTable, sttTable, StatusOf, ResultOf
<1>4. /\ flushed'[p] = row /\ \A o \in Process \ {p} : flushed'[o] = flushed[o]
      /\ flushed' \in [Process -> Insert \cup {Nothing}]
      /\ lastId' \in [Kind -> Nat] /\ \A l \in Kind : lastId[l] <= lastId'[l]
      /\ lastId'[k] = lastId[k] + 1
  BY <1>2, <1>3
<1>5. ASSUME NEW l \in Kind, NEW i \in JobOf(l), StatusOf(l)[i] # "absent",
             NEW o \in Process, Behind(o, l, i)'
      PROVE  Behind(o, l, i) /\ flushed'[o] = flushed[o]
  <2>1. CASE o = p
    <3>1. l = k /\ lastId[k] + 1 < i
      BY <1>2, <1>4, <1>5, <2>1 DEF Behind
    <3>2. i <= lastId[k] /\ i \in Nat
      BY <1>5, <3>1, Sizes DEF TablesInv, IdsInv
    <3> QED
      BY <1>2, <3>1, <3>2
  <2>2. CASE o # p
    BY <1>4, <1>5, <2>2 DEF Behind
  <2> QED
    BY <2>1, <2>2
<1>6. \A l \in Kind : \A i \in JobOf(l) : StatusOf(l)[i] # "absent" =>
        Unseen(l, i)' \subseteq Unseen(l, i)
  BY <1>5 DEF Unseen, JobOf
<1>7. IdsInv'
  <2>1. ASSUME NEW o \in Process, flushed'[o] # Nothing
        PROVE  /\ flushed'[o].job \in JobOf(flushed'[o].kind)
               /\ flushed'[o].job <= lastId'[flushed'[o].kind]
    <3>1. CASE o = p
      BY <1>2, <1>4, <3>1
    <3>2. CASE o # p
      <4>1. /\ flushed[o].job \in JobOf(flushed[o].kind) /\ flushed[o].kind \in Kind
            /\ flushed[o].job <= lastId[flushed[o].kind] /\ flushed'[o] = flushed[o]
        BY <1>3, <1>4, <2>1, <3>2, Inserts DEF TablesInv, IdsInv
      <4>2. PICK j, n, m : /\ j = flushed[o].job /\ n = lastId[flushed[o].kind]
                           /\ m = lastId'[flushed[o].kind]
        OBVIOUS
      <4>3. j \in Nat /\ n \in Nat /\ m \in Nat /\ j <= n /\ n <= m
        BY <1>3, <1>4, <4>1, <4>2, Sizes
      <4> QED
        BY <4>1, <4>2, <4>3
    <3> QED
      BY <3>1, <3>2
  <2>2. ASSUME NEW l \in Kind, NEW j \in JobOf(l), StatusOf(l)'[j] # "absent"
        PROVE  j <= lastId'[l] /\ \E o \in Process : ~ Behind(o, l, j)'
    <3>1. StatusOf(l)[j] # "absent"
      BY <1>3, <2>2
    <3>2. j <= lastId[l] /\ \E o \in Process : ~ Behind(o, l, j)
      BY <3>1 DEF TablesInv, IdsInv
    <3>3. j \in Nat /\ lastId[l] \in Nat /\ lastId'[l] \in Nat /\ lastId[l] <= lastId'[l]
      BY <1>3, <1>4, Sizes
    <3> QED
      BY <1>5, <3>1, <3>2, <3>3
  <2>3. \A l \in Kind : \A j \in JobOf(l) : StatusOf(l)'[j] # "absent" =>
          j <= lastId'[l] /\ \E o \in Process : ~ Behind(o, l, j)'
    BY <2>2
  <2> QED
    BY <1>4, <2>1, <2>3 DEF IdsInv, Insert, Job, JobOf
<1>8. ASSUME NEW l \in Kind PROVE Table(l)' /\ TableForward(l)
  BY <1>3, <1>6, TableStays DEF TablesInv
<1> QED
  BY <1>3, <1>7, <1>8 DEF TablesInv

(* A commit brings a row that was counted on. *)
LEMMA CommitForward ==
  ASSUME TablesInv, NEW p \in Process, Commit(p)
  PROVE  TablesInv' /\ \A l \in Kind : TableForward(l)
<1>1. PICK k, j, u : k = flushed[p].kind /\ j = flushed[p].job /\ u = flushed[p].user
  OBVIOUS
<1>2. /\ k \in Kind /\ flushed[p] # Nothing /\ j \in JobOf(k) /\ u \in User
      /\ flushed \in [Process -> Insert \cup {Nothing}]
  <2>1. k \in Kind
    BY <1>1 DEF Commit, Kind
  <2>2. flushed[p] # Nothing
    BY <1>1, <2>1 DEF Nothing, Kind
  <2> QED
    BY <1>1, <2>1, <2>2, Inserts DEF TablesInv, IdsInv
<1>3. /\ owner' = [owner EXCEPT ![k] = [owner[k] EXCEPT ![j] = u]]
      /\ flushed' = [flushed EXCEPT ![p] = Nothing] /\ lastId' = lastId
      /\ DOMAIN owner = Kind
  BY <1>1 DEF Commit, TablesInv
<1>4. /\ DOMAIN owner' = Kind /\ owner'[k] = [owner[k] EXCEPT ![j] = u]
      /\ \A l \in Kind : l # k => owner'[l] = owner[l]
      /\ flushed'[p] = Nothing /\ \A o \in Process \ {p} : flushed'[o] = flushed[o]
      /\ flushed' \in [Process -> Insert \cup {Nothing}]
  BY <1>2, <1>3
<1>5. DOMAIN StatusOf(k) = JobOf(k) /\ Table(k)
  BY <1>2 DEF TablesInv, Table
<1>6. /\ StatusOf(k)[j] = "absent" /\ ResultOf(k)' = ResultOf(k)
      /\ \/ StatusOf(k)' = [StatusOf(k) EXCEPT ![j] = "queued"]
         \/ StatusOf(k)' = [StatusOf(k) EXCEPT ![j] = "processing"]
      /\ \A l \in Kind : l # k => StatusOf(l)' = StatusOf(l) /\ ResultOf(l)' = ResultOf(l)
  <2>1. CASE k = "tts"
    BY <1>1, <2>1 DEF Commit, Tts!Submit, Tts!Move, StatusOf, ResultOf, Kind, sttTable
  <2>2. CASE k = "stt"
    BY <1>1, <2>2 DEF Commit, Stt!Submit, Stt!Move, StatusOf, ResultOf, Kind, ttsTable
  <2> QED
    BY <1>2, <2>1, <2>2 DEF Kind
<1>7. RowMoves(StatusOf(k), StatusOf(k)', ResultOf(k), ResultOf(k)', j)
  BY <1>6 DEF RowMoves
<1>8. \A l, i : Unseen(l, i)' \subseteq Unseen(l, i)
  BY <1>4, RowsLeave
<1>9. \A i \in JobOf(k) : j < i => j \in Unseen(k, i)
  BY <1>1, <1>2 DEF Unseen, Behind
<1>10. Table(k)' /\ TableForward(k)
  BY <1>2, <1>4, <1>5, <1>6, <1>7, <1>8, <1>9, OneTable
<1>11. ASSUME NEW l \in Kind, l # k PROVE Table(l)' /\ TableForward(l)
  BY <1>4, <1>6, <1>8, <1>11, TableStays DEF TablesInv
<1>12. IdsInv'
  <2>1. ASSUME NEW l \in Kind, NEW i \in JobOf(l),
               StatusOf(l)'[i] # "absent", StatusOf(l)[i] = "absent"
        PROVE  l = k /\ i = j
    <3>1. l = k
      BY <1>6, <2>1
    <3>2. i # j => StatusOf(k)'[i] = StatusOf(k)[i]
      BY <1>5, <1>6, <2>1, <3>1
    <3> QED
      BY <2>1, <3>1, <3>2
  <2>2. \A o \in Process : flushed'[o] = flushed[o] \/ flushed'[o] = Nothing
    BY <1>4
  <2>3. \A l \in Kind : \A i \in JobOf(l) :
          StatusOf(l)'[i] # "absent" /\ StatusOf(l)[i] = "absent" =>
            \E o \in Process : /\ flushed[o] # Nothing /\ flushed'[o] = Nothing
                               /\ flushed[o].kind = l /\ flushed[o].job = i
    BY <1>1, <1>2, <1>4, <2>1
  <2> QED
    BY <1>3, <1>4, <2>2, <2>3, IdsStay DEF TablesInv
<1> QED
  BY <1>4, <1>10, <1>11, <1>12 DEF TablesInv

LEMMA TablesMoveForward ==
  ASSUME TablesInv, [Next]_vars
  PROVE  TablesInv' /\ \A k \in Kind : TableForward(k)
<1>0. flushed \in [Process -> Insert \cup {Nothing}]
  BY DEF TablesInv, IdsInv
<1>1. ASSUME UNCHANGED <<ttsTable, sttTable, owner, lastId>>,
             flushed' \in [Process -> Insert \cup {Nothing}],
             \A p \in Process : flushed'[p] = flushed[p] \/ flushed'[p] = Nothing
      PROVE  TablesInv' /\ \A k \in Kind : TableForward(k)
  <2>1. \A k \in Kind : StatusOf(k)' = StatusOf(k) /\ ResultOf(k)' = ResultOf(k)
    BY <1>1 DEF ttsTable, sttTable, StatusOf, ResultOf
  <2>2. IdsInv'
    BY <1>1, <2>1, IdsStay DEF TablesInv
  <2>3. \A k \in Kind : Table(k)' /\ TableForward(k)
    BY <1>1, <2>1, RowsLeave, TableStays DEF TablesInv
  <2> QED
    BY <1>1, <2>2, <2>3 DEF TablesInv
<1>2. CASE UNCHANGED tables
  BY <1>0, <1>1, <1>2 DEF tables
<1>3. ASSUME NEW p \in Process, Abort(p)
      PROVE  TablesInv' /\ \A l \in Kind : TableForward(l)
  <2>1. /\ flushed' \in [Process -> Insert \cup {Nothing}]
        /\ \A o \in Process : flushed'[o] = flushed[o] \/ flushed'[o] = Nothing
    BY <1>0, <1>3 DEF Abort
  <2> QED
    BY <1>1, <1>3, <2>1 DEF Abort
<1>4. ASSUME NEW k \in Kind, NEW j \in JobOf(k),
             k = "tts" => AdvanceTts(j), k = "stt" => AdvanceStt(j)
      PROVE  TablesInv' /\ \A l \in Kind : TableForward(l)
  <2>1. owner' = owner /\ flushed' = flushed /\ lastId' = lastId
    BY <1>4 DEF AdvanceTts, AdvanceStt, Kind
  <2>2. RowMoves(StatusOf(k), StatusOf(k)', ResultOf(k), ResultOf(k)', j)
    <3>1. CASE k = "tts"
      BY <1>4, <3>1 DEF AdvanceTts, Tts!Start, Tts!Complete, Tts!Fail, Tts!Move,
         StatusOf, ResultOf, RowMoves
    <3>2. CASE k = "stt"
      BY <1>4, <3>2 DEF AdvanceStt, Stt!Start, Stt!Complete, Stt!Fail, Stt!Move,
         StatusOf, ResultOf, RowMoves
    <3> QED
      BY <3>1, <3>2 DEF Kind
  <2>3. StatusOf(k)[j] # "absent"
    <3>1. CASE k = "tts"
      BY <1>4, <3>1 DEF AdvanceTts, Tts!Start, Tts!Complete, Tts!Fail, Tts!Move, StatusOf
    <3>2. CASE k = "stt"
      BY <1>4, <3>2 DEF AdvanceStt, Stt!Start, Stt!Complete, Stt!Fail, Stt!Move, StatusOf
    <3> QED
      BY <3>1, <3>2 DEF Kind
  <2>4. \A l, i : Unseen(l, i)' \subseteq Unseen(l, i)
    BY <2>1, RowsLeave
  <2>5. Table(k)' /\ TableForward(k)
    BY <2>1, <2>2, <2>3, <2>4, OneTable DEF TablesInv
  <2>6. ASSUME NEW l \in Kind, l # k
        PROVE  StatusOf(l)' = StatusOf(l) /\ ResultOf(l)' = ResultOf(l)
    BY <1>4, <2>6 DEF AdvanceTts, AdvanceStt, Kind, StatusOf, ResultOf, ttsTable, sttTable
  <2>7. ASSUME NEW l \in Kind, l # k PROVE Table(l)' /\ TableForward(l)
    BY <2>1, <2>4, <2>6, <2>7, TableStays DEF TablesInv
  <2>8. IdsInv'
    <3>1. \A i \in JobOf(k) : StatusOf(k)[i] = "absent" => StatusOf(k)'[i] = "absent"
      <4>1. DOMAIN StatusOf(k) = JobOf(k)
        BY DEF TablesInv, Table
      <4> QED
        BY <2>2, <2>3, <4>1 DEF RowMoves
    <3>2. \A l \in Kind : \A i \in JobOf(l) :
            ~ (StatusOf(l)'[i] # "absent" /\ StatusOf(l)[i] = "absent")
      BY <2>6, <3>1
    <3> QED
      BY <1>0, <2>1, <3>2, IdsStay DEF TablesInv
  <2> QED
    BY <2>1, <2>5, <2>7, <2>8 DEF TablesInv
<1>5. \/ UNCHANGED tables
      \/ \E p \in Process : \/ \E u \in User, k \in Kind : Flush(p, u, k)
                            \/ Commit(p)
                            \/ Abort(p)
      \/ \E j \in JobOf("tts") : AdvanceTts(j)
      \/ \E j \in JobOf("stt") : AdvanceStt(j)
  BY DEF Next, vars, Follow, SendPoll, Serve, Lookup, LookupNext, LookupFails, CountAhead
<1>6. "tts" \in Kind /\ "stt" \in Kind /\ "tts" # "stt"
  BY DEF Kind
<1> QED
  BY <1>2, <1>3, <1>4, <1>5, <1>6, FlushForward, CommitForward

-----------------------------------------------------------------------------
(* How many may be ahead of a job *)

LEMMA UnseenAreFew ==
  ASSUME TablesInv, NEW k \in Kind, NEW j \in JobOf(k), StatusOf(k)[j] # "absent"
  PROVE  /\ IsFiniteSet(Unseen(k, j)) /\ Cardinality(Process) \in Nat
         /\ Cardinality(Unseen(k, j)) \in Nat
         /\ Cardinality(Unseen(k, j)) <= Cardinality(Process) - 1
<1>1. PICK p \in Process : ~ Behind(p, k, j)
  BY DEF TablesInv, IdsInv
<1>2. PICK others : others = Process \ {p}
  OBVIOUS
<1>3. /\ IsFiniteSet(others) /\ Cardinality(others) = Cardinality(Process) - 1
      /\ Cardinality(Process) \in Nat
  BY <1>1, <1>2, PollingAssumption, FS_RemoveElement, FS_CardinalityType
<1>4. PICK f : f = [i \in Unseen(k, j) |->
                      CHOOSE o \in Process : Behind(o, k, j) /\ flushed[o].job = i]
  OBVIOUS
<1>5. ASSUME NEW i \in Unseen(k, j)
      PROVE  f[i] \in Process /\ Behind(f[i], k, j) /\ flushed[f[i]].job = i
  BY <1>4 DEF Unseen
<1>6. f \in [Unseen(k, j) -> others]
  BY <1>1, <1>2, <1>4, <1>5
<1>7. f \in Injection(Unseen(k, j), others)
  BY <1>5, <1>6 DEF Injection, IsInjective
<1> QED
  BY <1>3, <1>7, FS_Injection, FS_CardinalityType

LEMMA Counts ==
  ASSUME TablesInv, NEW k \in Kind, NEW j \in JobOf(k), StatusOf(k)[j] # "absent"
  PROVE  /\ LivePosition(k, j) \in Nat /\ LivePosition(k, j) <= j
         /\ IsFiniteSet(Ahead(k, j)) /\ Cardinality(Ahead(k, j)) \in Nat
         /\ LivePosition(k, j) <= Cardinality(Ahead(k, j))
         /\ Cardinality(Process) \in Nat
         /\ Cardinality(Ahead(k, j)) <= LivePosition(k, j) + Cardinality(Process) - 1
<1>1. j \in Nat /\ IsFiniteSet(1 .. j) /\ Cardinality(1 .. j) = j
  BY Sizes, FS_Interval
<1>2. PICK Q : Q = QueuedUpTo(StatusOf(k), j)
  OBVIOUS
<1>3. LivePosition(k, j) = Cardinality(Q) /\ Q \subseteq 1 .. j
  <2>1. DOMAIN StatusOf(k) = JobOf(k)
    BY DEF TablesInv, Table
  <2> QED
    BY <1>2, <2>1, Sizes DEF LivePosition, QueuedUpTo
<1>4. IsFiniteSet(Q) /\ Cardinality(Q) <= j /\ Cardinality(Q) \in Nat
  BY <1>1, <1>3, FS_Subset, FS_CardinalityType
<1>5. /\ IsFiniteSet(Unseen(k, j)) /\ Cardinality(Process) \in Nat
      /\ Cardinality(Unseen(k, j)) \in Nat
      /\ Cardinality(Unseen(k, j)) <= Cardinality(Process) - 1
  BY UnseenAreFew
<1>6. /\ IsFiniteSet(Q \cup Unseen(k, j))
      /\ Cardinality(Q \cup Unseen(k, j)) =
           Cardinality(Q) + Cardinality(Unseen(k, j)) - Cardinality(Q \cap Unseen(k, j))
  BY <1>4, <1>5, FS_Union
<1>7. IsFiniteSet(Q \cap Unseen(k, j)) /\ Cardinality(Q \cap Unseen(k, j)) \in Nat
  BY <1>4, FS_Subset, FS_CardinalityType
<1>8. Cardinality(Q) <= Cardinality(Q \cup Unseen(k, j))
  BY <1>6, FS_Subset
<1>9. Cardinality(Q \cup Unseen(k, j)) \in Nat
  BY <1>6, FS_CardinalityType
<1>10. Ahead(k, j) = Q \cup Unseen(k, j)
  BY <1>2 DEF Ahead
<1> QED
  BY <1>3, <1>4, <1>5, <1>6, <1>7, <1>8, <1>9, <1>10

-----------------------------------------------------------------------------
(* The pollers *)

Followed == [kind : Kind, job : Job, type : Types]
Polling == [pc : Kind] \cup [pc : {"counting"}, kind : Kind]

PollTypes ==
  /\ follows \in [Poller -> Followed \cup {Nothing}]
  /\ poll \in [Poller -> Polling \cup {Idle}]
  /\ seen \in [Poller -> Answer \cup {Nothing, NotFound}]

(* A request and an answer are about a job, and the outcome ends the polls. *)
Asked(u) ==
  /\ poll[u] # Idle \/ seen[u] # Nothing => follows[u] # Nothing
  /\ poll[u] # Idle => ~ Outcome(u)

(* Between the two queries: the row was found, and queued.  Nothing further *)
(* on can have been answered before.                                        *)
Counting(u) == poll[u].pc = "counting" =>
  /\ Found(u, poll[u].kind)
  /\ Answered(u) /\ seen[u].kind = poll[u].kind => seen[u].status = "queued"

(* An answer lags behind its row and never runs ahead of it, and no more   *)
(* than the other processes can have had in hand is to come before it.     *)
LagsBehind(answer, status, result, ahead) ==
  /\ Rank(answer.status) <= Rank(status)
  /\ answer.status \in SettledStatus => status = answer.status /\ result = answer.result
  /\ answer.status = "queued" => ahead <= answer.position + Cardinality(Process) - 1

Told(u) == Answered(u) =>
  /\ Found(u, seen[u].kind)
  /\ seen[u].position <= follows[u].job
  /\ LagsBehind(seen[u], StatusOf(seen[u].kind)[follows[u].job],
                ResultOf(seen[u].kind)[follows[u].job],
                Cardinality(Ahead(seen[u].kind, follows[u].job)))

PollerInv(u) == Asked(u) /\ Counting(u) /\ Told(u)

PollingInv == TablesInv /\ PollTypes /\ \A u \in Poller : PollerInv(u)

LEMMA Kinds ==
  /\ Nothing.kind = "none" /\ NotFound.kind = "not found" /\ Idle.pc = "idle"
  /\ \A f \in Followed : f # Nothing /\ f.kind \in Kind /\ f.job \in Job /\ f.type \in Types
  /\ \A a \in Answer : /\ a # Nothing /\ a # NotFound /\ a.kind \in Kind
                       /\ a.status \in Status \ {"absent"} /\ a.position \in Nat
  /\ \A q \in Polling : /\ q # Idle /\ q.pc \in Kind \cup {"counting"}
                        /\ q.pc = "counting" => q.kind \in Kind
  /\ "counting" \notin Kind /\ "idle" \notin Kind \cup {"counting"}
<1>1. /\ Nothing.kind = "none" /\ NotFound.kind = "not found" /\ Idle.pc = "idle"
      /\ "counting" \notin Kind /\ "idle" \notin Kind \cup {"counting"}
      /\ "none" \notin Kind /\ "not found" \notin Kind
  BY DEF Nothing, NotFound, Idle, Kind
<1>2. ASSUME NEW f \in Followed
      PROVE  f # Nothing /\ f.kind \in Kind /\ f.job \in Job /\ f.type \in Types
  <2>1. f.kind \in Kind /\ f.job \in Job /\ f.type \in Types
    BY DEF Followed
  <2> QED
    BY <1>1, <2>1
<1>3. ASSUME NEW a \in Answer
      PROVE  /\ a # Nothing /\ a # NotFound /\ a.kind \in Kind
             /\ a.status \in Status \ {"absent"} /\ a.position \in Nat
  <2>1. a.kind \in Kind /\ a.status \in Status \ {"absent"} /\ a.position \in Nat
    BY DEF Answer
  <2> QED
    BY <1>1, <2>1
<1>4. ASSUME NEW q \in Polling
      PROVE  /\ q # Idle /\ q.pc \in Kind \cup {"counting"}
             /\ q.pc = "counting" => q.kind \in Kind
  <2>1. CASE q \in [pc : Kind]
    <3>1. q.pc \in Kind
      BY <2>1
    <3> QED
      BY <1>1, <3>1
  <2>2. CASE q \in [pc : {"counting"}, kind : Kind]
    <3>1. q.pc = "counting" /\ q.kind \in Kind
      BY <2>2
    <3> QED
      BY <1>1, <3>1
  <2> QED
    BY <2>1, <2>2 DEF Polling
<1> QED
  BY <1>1, <1>2, <1>3, <1>4

LEMMA PollerTypes ==
  ASSUME PollTypes, NEW u \in Poller
  PROVE  /\ follows[u] # Nothing => follows[u] \in Followed
         /\ poll[u] # Idle => poll[u] \in Polling
         /\ poll[u].pc = "counting" => poll[u] # Idle /\ poll[u].kind \in Kind
         /\ poll[u].pc \in Kind => poll[u] # Idle
         /\ Answered(u) <=> seen[u] \in Answer
         /\ Answered(u) => seen[u].kind \in Kind
<1>1. /\ follows[u] \in Followed \cup {Nothing} /\ poll[u] \in Polling \cup {Idle}
      /\ seen[u] \in Answer \cup {Nothing, NotFound}
  BY DEF PollTypes
<1> QED
  BY <1>1, Kinds DEF Answered

(* A row that was found stays found. *)
LEMMA FoundForward ==
  ASSUME TablesInv, NEW k \in Kind, TableForward(k), NEW u \in Poller,
         follows'[u] = follows[u], Found(u, k)
  PROVE  /\ Found(u, k)'
         /\ StatusOf(k)[follows[u].job] # "absent"
         /\ RowForward(StatusOf(k), StatusOf(k)', ResultOf(k), ResultOf(k)', follows[u].job)
         /\ Ahead(k, follows[u].job)' \subseteq Ahead(k, follows[u].job)
<1>1. PICK j : j = follows[u].job
  OBVIOUS
<1>2. j \in JobOf(k) /\ owner[k][j] = u /\ u # NoUser
  BY <1>1, PollingAssumption DEF Found
<1>3. StatusOf(k)[j] # "absent"
  BY <1>2 DEF TablesInv, Table
<1>4. /\ owner'[k][j] = owner[k][j]
      /\ RowForward(StatusOf(k), StatusOf(k)', ResultOf(k), ResultOf(k)', j)
      /\ Ahead(k, j)' \subseteq Ahead(k, j)
  BY <1>2, <1>3 DEF TableForward
<1>5. Found(u, k)'
  BY <1>1, <1>2, <1>4 DEF Found, JobOf
<1>6. Ahead(k, follows[u].job)' = Ahead(k, j)'
  BY <1>1 DEF Ahead, QueuedUpTo, Unseen, Behind
<1> QED
  BY <1>1, <1>3, <1>4, <1>5, <1>6

LEMMA FoundAbsent ==
  ASSUME TablesInv, NEW k \in Kind, NEW u \in Poller, Found(u, k)
  PROVE  StatusOf(k)[follows[u].job] # "absent"
BY PollingAssumption DEF Found, TablesInv, Table

LEMMA AheadFalls ==
  ASSUME TablesInv, TablesInv', NEW k \in Kind, NEW j \in JobOf(k),
         StatusOf(k)[j] # "absent", Ahead(k, j)' \subseteq Ahead(k, j)
  PROVE  /\ Cardinality(Ahead(k, j))' <= Cardinality(Ahead(k, j))
         /\ Cardinality(Ahead(k, j)) \in Nat /\ Cardinality(Ahead(k, j))' \in Nat
         /\ Cardinality(Process) \in Nat
<1>1. /\ IsFiniteSet(Ahead(k, j)) /\ Cardinality(Ahead(k, j)) \in Nat
      /\ Cardinality(Process) \in Nat
  BY Counts
<1>2. PICK now, next : now = Ahead(k, j) /\ next = Ahead(k, j)'
  OBVIOUS
<1>3. /\ IsFiniteSet(next) /\ Cardinality(next) \in Nat
      /\ Cardinality(next) <= Cardinality(now)
  BY <1>1, <1>2, FS_Subset, FS_CardinalityType
<1> QED
  BY <1>1, <1>2, <1>3

(* Whoever is not answered by a step still lags behind afterwards. *)
LEMMA OldAnswerStays ==
  ASSUME TablesInv, TablesInv', PollTypes, NEW u \in Poller, PollerInv(u),
         \A k \in Kind : TableForward(k),
         follows'[u] = follows[u], seen'[u] = seen[u]
  PROVE  Told(u)'
<1> SUFFICES ASSUME Answered(u) PROVE Told(u)'
  BY DEF Told, Answered
<1>1. PICK k, j, a : k = seen[u].kind /\ j = follows[u].job /\ a = seen[u]
  OBVIOUS
<1>2. k \in Kind /\ a \in Answer
  BY <1>1, PollerTypes
<1>3. /\ Found(u, k) /\ a.position <= j
      /\ LagsBehind(a, StatusOf(k)[j], ResultOf(k)[j], Cardinality(Ahead(k, j)))
  BY <1>1 DEF PollerInv, Told
<1>4. /\ Found(u, k)' /\ j \in JobOf(k) /\ StatusOf(k)[j] # "absent"
      /\ RowForward(StatusOf(k), StatusOf(k)', ResultOf(k), ResultOf(k)', j)
      /\ Ahead(k, j)' \subseteq Ahead(k, j)
  BY <1>1, <1>2, <1>3, FoundForward DEF Found
<1>5. Table(k) /\ Table(k)'
  BY <1>2 DEF TablesInv
<1>6. /\ Cardinality(Ahead(k, j))' <= Cardinality(Ahead(k, j))
      /\ Cardinality(Ahead(k, j)) \in Nat /\ Cardinality(Ahead(k, j))' \in Nat
      /\ Cardinality(Process) \in Nat
  BY <1>2, <1>4, AheadFalls
<1>7. /\ Rank(a.status) \in Nat /\ Rank(StatusOf(k)[j]) \in Nat
      /\ Rank(StatusOf(k)'[j]) \in Nat /\ a.position \in Nat
  <2>1. /\ a.status \in Status /\ a.position \in Nat
        /\ StatusOf(k)[j] \in Status /\ StatusOf(k)'[j] \in Status
    BY <1>2, <1>4, <1>5, Kinds DEF Table, JobOf
  <2> QED
    BY <2>1, Ranks
<1>8. LagsBehind(a, StatusOf(k)'[j], ResultOf(k)'[j], Cardinality(Ahead(k, j))')
  BY <1>3, <1>4, <1>6, <1>7 DEF LagsBehind, RowForward
<1> QED
  BY <1>1, <1>3, <1>4, <1>8 DEF Told

(* A step on one request: the others are left alone. *)
RequestStep(u, f, p, a) ==
  /\ follows' = [follows EXCEPT ![u] = f]
  /\ poll' = [poll EXCEPT ![u] = p]
  /\ seen' = [seen EXCEPT ![u] = a]

LEMMA RequestSteps ==
  ASSUME PollTypes, NEW u \in Poller, NEW f \in Followed \cup {Nothing},
         NEW p \in Polling \cup {Idle}, NEW a \in Answer \cup {Nothing, NotFound},
         RequestStep(u, f, p, a)
  PROVE  /\ PollTypes'
         /\ follows'[u] = f /\ poll'[u] = p /\ seen'[u] = a
         /\ \A w \in Poller : w # u =>
              follows'[w] = follows[w] /\ poll'[w] = poll[w] /\ seen'[w] = seen[w]
<1>1. follows' \in [Poller -> Followed \cup {Nothing}]
  BY DEF PollTypes, RequestStep
<1>2. poll' \in [Poller -> Polling \cup {Idle}]
  BY DEF PollTypes, RequestStep
<1>3. seen' \in [Poller -> Answer \cup {Nothing, NotFound}]
  BY DEF PollTypes, RequestStep
<1>4. /\ follows'[u] = f /\ poll'[u] = p /\ seen'[u] = a
      /\ \A w \in Poller : w # u =>
           follows'[w] = follows[w] /\ poll'[w] = poll[w] /\ seen'[w] = seen[w]
  BY DEF PollTypes, RequestStep
<1>5. PollTypes'
  BY <1>1, <1>2, <1>3 DEF PollTypes, Followed, Polling, Answer, Job, JobOf
<1> QED
  BY <1>4, <1>5

(* A step that does not touch a request. *)
LEMMA OthersStay ==
  ASSUME PollingInv, TablesInv', \A k \in Kind : TableForward(k), NEW u \in Poller,
         follows'[u] = follows[u], poll'[u] = poll[u], seen'[u] = seen[u]
  PROVE  PollerInv(u)'
<1>1. Asked(u)'
  BY DEF PollingInv, PollerInv, Asked, Outcome, Answered
<1>2. Counting(u)'
  <2> SUFFICES ASSUME poll[u].pc = "counting" PROVE Counting(u)'
    BY DEF Counting
  <2>1. poll[u].kind \in Kind /\ Counting(u)
    BY PollerTypes DEF PollingInv, PollerInv
  <2>2. Found(u, poll[u].kind)'
    BY <2>1, FoundForward DEF Counting, PollingInv, Found, JobOf
  <2> QED
    BY <2>1, <2>2 DEF Counting, Answered, Found, JobOf
<1>3. Told(u)'
  BY OldAnswerStays DEF PollingInv
<1> QED
  BY <1>1, <1>2, <1>3 DEF PollerInv

(* The tables while a request is served. *)
LEMMA TablesUnchanged ==
  ASSUME UNCHANGED tables
  PROVE  /\ owner' = owner
         /\ \A k : StatusOf(k)' = StatusOf(k) /\ ResultOf(k)' = ResultOf(k)
         /\ \A k, j : Ahead(k, j)' = Ahead(k, j)
         /\ \A u \in Poller : \A k : follows'[u] = follows[u] => Found(u, k)' = Found(u, k)
BY DEF tables, ttsTable, sttTable, StatusOf, ResultOf, Ahead, QueuedUpTo, Unseen, Behind,
   JobOf, Found

(* A new answer, of the row as it is. *)
LEMMA NewAnswer ==
  ASSUME UNCHANGED tables, NEW u \in Poller, NEW k \in Kind, Found(u, k),
         NEW a \in Answer, a.kind = k, a.position <= follows[u].job,
         LagsBehind(a, StatusOf(k)[follows[u].job], ResultOf(k)[follows[u].job],
                    Cardinality(Ahead(k, follows[u].job))),
         follows[u] # Nothing, follows'[u] = follows[u], poll'[u] = Idle, seen'[u] = a
  PROVE  PollerInv(u)'
<1>1. Asked(u)'
  BY DEF Asked
<1>2. Counting(u)'
  BY Kinds DEF Counting
<1>3. Told(u)'
  BY TablesUnchanged DEF Told
<1> QED
  BY <1>1, <1>2, <1>3 DEF PollerInv

-----------------------------------------------------------------------------
(* The steps of a request.  What is left to say of each: the parameters it *)
(* sets, and that the poller's own invariant holds again.                  *)

LEMMA NewFollow ==
  ASSUME PollingInv, NEW u \in Poller, NEW k \in Kind, NEW j \in JobOf(k), Follow(u, k, j)
  PROVE  /\ \E f \in Followed : RequestStep(u, f, poll[u], Nothing)
         /\ PollerInv(u)'
<1>1. PICK type \in Types : follows' = [follows EXCEPT ![u] = [kind |-> k, job |-> j, type |-> type]]
  BY DEF Follow
<1>2. PICK f : f = [kind |-> k, job |-> j, type |-> type]
  OBVIOUS
<1>3. f \in Followed
  BY <1>2 DEF Followed, Job, Kind
<1>4. poll' = [poll EXCEPT ![u] = poll[u]] /\ seen' = [seen EXCEPT ![u] = Nothing]
  BY DEF Follow, PollingInv, PollTypes
<1>5. RequestStep(u, f, poll[u], Nothing)
  BY <1>1, <1>2, <1>4 DEF RequestStep
<1>6. follows'[u] = f /\ poll'[u] = Idle /\ seen'[u] = Nothing
  BY <1>3, <1>5, RequestSteps DEF Follow, PollingInv, PollTypes
<1>7. PollerInv(u)'
  BY <1>3, <1>6, Kinds DEF PollerInv, Asked, Counting, Told, Answered, Outcome
<1> QED
  BY <1>3, <1>5, <1>7

LEMMA NewPoll ==
  ASSUME PollingInv, NEW u \in Poller, SendPoll(u), TablesInv', \A k \in Kind : TableForward(k)
  PROVE  /\ \E p \in Polling : RequestStep(u, follows[u], p, seen[u])
         /\ PollerInv(u)'
<1>1. PICK f : f = FirstLookup(follows[u])
  OBVIOUS
<1>2. f \in Kind
  BY <1>1, PollerTypes, Kinds DEF FirstLookup, SendPoll, PollingInv, Kind
<1>3. PICK p : p = [pc |-> f]
  OBVIOUS
<1>4. p \in Polling /\ p.pc = f /\ p # Idle
  BY <1>2, <1>3, Kinds DEF Polling
<1>5. poll' = [poll EXCEPT ![u] = p]
  BY <1>1, <1>3 DEF SendPoll
<1>6. RequestStep(u, follows[u], p, seen[u])
  BY <1>5 DEF SendPoll, RequestStep, PollingInv, PollTypes
<1>7. follows'[u] = follows[u] /\ poll'[u] = p /\ seen'[u] = seen[u]
  BY <1>4, <1>6, RequestSteps DEF PollingInv, PollTypes
<1>8. Asked(u)'
  BY <1>7 DEF SendPoll, Asked, Outcome, Answered
<1>9. Counting(u)'
  BY <1>2, <1>4, <1>7, Kinds DEF Counting
<1>10. Told(u)'
  BY <1>7, OldAnswerStays DEF PollingInv
<1> QED
  BY <1>4, <1>6, <1>8, <1>9, <1>10 DEF PollerInv

LEMMA RowLookup ==
  ASSUME PollingInv, NEW u \in Poller, NEW k \in Kind, Lookup(u, k),
         TablesInv', \A l \in Kind : TableForward(l)
  PROVE  /\ \E p \in Polling \cup {Idle}, a \in Answer \cup {Nothing, NotFound} :
              RequestStep(u, follows[u], p, a)
         /\ PollerInv(u)'
<1>1. /\ PollTypes /\ PollerInv(u) /\ poll[u].pc = k /\ Found(u, k) /\ UNCHANGED tables
      /\ follows' = follows
  BY DEF PollingInv, Lookup
<1>2. PICK j, status, result :
        j = follows[u].job /\ status = StatusOf(k)[j] /\ result = ResultOf(k)[j]
  OBVIOUS
<1>3. follows[u] # Nothing /\ follows[u] \in Followed /\ poll[u] # Idle
  BY <1>1, PollerTypes, Kinds DEF PollerInv, Asked
<1>4. j \in JobOf(k) /\ status \in Status \ {"absent"} /\ result \in BOOLEAN /\ Table(k)
  BY <1>1, <1>2, FoundAbsent DEF PollingInv, TablesInv, Table, Found
<1>5. j \in Nat /\ 0 <= j
  BY <1>4, Sizes
<1>6. CASE status = "queued"
  <2>1. PICK p : p = [pc |-> "counting", kind |-> k]
    OBVIOUS
  <2>2. p \in Polling /\ p.pc = "counting" /\ p.kind = k
    BY <2>1 DEF Polling
  <2>3. poll' = [poll EXCEPT ![u] = p] /\ seen' = seen
    BY <1>2, <1>6, <2>1 DEF Lookup
  <2>4. RequestStep(u, follows[u], p, seen[u])
    BY <1>1, <2>3 DEF RequestStep, PollTypes
  <2>5. follows'[u] = follows[u] /\ poll'[u] = p /\ seen'[u] = seen[u]
    BY <1>1, <2>2, <2>4, RequestSteps DEF PollTypes
  <2>6. Asked(u)'
    BY <1>1, <1>3, <2>5 DEF PollerInv, Asked, Outcome, Answered
  <2>7. ASSUME Answered(u), seen[u].kind = k PROVE seen[u].status = "queued"
    <3>1. PICK a : a = seen[u]
      OBVIOUS
    <3>2. a \in Answer /\ Rank(a.status) <= Rank(status)
      BY <1>1, <1>2, <2>7, <3>1, PollerTypes DEF PollerInv, Told, LagsBehind
    <3>3. a.status \in Status \ {"absent"}
      BY <3>2, Kinds
    <3> QED
      BY <1>6, <3>1, <3>2, <3>3, Ranks DEF Status
  <2>8. Counting(u)'
    BY <1>1, <2>2, <2>5, <2>7, TablesUnchanged DEF Counting, Answered
  <2>9. Told(u)'
    BY <2>5, OldAnswerStays DEF PollingInv
  <2> QED
    BY <1>1, <2>2, <2>4, <2>6, <2>8, <2>9 DEF PollerInv, PollTypes
<1>7. CASE status # "queued"
  <2>1. PICK a : a = [kind |-> k, status |-> status, result |-> result, position |-> 0]
    OBVIOUS
  <2>2. /\ a \in Answer /\ a.kind = k /\ a.status = status /\ a.result = result
        /\ a.position = 0
    BY <1>4, <2>1 DEF Answer
  <2>3. poll' = [poll EXCEPT ![u] = Idle] /\ seen' = [seen EXCEPT ![u] = a]
    BY <1>2, <1>7, <2>1 DEF Lookup, Reply
  <2>4. RequestStep(u, follows[u], Idle, a)
    BY <1>1, <2>3 DEF RequestStep, PollTypes
  <2>5. follows'[u] = follows[u] /\ poll'[u] = Idle /\ seen'[u] = a
    <3>1. /\ Idle \in Polling \cup {Idle} /\ a \in Answer \cup {Nothing, NotFound}
          /\ follows[u] \in Followed \cup {Nothing}
      BY <1>3, <2>2
    <3> QED
      BY <1>1, <2>4, <3>1, RequestSteps
  <2>6. LagsBehind(a, StatusOf(k)[j], ResultOf(k)[j], Cardinality(Ahead(k, j)))
    <3>1. Rank(status) <= Rank(status)
      BY <1>4, Ranks
    <3> QED
      BY <1>2, <1>7, <2>2, <3>1 DEF LagsBehind
  <2>7. PollerInv(u)'
    BY <1>1, <1>2, <1>3, <1>5, <2>2, <2>5, <2>6, NewAnswer
  <2> QED
    BY <2>2, <2>4, <2>7
<1> QED
  BY <1>6, <1>7

LEMMA PositionAnswer ==
  ASSUME PollingInv, NEW u \in Poller, CountAhead(u)
  PROVE  /\ \E a \in Answer : RequestStep(u, follows[u], Idle, a)
         /\ PollerInv(u)'
<1>1. /\ PollTypes /\ PollerInv(u) /\ poll[u].pc = "counting" /\ UNCHANGED tables
      /\ follows' = follows
  BY DEF PollingInv, CountAhead
<1>2. PICK k, j, position :
        k = poll[u].kind /\ j = follows[u].job /\ position = LivePosition(k, j)
  OBVIOUS
<1>3. /\ k \in Kind /\ Found(u, k) /\ follows[u] # Nothing
      /\ Answered(u) /\ seen[u].kind = k => seen[u].status = "queued"
  BY <1>1, <1>2, PollerTypes DEF PollerInv, Counting, Asked
<1>4. j \in JobOf(k) /\ Table(k) /\ StatusOf(k)[j] \in Status \ {"absent"}
  BY <1>2, <1>3, FoundAbsent DEF PollingInv, TablesInv, Table, Found
<1>5. /\ position \in Nat /\ position <= j
      /\ Cardinality(Ahead(k, j)) <= position + Cardinality(Process) - 1
  BY <1>2, <1>3, <1>4, Counts DEF PollingInv
<1>6. PICK a : a = [kind |-> k, status |-> "queued", result |-> FALSE, position |-> position]
  OBVIOUS
<1>7. a \in Answer /\ a.kind = k /\ a.status = "queued" /\ a.position = position
  BY <1>3, <1>5, <1>6 DEF Answer, Status
<1>8. poll' = [poll EXCEPT ![u] = Idle] /\ seen' = [seen EXCEPT ![u] = a]
  BY <1>2, <1>6 DEF CountAhead, Reply
<1>9. RequestStep(u, follows[u], Idle, a)
  BY <1>1, <1>8 DEF RequestStep, PollTypes
<1>10. follows'[u] = follows[u] /\ poll'[u] = Idle /\ seen'[u] = a
  <2>1. /\ Idle \in Polling \cup {Idle} /\ a \in Answer \cup {Nothing, NotFound}
        /\ follows[u] \in Followed \cup {Nothing}
    BY <1>1, <1>7 DEF PollTypes
  <2> QED
    BY <1>1, <1>9, <2>1, RequestSteps
<1>11. LagsBehind(a, StatusOf(k)[j], ResultOf(k)[j], Cardinality(Ahead(k, j)))
  <2>1. 1 <= Rank(StatusOf(k)[j])
    BY <1>4, Ranks
  <2> QED
    BY <1>2, <1>5, <1>7, <2>1, Ranks DEF LagsBehind, SettledStatus
<1>12. PollerInv(u)'
  BY <1>1, <1>2, <1>3, <1>5, <1>7, <1>10, <1>11, NewAnswer
<1> QED
  BY <1>7, <1>9, <1>12

LEMMA NextLookup ==
  ASSUME PollingInv, NEW u \in Poller, LookupNext(u),
         TablesInv', \A k \in Kind : TableForward(k)
  PROVE  /\ \E p \in Polling : RequestStep(u, follows[u], p, seen[u])
         /\ PollerInv(u)'
<1>1. PICK p : p = [pc |-> "stt"]
  OBVIOUS
<1>2. p \in Polling /\ p.pc = "stt"
  BY <1>1 DEF Polling, Kind
<1>3. RequestStep(u, follows[u], p, seen[u])
  BY <1>1 DEF LookupNext, RequestStep, PollingInv, PollTypes
<1>4. follows'[u] = follows[u] /\ poll'[u] = p /\ seen'[u] = seen[u]
  BY <1>2, <1>3, RequestSteps DEF PollingInv, PollTypes
<1>5. Asked(u)'
  <2>1. poll[u] # Idle /\ Asked(u)
    BY PollerTypes DEF LookupNext, Kind, PollingInv, PollerInv
  <2> QED
    BY <1>4, <2>1 DEF Asked, Outcome, Answered
<1>6. Counting(u)'
  BY <1>2, <1>4 DEF Counting
<1>7. Told(u)'
  BY <1>4, OldAnswerStays DEF PollingInv
<1> QED
  BY <1>2, <1>3, <1>5, <1>6, <1>7 DEF PollerInv

LEMMA NoRow ==
  ASSUME PollingInv, NEW u \in Poller, LookupFails(u)
  PROVE  RequestStep(u, follows[u], Idle, NotFound) /\ PollerInv(u)'
<1>1. RequestStep(u, follows[u], Idle, NotFound)
  BY DEF LookupFails, RequestStep, PollingInv, PollTypes
<1>2. follows'[u] = follows[u] /\ poll'[u] = Idle /\ seen'[u] = NotFound
  <2>1. /\ follows[u] \in Followed \cup {Nothing} /\ Idle \in Polling \cup {Idle}
        /\ NotFound \in Answer \cup {Nothing, NotFound}
    BY DEF PollingInv, PollTypes
  <2> QED
    BY <1>1, <2>1, RequestSteps DEF PollingInv
<1>3. follows[u] # Nothing
  BY PollerTypes DEF LookupFails, PollingInv, PollerInv, Asked
<1> QED
  BY <1>1, <1>2, <1>3, Kinds DEF PollerInv, Asked, Counting, Told, Answered, Outcome

-----------------------------------------------------------------------------
LEMMA InitPolling == Init => PollingInv
<1> SUFFICES ASSUME Init PROVE PollingInv
  OBVIOUS
<1>1. /\ DOMAIN owner = Kind
      /\ \A k \in Kind : /\ StatusOf(k) = [j \in JobOf(k) |-> "absent"]
                         /\ ResultOf(k) = [j \in JobOf(k) |-> FALSE]
                         /\ owner[k] = [j \in JobOf(k) |-> NoUser]
  BY DEF Init, Tts!Init, Stt!Init, Tts!Job, Stt!Job, StatusOf, ResultOf, JobOf, Kind
<1>2. ASSUME NEW k \in Kind PROVE Table(k)
  BY <1>1 DEF Table, Status
<1>3. PollTypes
  BY DEF Init, PollTypes
<1>4. ASSUME NEW u \in Poller PROVE PollerInv(u)
  <2>1. follows[u] = Nothing /\ poll[u] = Idle /\ seen[u] = Nothing
    BY DEF Init
  <2> QED
    BY <2>1, Kinds DEF PollerInv, Asked, Counting, Told, Answered
<1>5. IdsInv
  BY <1>1 DEF Init, IdsInv
<1> QED
  BY <1>1, <1>2, <1>3, <1>4, <1>5 DEF PollingInv, TablesInv

(* A step of the tables. *)
LEMMA RequestsStay ==
  ASSUME PollingInv, TablesInv', \A k \in Kind : TableForward(k),
         UNCHANGED <<follows, poll, seen>>
  PROVE  PollingInv'
<1>1. \A u \in Poller : PollerInv(u)'
  BY OthersStay
<1>2. PollTypes'
  BY DEF PollingInv, PollTypes, Followed, Polling, Answer, Job, JobOf
<1> QED
  BY <1>1, <1>2 DEF PollingInv

LEMMA OneRequest ==
  ASSUME PollingInv, TablesInv', \A k \in Kind : TableForward(k), NEW u \in Poller,
         NEW f \in Followed \cup {Nothing}, NEW p \in Polling \cup {Idle},
         NEW a \in Answer \cup {Nothing, NotFound}, RequestStep(u, f, p, a), PollerInv(u)'
  PROVE  PollingInv'
<1>1. /\ PollTypes'
      /\ \A w \in Poller : w # u =>
           follows'[w] = follows[w] /\ poll'[w] = poll[w] /\ seen'[w] = seen[w]
  BY RequestSteps DEF PollingInv
<1>2. \A w \in Poller : PollerInv(w)'
  BY <1>1, OthersStay
<1> QED
  BY <1>1, <1>2 DEF PollingInv

(* What a step is to the requests. *)
LEMMA StepKinds ==
  ASSUME [Next]_vars
  PROVE  \/ UNCHANGED <<follows, poll, seen>>
         \/ \E u \in Poller :
              \/ \E k \in Kind : \E j \in JobOf(k) : Follow(u, k, j)
              \/ SendPoll(u)
              \/ \E k \in Kind : Lookup(u, k)
              \/ LookupNext(u)
              \/ LookupFails(u)
              \/ CountAhead(u)
BY DEF Next, vars, Flush, Commit, Abort, AdvanceTts, AdvanceStt, Serve

LEMMA PollingInvInductive == PollingInv /\ [Next]_vars => PollingInv'
<1> SUFFICES ASSUME PollingInv, [Next]_vars PROVE PollingInv'
  OBVIOUS
<1>1. TablesInv' /\ \A k \in Kind : TableForward(k)
  BY TablesMoveForward DEF PollingInv
<1>2. \A u \in Poller : /\ follows[u] \in Followed \cup {Nothing}
                        /\ poll[u] \in Polling \cup {Idle}
                        /\ seen[u] \in Answer \cup {Nothing, NotFound}
  BY DEF PollingInv, PollTypes
<1>3. CASE UNCHANGED <<follows, poll, seen>>
  BY <1>1, <1>3, RequestsStay
<1>4. ASSUME NEW u \in Poller, NEW k \in Kind, NEW j \in JobOf(k), Follow(u, k, j)
      PROVE  PollingInv'
  <2>1. PICK f \in Followed : RequestStep(u, f, poll[u], Nothing) /\ PollerInv(u)'
    BY <1>4, NewFollow
  <2> QED
    BY <1>1, <1>2, <2>1, OneRequest
<1>5. ASSUME NEW u \in Poller, SendPoll(u) \/ LookupNext(u) PROVE PollingInv'
  <2>1. PICK p \in Polling : RequestStep(u, follows[u], p, seen[u]) /\ PollerInv(u)'
    BY <1>1, <1>5, NewPoll, NextLookup
  <2> QED
    BY <1>1, <1>2, <2>1, OneRequest
<1>6. ASSUME NEW u \in Poller, NEW k \in Kind, Lookup(u, k) PROVE PollingInv'
  <2>1. PICK p \in Polling \cup {Idle}, a \in Answer \cup {Nothing, NotFound} :
          RequestStep(u, follows[u], p, a) /\ PollerInv(u)'
    BY <1>1, <1>6, RowLookup
  <2> QED
    BY <1>1, <1>2, <2>1, OneRequest
<1>7. ASSUME NEW u \in Poller, LookupFails(u) PROVE PollingInv'
  <2>1. RequestStep(u, follows[u], Idle, NotFound) /\ PollerInv(u)'
    BY <1>7, NoRow
  <2> QED
    BY <1>1, <1>2, <2>1, OneRequest
<1>8. ASSUME NEW u \in Poller, CountAhead(u) PROVE PollingInv'
  <2>1. PICK a \in Answer : RequestStep(u, follows[u], Idle, a) /\ PollerInv(u)'
    BY <1>8, PositionAnswer
  <2> QED
    BY <1>1, <1>2, <2>1, OneRequest
<1> QED
  BY <1>3, <1>4, <1>5, <1>6, <1>7, <1>8, StepKinds

(* The bookkeeping of the two tables with the ids given out in them, of    *)
(* the requests, and of the answers to the users' polls holds in every     *)
(* reachable state, with any number of processes, jobs and pollers.        *)
THEOREM PollingInvHolds == Spec => []PollingInv
<1> QED
  BY InitPolling, PollingInvInductive, PTL DEF Spec

-----------------------------------------------------------------------------
(* The variables of both tables and of the pollers keep their types, for   *)
(* any number of jobs, users and pollers; a position never exceeds the     *)
(* job's id (jobs.py:22-34).                                               *)
THEOREM TypeCorrect == Spec => []TypeOK
<1>1. PollingInv => TypeOK
  <2> SUFFICES ASSUME PollingInv PROVE TypeOK
    OBVIOUS
  <2>1. \A k \in Kind : /\ StatusOf(k) \in [JobOf(k) -> Status]
                        /\ ResultOf(k) \in [JobOf(k) -> BOOLEAN]
                        /\ owner[k] \in [JobOf(k) -> User \cup {NoUser}]
    BY DEF PollingInv, TablesInv, Table
  <2>2. \A u \in Poller : Answered(u) => seen[u].position <= follows[u].job
    BY DEF PollingInv, PollerInv, Told
  <2> QED
    BY <2>1, <2>2 DEF TypeOK, PollingInv, PollTypes, TablesInv, IdsInv, Followed, Polling
<1> QED
  BY <1>1, PollingInvHolds, PTL

(* A user is only ever answered about rows they submitted, whichever job   *)
(* they ask for and however the tables move between the queries            *)
(* (jobs.py:49-58, 81-90: filtered by user_id).                            *)
OwnRowsOnly ==
  \A u \in Poller : Answered(u) =>
    /\ owner[seen[u].kind][follows[u].job] = u
    /\ StatusOf(seen[u].kind)[follows[u].job] # "absent"

(* No poll of any user ever comes back with another user's row. *)
THEOREM AnswersAreOfOwnRows == Spec => []OwnRowsOnly
<1>1. PollingInv => OwnRowsOnly
  BY PollerTypes, FoundAbsent DEF PollingInv, PollerInv, Told, Found, OwnRowsOnly
<1> QED
  BY <1>1, PollingInvHolds, PTL

(* The two steps that give an answer. *)
LEMMA AnswerGiven ==
  ASSUME PollingInv, [Next]_vars, NEW u \in Poller, Answered(u)', seen'[u] # seen[u],
         follows'[u] = follows[u]
  PROVE  \E k \in Kind :
           /\ seen'[u].kind = k /\ Found(u, k) /\ poll[u] # Idle
           /\ \/ /\ StatusOf(k)[follows[u].job] # "queued"
                 /\ seen'[u].status = StatusOf(k)[follows[u].job]
              \/ /\ poll[u].pc = "counting" /\ poll[u].kind = k
                 /\ seen'[u].status = "queued"
                 /\ seen'[u].position = LivePosition(k, follows[u].job)
<1>1. PollTypes /\ u \in DOMAIN seen /\ PollerInv(u)
  BY DEF PollingInv, PollTypes
<1>2. \A w \in Poller : \A a : w # u /\ seen' = [seen EXCEPT ![w] = a] => seen'[u] = seen[u]
  BY <1>1
<1>3. \A a : seen' = [seen EXCEPT ![u] = a] => seen'[u] = a
  BY <1>1
<1>4. CASE UNCHANGED <<follows, poll, seen>>
  BY <1>4
<1>5. ASSUME NEW w \in Poller, NEW k \in Kind, NEW j \in JobOf(k), Follow(w, k, j) PROVE FALSE
  BY <1>2, <1>3, <1>5 DEF Follow, Answered
<1>6. ASSUME NEW w \in Poller, SendPoll(w) \/ LookupNext(w) PROVE FALSE
  BY <1>6 DEF SendPoll, LookupNext
<1>7. ASSUME NEW w \in Poller, LookupFails(w) PROVE FALSE
  BY <1>2, <1>3, <1>7 DEF LookupFails, Answered
<1>8. ASSUME NEW w \in Poller, NEW k \in Kind, Lookup(w, k)
      PROVE  /\ w = u /\ seen'[u].kind = k /\ Found(u, k) /\ poll[u] # Idle
             /\ StatusOf(k)[follows[u].job] # "queued"
             /\ seen'[u].status = StatusOf(k)[follows[u].job]
  <2>1. StatusOf(k)[follows[w].job] # "queued"
    BY <1>8 DEF Lookup
  <2>2. PICK a : a = [kind |-> k, status |-> StatusOf(k)[follows[w].job],
                      result |-> ResultOf(k)[follows[w].job], position |-> 0]
    OBVIOUS
  <2>3. seen' = [seen EXCEPT ![w] = a] /\ poll[w].pc = k /\ Found(w, k)
    BY <1>8, <2>1, <2>2 DEF Lookup, Reply
  <2>4. w = u
    BY <1>2, <2>3
  <2>5. a.kind = k /\ a.status = StatusOf(k)[follows[w].job]
    BY <2>2
  <2> QED
    BY <1>1, <1>3, <2>1, <2>3, <2>4, <2>5, PollerTypes
<1>9. ASSUME NEW w \in Poller, CountAhead(w)
      PROVE  /\ w = u /\ poll[u].kind \in Kind /\ seen'[u].kind = poll[u].kind
             /\ Found(u, poll[u].kind) /\ poll[u] # Idle
             /\ poll[u].pc = "counting" /\ seen'[u].status = "queued"
             /\ seen'[u].position = LivePosition(poll[u].kind, follows[u].job)
  <2>1. PICK a : a = [kind |-> poll[w].kind, status |-> "queued", result |-> FALSE,
                      position |-> LivePosition(poll[w].kind, follows[w].job)]
    OBVIOUS
  <2>2. seen' = [seen EXCEPT ![w] = a] /\ poll[w].pc = "counting"
    BY <1>9, <2>1 DEF CountAhead, Reply
  <2>3. w = u
    BY <1>2, <2>2
  <2>4. /\ a.kind = poll[w].kind /\ a.status = "queued"
        /\ a.position = LivePosition(poll[w].kind, follows[w].job)
    BY <2>1
  <2>5. Found(u, poll[u].kind)
    BY <1>1, <2>2, <2>3 DEF PollerInv, Counting
  <2> QED
    BY <1>1, <1>3, <2>2, <2>3, <2>4, <2>5, PollerTypes
<1>10. \/ UNCHANGED <<follows, poll, seen>>
       \/ \E w \in Poller :
            \/ \E k \in Kind : \E j \in JobOf(k) : Follow(w, k, j)
            \/ SendPoll(w)
            \/ \E k \in Kind : Lookup(w, k)
            \/ LookupNext(w)
            \/ LookupFails(w)
            \/ CountAhead(w)
  BY StepKinds
<1>11. CASE \E w \in Poller : \E k \in Kind : Lookup(w, k)
  BY <1>8, <1>11
<1>12. CASE \E w \in Poller : CountAhead(w)
  BY <1>9, <1>12
<1> QED
  BY <1>4, <1>5, <1>6, <1>7, <1>10, <1>11, <1>12

(* What a client sees of a job moves forward (tts.py and stt.py write the  *)
(* rows, jobs.py:46-100 reads them in two queries), for any number of jobs *)
(* submitted, claimed and settled between the polls and between the        *)
(* queries of one poll; the position rises by no more than the rows that   *)
(* the other processes of the gateway had flushed and not yet committed.   *)
THEOREM AnswersMoveForward == Spec => AnswersNeverGoBack
<1>1. ASSUME PollingInv, [Next]_vars, NEW u \in Poller, Answered(u), Answered(u)',
             seen'[u].kind = seen[u].kind, follows'[u] = follows[u]
      PROVE  /\ Rank(seen[u].status) <= Rank(seen'[u].status)
             /\ Outcome(u) => seen'[u] = seen[u]
             /\ seen'[u].status = "queued" =>
                  seen'[u].position <= seen[u].position + Cardinality(Process) - 1
  <2>1. PICK a, k, j : a = seen[u] /\ k = a.kind /\ j = follows[u].job
    OBVIOUS
  <2>2. /\ a \in Answer /\ a.status \in Status \ {"absent"} /\ a.position \in Nat
        /\ Asked(u) /\ Counting(u)
        /\ LagsBehind(a, StatusOf(k)[j], ResultOf(k)[j], Cardinality(Ahead(k, j)))
        /\ k \in Kind /\ Found(u, k) /\ TablesInv
    BY <1>1, <2>1, PollerTypes, Kinds DEF PollingInv, PollerInv, Told
  <2>0. /\ LivePosition(k, j) \in Nat /\ Cardinality(Ahead(k, j)) \in Nat
        /\ LivePosition(k, j) <= Cardinality(Ahead(k, j))
        /\ Cardinality(Process) \in Nat /\ 0 <= Cardinality(Process) - 1
    <3>1. j \in JobOf(k) /\ StatusOf(k)[j] # "absent"
      BY <2>1, <2>2, FoundAbsent DEF Found
    <3> QED
      BY <2>2, <3>1, Counts, UnseenAreFew
  <2>3. CASE seen'[u] = seen[u]
    <3>1. /\ Rank(a.status) <= Rank(a.status)
          /\ a.position <= a.position + Cardinality(Process) - 1
      BY <2>0, <2>2, Ranks
    <3> QED
      BY <2>1, <2>3, <3>1
  <2>4. CASE seen'[u] # seen[u]
    <3>1. /\ Found(u, k) /\ poll[u] # Idle
          /\ \/ /\ StatusOf(k)[j] # "queued" /\ seen'[u].status = StatusOf(k)[j]
             \/ /\ poll[u].pc = "counting" /\ poll[u].kind = k
                /\ seen'[u].status = "queued"
                /\ seen'[u].position = LivePosition(k, j)
      BY <1>1, <2>1, <2>4, AnswerGiven
    <3>2. ~ Outcome(u)
      BY <2>2, <3>1 DEF Asked
    <3>3. CASE StatusOf(k)[j] # "queued" /\ seen'[u].status = StatusOf(k)[j]
      BY <2>1, <2>2, <3>2, <3>3 DEF LagsBehind
    <3>4. CASE /\ poll[u].pc = "counting" /\ poll[u].kind = k
               /\ seen'[u].status = "queued" /\ seen'[u].position = LivePosition(k, j)
      <4>1. a.status = "queued"
        BY <1>1, <2>1, <2>2, <3>4 DEF Counting
      <4> QED
        BY <2>0, <2>1, <2>2, <3>2, <3>4, <4>1, Ranks DEF LagsBehind
    <3> QED
      BY <3>1, <3>3, <3>4
  <2> QED
    BY <2>3, <2>4
<1>2. PollingInv /\ [Next]_vars =>
        [\A u \in Poller :
           Answered(u) /\ Answered(u)' /\ seen'[u].kind = seen[u].kind
                       /\ follows'[u] = follows[u] =>
             /\ Rank(seen[u].status) <= Rank(seen'[u].status)
             /\ Outcome(u) => seen'[u] = seen[u]
             /\ seen'[u].status = "queued" =>
                  seen'[u].position <= seen[u].position + Cardinality(Process) - 1]_vars
  BY <1>1
<1> QED
  BY <1>2, PollingInvHolds, PTL DEF Spec, AnswersNeverGoBack

-----------------------------------------------------------------------------
(* The table a request with ?type reads, and is answered from. *)
Typed(u) ==
  /\ poll[u].pc \in Kind => poll[u].pc = follows[u].kind
  /\ poll[u].pc = "counting" => poll[u].kind = follows[u].kind
  /\ Answered(u) => seen[u].kind = follows[u].kind

LEMMA TypedStep ==
  ASSUME Types = {"given"}, PollingInv, [Next]_vars, NEW u \in Poller, Typed(u)
  PROVE  Typed(u)'
<1>1. PollTypes /\ PollerInv(u)
  BY DEF PollingInv
<1>2. \A w \in Poller : \A f, p, a : RequestStep(w, f, p, a) =>
        IF w = u THEN follows'[u] = f /\ poll'[u] = p /\ seen'[u] = a
        ELSE follows'[u] = follows[u] /\ poll'[u] = poll[u] /\ seen'[u] = seen[u]
  BY <1>1 DEF RequestStep, PollTypes
<1>3. CASE follows'[u] = follows[u] /\ poll'[u] = poll[u] /\ seen'[u] = seen[u]
  BY <1>3 DEF Typed, Answered
<1>4. ASSUME NEW w \in Poller, NEW f, NEW p, NEW a, RequestStep(w, f, p, a), w # u
      PROVE  Typed(u)'
  BY <1>2, <1>3, <1>4
<1>5. CASE UNCHANGED <<follows, poll, seen>>
  BY <1>3, <1>5
<1>6. ASSUME NEW w \in Poller, NEW k \in Kind, NEW j \in JobOf(k), Follow(w, k, j)
      PROVE  Typed(u)'
  <2>1. PICK f \in Followed : RequestStep(w, f, poll[w], Nothing) /\ poll[w] = Idle
    BY <1>6, NewFollow DEF Follow
  <2>2. CASE w = u
    <3>1. poll'[u] = Idle /\ seen'[u] = Nothing
      BY <1>2, <2>1, <2>2
    <3> QED
      BY <3>1, Kinds DEF Typed, Answered
  <2> QED
    BY <1>4, <2>1, <2>2
<1>7. ASSUME NEW w \in Poller, SendPoll(w) PROVE Typed(u)'
  <2>1. PICK p : p = [pc |-> FirstLookup(follows[w])]
    OBVIOUS
  <2>2. RequestStep(w, follows[w], p, seen[w])
    BY <1>1, <1>7, <2>1 DEF SendPoll, RequestStep, PollTypes
  <2>3. CASE w = u
    <3>1. follows'[u] = follows[u] /\ poll'[u] = p /\ seen'[u] = seen[u]
      BY <1>2, <2>2, <2>3
    <3>2. follows[u].type = "given" /\ follows[u].kind \in Kind
      BY <1>1, <1>7, <2>3, PollerTypes, Kinds DEF SendPoll
    <3>3. p.pc = follows[u].kind
      BY <2>1, <2>3, <3>2 DEF FirstLookup
    <3> QED
      BY <3>1, <3>2, <3>3, Kinds DEF Typed, Answered
  <2> QED
    BY <1>4, <2>2, <2>3
<1>8. ASSUME NEW w \in Poller, NEW k \in Kind, Lookup(w, k) PROVE Typed(u)'
  <2>1. PICK p, a : /\ RequestStep(w, follows[w], p, a)
                    /\ \/ p = [pc |-> "counting", kind |-> k] /\ a = seen[w]
                       \/ p = Idle /\ a.kind = k
    <3>1. PICK p, a :
            /\ p = [pc |-> "counting", kind |-> k]
            /\ a = [kind |-> k, status |-> StatusOf(k)[follows[w].job],
                    result |-> ResultOf(k)[follows[w].job], position |-> 0]
      OBVIOUS
    <3>2. a.kind = k
      BY <3>1
    <3>3. \/ RequestStep(w, follows[w], p, seen[w])
          \/ RequestStep(w, follows[w], Idle, a)
      BY <1>1, <1>8, <3>1 DEF Lookup, Reply, RequestStep, PollTypes
    <3> QED
      BY <3>1, <3>2, <3>3
  <2>2. CASE w = u
    <3>1. follows'[u] = follows[u] /\ poll'[u] = p /\ seen'[u] = a
      BY <1>2, <2>1, <2>2
    <3>2. k = follows[u].kind
      BY <1>8, <2>2 DEF Lookup, Typed
    <3>3. CASE p = [pc |-> "counting", kind |-> k] /\ a = seen[w]
      <4>1. p.pc = "counting" /\ p.kind = k
        BY <3>3
      <4> QED
        BY <2>2, <3>1, <3>2, <3>3, <4>1, Kinds DEF Typed, Answered
    <3>4. CASE p = Idle /\ a.kind = k
      BY <3>1, <3>2, <3>4, Kinds DEF Typed
    <3> QED
      BY <2>1, <3>3, <3>4
  <2> QED
    BY <1>4, <2>1, <2>2
<1>9. ASSUME NEW w \in Poller, LookupNext(w) PROVE Typed(u)'
  <2>1. PICK p : p = [pc |-> "stt"]
    OBVIOUS
  <2>2. RequestStep(w, follows[w], p, seen[w])
    BY <1>1, <1>9, <2>1 DEF LookupNext, RequestStep, PollTypes
  <2>3. w # u
    <3>1. poll[w] # Idle
      BY <1>1, <1>9, PollerTypes DEF LookupNext, Kind
    <3>2. ASSUME w = u PROVE FALSE
      <4>1. follows[u] \in Followed
        BY <1>1, <3>1, <3>2, PollerTypes DEF PollerInv, Asked
      <4>2. follows[u].type = "given"
        BY <4>1, Kinds
      <4> QED
        BY <1>9, <3>2, <4>2 DEF LookupNext
    <3> QED
      BY <3>2
  <2> QED
    BY <1>4, <2>2, <2>3
<1>10. ASSUME NEW w \in Poller, LookupFails(w) PROVE Typed(u)'
  <2>1. RequestStep(w, follows[w], Idle, NotFound)
    BY <1>10, NoRow
  <2>2. CASE w = u
    <3>1. poll'[u] = Idle /\ seen'[u] = NotFound
      BY <1>2, <2>1, <2>2
    <3> QED
      BY <3>1, Kinds DEF Typed, Answered
  <2> QED
    BY <1>4, <2>1, <2>2
<1>11. ASSUME NEW w \in Poller, CountAhead(w) PROVE Typed(u)'
  <2>1. PICK a : a = [kind |-> poll[w].kind, status |-> "queued", result |-> FALSE,
                      position |-> LivePosition(poll[w].kind, follows[w].job)]
    OBVIOUS
  <2>2. RequestStep(w, follows[w], Idle, a)
    BY <1>1, <1>11, <2>1 DEF CountAhead, Reply, RequestStep, PollTypes
  <2>3. CASE w = u
    <3>1. follows'[u] = follows[u] /\ poll'[u] = Idle /\ seen'[u] = a
      BY <1>2, <2>2, <2>3
    <3>2. a.kind = poll[u].kind /\ poll[u].kind = follows[u].kind
      BY <1>11, <2>1, <2>3 DEF CountAhead, Typed
    <3> QED
      BY <3>1, <3>2, Kinds DEF Typed
  <2> QED
    BY <1>4, <2>2, <2>3
<1> QED
  BY <1>5, <1>6, <1>7, <1>8, <1>9, <1>10, <1>11, StepKinds

(* tts.py:178 and stt.py:117 promise that polling GET /jobs/{id} answers   *)
(* for the job submitted.  The run job_polling_shared_ids shows that the   *)
(* ids of the two tables break this for a poll without ?type; a client     *)
(* that always sends ?type is never answered about the other table's job.  *)
THEOREM PollsWithTypeAreRight ==
  ASSUME Types = {"given"}
  PROVE  Spec => []PollAnswersForTheSubmission
<1> DEFINE AllTyped == \A u \in Poller : Typed(u)
<1>1. Init => AllTyped
  BY Kinds DEF Init, Typed, Answered
<1>2. PollingInv /\ AllTyped /\ [Next]_vars => AllTyped'
  BY TypedStep
<1>3. AllTyped => PollAnswersForTheSubmission
  BY DEF Typed, PollAnswersForTheSubmission
<1> HIDE DEF AllTyped
<1> QED
  BY <1>1, <1>2, <1>3, PollingInvHolds, PTL DEF Spec

==============================================================================
