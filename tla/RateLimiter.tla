---------------------------- MODULE RateLimiter ----------------------------
(***************************************************************************)
(* check_rate_limit of app/services/rate_limiter.py: the quota of the      *)
(* tts and stt endpoints, kept in the rate_limits table.                   *)
(*                                                                         *)
(* A gateway process runs one check at a time: the function is synchronous *)
(* and is called from handlers on the event loop.  The check is a SELECT   *)
(* of both window rows, a decision on the counts it returned, and one      *)
(* COMMIT that writes count + 1 as an absolute value or inserts the        *)
(* missing row.  Only the checks of OTHER processes can come in between.   *)
(***************************************************************************)
EXTENDS Windows, Sequences

CONSTANTS
  Worker,         \* gateway processes on one database
  MaxAdmitted     \* bound: a caller starts no further check in a minute
                  \* in which it was admitted that often

ASSUME AdmittedAssumption == MaxAdmitted \in Nat

VARIABLES
  rows,      \* the rate_limits table in primary-key order
  check,     \* per process, the check it is in the middle of
  admitted   \* history: requests let through, per caller and window

vars == <<now, rows, check, admitted>>

Row == [caller : Caller, window : Window, count : Nat]

(* What next(...) finds among the selected records: a row's id and count,  *)
(* or None, which carries id 0.                                            *)
None == [id |-> 0, count |-> 0]
Found == [id : Nat, count : Nat]

Idle == [pc |-> "idle"]
Selected ==
  [pc : {"selected"}, caller : Caller, minute : Minute, rpm : Found, rpd : Found]

RowsOf(c, win) == {i \in DOMAIN rows : rows[i].caller = c /\ rows[i].window = win}

(* No ORDER BY and no unique constraint: any matching row may come first. *)
Find(c, win) ==
  IF RowsOf(c, win) = {} THEN {None}
  ELSE {[id |-> i, count |-> rows[i].count] : i \in RowsOf(c, win)}

Init ==
  /\ now = 0
  /\ rows = << >>
  /\ check = [w \in Worker |-> Idle]
  /\ admitted = [k \in Caller \X Window |-> 0]

(* The clock is read, then both records are fetched in one query. *)
Select(w, c) ==
  /\ check[w] = Idle
  /\ admitted[<<c, MinuteWindow(now)>>] < MaxAdmitted
  /\ \E rpm \in Find(c, MinuteWindow(now)), rpd \in Find(c, DayWindow(now)) :
       check' = [check EXCEPT ![w] = [pc |-> "selected", caller |-> c,
                                      minute |-> now, rpm |-> rpm, rpd |-> rpd]]
  /\ UNCHANGED <<now, rows, admitted>>

(* mutants: the limit compared before, or after, counting this request *)
HasRoomLateByOne(found, limit) == found.id = 0 \/ found.count <= limit
HasRoomEarlyByOne(found, limit) == found.id = 0 \/ found.count + 1 < limit

(* Only a record that exists is compared with its limit. *)
HasRoom(found, limit) == found.id = 0 \/ found.count < limit
WithinLimits(k) == HasRoom(k.rpm, RpmLimit) /\ HasRoom(k.rpd, RpdLimit)

(* mutant: the charge taken from the count instead of added *)
WriteOverOldCount(table, found, c, win) ==
  IF found.id = 0
  THEN Append(table, [caller |-> c, window |-> win, count |-> 1])
  ELSE [table EXCEPT ![found.id].count = found.count - 1]

(* UPDATE ... SET count = n + 1 of the row that was read, or INSERT. *)
Write(table, found, c, win) ==
  IF found.id = 0
  THEN Append(table, [caller |-> c, window |-> win, count |-> 1])
  ELSE [table EXCEPT ![found.id].count = found.count + 1]

(* Both records pass their check and one commit writes both. *)
Commit(w) ==
  LET k == check[w]
      minuteKey == <<k.caller, MinuteWindow(k.minute)>>
      dayKey == <<k.caller, DayWindow(k.minute)>>
  IN /\ k # Idle
     /\ WithinLimits(k)
     /\ rows' = Write(Write(rows, k.rpm, k.caller, minuteKey[2]),
                      k.rpd, k.caller, dayKey[2])
     /\ admitted' = [admitted EXCEPT ![minuteKey] = @ + 1, ![dayKey] = @ + 1]
     /\ check' = [check EXCEPT ![w] = Idle]
     /\ UNCHANGED now

(* mutant: the minute's charge committed before the day is checked *)
RejectKeepingMinuteCharge(w) ==
  LET k == check[w]
  IN /\ k # Idle
     /\ ~ WithinLimits(k)
     /\ rows' = IF HasRoom(k.rpm, RpmLimit)
                THEN Write(rows, k.rpm, k.caller, MinuteWindow(k.minute)) ELSE rows
     /\ check' = [check EXCEPT ![w] = Idle]
     /\ UNCHANGED <<now, admitted>>

(* HTTP 429.  What the minute check staged before the day check raised is  *)
(* discarded when get_db closes the session.                               *)
Reject(w) ==
  /\ check[w] # Idle
  /\ ~ WithinLimits(check[w])
  /\ check' = [check EXCEPT ![w] = Idle]
  /\ UNCHANGED <<now, rows, admitted>>

(* The process is restarted or its database call fails: nothing committed. *)
Abort(w) ==
  /\ check[w] # Idle
  /\ check' = [check EXCEPT ![w] = Idle]
  /\ UNCHANGED <<now, rows, admitted>>

Tick ==
  /\ now < MaxMinute
  /\ now' = now + 1
  /\ UNCHANGED <<rows, check, admitted>>

Next ==
  \/ Tick
  \/ \E w \in Worker :
       \/ \E c \in Caller : Select(w, c)
       \/ Commit(w)
       \/ Reject(w)
       \/ Abort(w)

Spec == Init /\ [][Next]_vars

-----------------------------------------------------------------------------
(* Every variable has its type; the table holds only counts. *)
TypeOK ==
  /\ now \in Minute
  /\ rows \in Seq(Row)
  /\ check \in [Worker -> {Idle} \cup Selected]
  /\ admitted \in [Caller \X Window -> Nat]

(* The quota itself (rate_limiter.py:116-141): in no minute and on no day  *)
(* are more requests of a caller let through than the limit says.          *)
WithinQuota ==
  \A c \in Caller, win \in Window : admitted[<<c, win>>] <= LimitOf(win)

(* A 429 (rate_limiter.py:117-121, 136-140) is only sent to a caller who   *)
(* did use up the minute or the day of its request, however the writes of  *)
(* several processes overwrite each other.                                 *)
NeverRejectsEarly ==
  [][\A w \in Worker : Reject(w) =>
       \E win \in {MinuteWindow(check[w].minute), DayWindow(check[w].minute)} :
          admitted[<<check[w].caller, win>>] >= LimitOf(win)]_vars

(* The count the table holds for a window: 0 before its row is inserted. *)
Stored(c, win) ==
  IF RowsOf(c, win) = {} THEN 0 ELSE rows[CHOOSE i \in RowsOf(c, win) : TRUE].count

(* The table is the abstract quota: FixedWindow!Spec under this mapping.   *)
FW == INSTANCE FixedWindow
        WITH used <- [k \in Caller \X Window |-> Stored(k[1], k[2])]

ImplementsFixedWindow == FW!Spec
=============================================================================
