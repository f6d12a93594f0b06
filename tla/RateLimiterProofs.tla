------------------------- MODULE RateLimiterProofs -------------------------
(***************************************************************************)
(* Theorems about RateLimiter, for any callers, limits and clock.          *)
(*                                                                         *)
(* For any number of processes: the table never holds more than was        *)
(* admitted, so a 429 is always deserved (NeverRejectsEarly).  For one     *)
(* process: the table holds exactly what was admitted, so the quota holds  *)
(* (WithinQuota).                                                          *)
(***************************************************************************)
EXTENDS RateLimiter, MemoryLimiter, FiniteSetTheorems, TLAPS

(* The record a check found is None or a row of the window it asked for.   *)
Refers(found, c, win) ==
  /\ found.id \in 0 .. Len(rows)
  /\ found.id # 0 =>
       /\ rows[found.id].caller = c
       /\ rows[found.id].window = win

(* A check in progress began in a minute that has come, refers to its own   *)
(* windows' rows, and read no count above what was admitted there.          *)
Counted(w) ==
  LET k == check[w]
  IN k # Idle =>
       /\ k.minute <= now
       /\ Refers(k.rpm, k.caller, MinuteWindow(k.minute))
       /\ Refers(k.rpd, k.caller, DayWindow(k.minute))
       /\ k.rpm.count <= admitted[<<k.caller, MinuteWindow(k.minute)>>]
       /\ k.rpd.count <= admitted[<<k.caller, DayWindow(k.minute)>>]

AtMostAdmitted ==
  /\ \A i \in DOMAIN rows :
       rows[i].count <= admitted[<<rows[i].caller, rows[i].window>>]
  /\ \A w \in Worker : Counted(w)

-----------------------------------------------------------------------------
(* Integer division keeps the day within the range of minutes. *)
LEMMA DayInRange == \A m \in Minute : DayOf(m) \in Minute
<1> SUFFICES ASSUME NEW m \in Minute PROVE DayOf(m) \in Minute
  OBVIOUS
<1>1. m \div MinutesPerDay \in 0 .. m
  BY ClockAssumption DEF Minute
<1> QED
  BY <1>1, ClockAssumption DEF Minute, DayOf

LEMMA WindowsTyped ==
  \A m \in Minute : MinuteWindow(m) \in Window /\ DayWindow(m) \in Window
BY DayInRange DEF MinuteWindow, DayWindow, Window

(* Reading the table yields None or an existing row of that window. *)
LEMMA FindReads ==
  ASSUME TypeOK, NEW c \in Caller, NEW win \in Window, NEW found \in Find(c, win)
  PROVE  /\ found \in Found
         /\ Refers(found, c, win)
         /\ \/ found = None
            \/ found.id \in DOMAIN rows /\ found.count = rows[found.id].count
<1>1. CASE RowsOf(c, win) = {}
  BY <1>1 DEF Find, Found, None, Refers, TypeOK
<1>2. CASE RowsOf(c, win) # {}
  <2>1. PICK i \in RowsOf(c, win) : found = [id |-> i, count |-> rows[i].count]
    BY <1>2 DEF Find
  <2>2. i \in 1 .. Len(rows) /\ rows[i] \in Row
    BY <2>1 DEF RowsOf, TypeOK
  <2> QED
    BY <2>1, <2>2 DEF Found, Refers, RowsOf, Row
<1> QED
  BY <1>1, <1>2

(* One write either appends the window's row or updates the row it read,   *)
(* and leaves every other row alone.                                       *)
LEMMA WriteTouchesOneRow ==
  ASSUME NEW table \in Seq(Row), NEW c \in Caller, NEW win \in Window,
         NEW found \in Found, found.id \in 0 .. Len(table),
         found.id # 0 => table[found.id].caller = c /\ table[found.id].window = win,
         NEW new, new = Write(table, found, c, win)
  PROVE  /\ new \in Seq(Row)
         /\ Len(new) = IF found.id = 0 THEN Len(table) + 1 ELSE Len(table)
         /\ \A i \in 1 .. Len(table) :
              /\ new[i].caller = table[i].caller
              /\ new[i].window = table[i].window
              /\ i # found.id => new[i] = table[i]
         /\ LET at == IF found.id = 0 THEN Len(table) + 1 ELSE found.id
            IN new[at] = [caller |-> c, window |-> win,
                          count |-> IF found.id = 0 THEN 1 ELSE found.count + 1]
<1>1. CASE found.id = 0
  <2>1. [caller |-> c, window |-> win, count |-> 1] \in Row
    BY DEF Row
  <2>2. new = Append(table, [caller |-> c, window |-> win, count |-> 1])
    BY <1>1 DEF Write
  <2> QED
    BY <1>1, <2>1, <2>2
<1>2. CASE found.id # 0
  <2>1. found.id \in 1 .. Len(table) /\ found.count + 1 \in Nat
    BY <1>2 DEF Found
  <2>2. new = [table EXCEPT ![found.id].count = found.count + 1]
    BY <1>2 DEF Write
  <2>3. table[found.id] \in Row
    BY <2>1
  <2>4. new[found.id] = [caller |-> c, window |-> win, count |-> found.count + 1]
    BY <2>1, <2>2, <2>3, <1>2 DEF Row
  <2>5. new[found.id] \in Row
    BY <2>1, <2>4 DEF Row
  <2>6. \A i \in 1 .. Len(table) : i # found.id => new[i] = table[i]
    BY <2>2
  <2>7. new \in Seq(Row) /\ Len(new) = Len(table)
    BY <2>1, <2>2, <2>5, <2>6
  <2> QED
    BY <1>2, <2>1, <2>4, <2>6, <2>7
<1> QED
  BY <1>1, <1>2

(* A commit's two writes hit two different rows: the minute's and the day's *)
(* windows are never the same one.  Every row of the new table is an old    *)
(* row unchanged or one of the two that carry the request's charge.         *)
LEMMA CommitWritesTwoRows ==
  ASSUME TypeOK, NEW w \in Worker, Commit(w), Counted(w),
         NEW k, k = check[w],
         NEW mw, mw = MinuteWindow(k.minute), NEW dw, dw = DayWindow(k.minute)
  PROVE  /\ k \in Selected /\ k.caller \in Caller /\ k.minute \in Minute
         /\ mw \in Window /\ dw \in Window /\ mw # dw
         /\ rows' \in Seq(Row)
         /\ Len(rows') >= Len(rows)
         /\ \A i \in DOMAIN rows :
              rows'[i].caller = rows[i].caller /\ rows'[i].window = rows[i].window
         /\ \E a, b \in DOMAIN rows' :
              /\ a = IF k.rpm.id = 0 THEN Len(rows) + 1 ELSE k.rpm.id
              /\ k.rpd.id # 0 => b = k.rpd.id
              /\ k.rpd.id = 0 => b \notin DOMAIN rows
              /\ rows'[a] = [caller |-> k.caller, window |-> mw,
                             count |-> IF k.rpm.id = 0 THEN 1 ELSE k.rpm.count + 1]
              /\ rows'[b] = [caller |-> k.caller, window |-> dw,
                             count |-> IF k.rpd.id = 0 THEN 1 ELSE k.rpd.count + 1]
              /\ \A i \in DOMAIN rows' \ {a, b} :
                   i \in DOMAIN rows /\ rows'[i] = rows[i]
<1>1. k \in Selected /\ k # Idle
  BY DEF TypeOK, Commit
<1>2. /\ k.caller \in Caller /\ k.minute \in Minute
      /\ k.rpm \in Found /\ k.rpd \in Found
  BY <1>1 DEF Selected
<1>3. mw \in Window /\ dw \in Window /\ mw # dw
  BY <1>2, WindowsTyped DEF MinuteWindow, DayWindow
<1>4. Refers(k.rpm, k.caller, mw) /\ Refers(k.rpd, k.caller, dw)
  BY <1>1 DEF Counted
<1> DEFINE mid == Write(rows, k.rpm, k.caller, mw)
           a == IF k.rpm.id = 0 THEN Len(rows) + 1 ELSE k.rpm.id
           b == IF k.rpd.id = 0 THEN Len(mid) + 1 ELSE k.rpd.id
<1>5. rows \in Seq(Row)
  BY DEF TypeOK
<1>6. /\ mid \in Seq(Row)
      /\ Len(mid) = IF k.rpm.id = 0 THEN Len(rows) + 1 ELSE Len(rows)
      /\ \A i \in 1 .. Len(rows) :
           /\ mid[i].caller = rows[i].caller
           /\ mid[i].window = rows[i].window
           /\ i # k.rpm.id => mid[i] = rows[i]
      /\ mid[a] = [caller |-> k.caller, window |-> mw,
                   count |-> IF k.rpm.id = 0 THEN 1 ELSE k.rpm.count + 1]
  <2> HIDE DEF mid
  <2>1. k.rpm.id \in 0 .. Len(rows)
        /\ (k.rpm.id # 0 => rows[k.rpm.id].caller = k.caller /\ rows[k.rpm.id].window = mw)
    BY <1>4 DEF Refers
  <2>2. mid = Write(rows, k.rpm, k.caller, mw)
    BY DEF mid
  <2> QED
    BY <1>2, <1>3, <1>5, <2>1, <2>2, WriteTouchesOneRow
<1>7. rows' = Write(mid, k.rpd, k.caller, dw)
  BY DEF Commit
<1> HIDE DEF mid
<1>8. /\ k.rpd.id \in 0 .. Len(mid)
      /\ k.rpd.id # 0 => mid[k.rpd.id].caller = k.caller /\ mid[k.rpd.id].window = dw
  BY <1>2, <1>4, <1>5, <1>6 DEF Refers, Found
<1>9. /\ rows' \in Seq(Row)
      /\ Len(rows') = IF k.rpd.id = 0 THEN Len(mid) + 1 ELSE Len(mid)
      /\ \A i \in 1 .. Len(mid) :
           /\ rows'[i].caller = mid[i].caller
           /\ rows'[i].window = mid[i].window
           /\ i # k.rpd.id => rows'[i] = mid[i]
      /\ rows'[b] = [caller |-> k.caller, window |-> dw,
                     count |-> IF k.rpd.id = 0 THEN 1 ELSE k.rpd.count + 1]
  <2>1. mid \in Seq(Row)
    BY <1>6
  <2> HIDE DEF b
  <2>2. /\ rows' \in Seq(Row)
        /\ Len(rows') = IF k.rpd.id = 0 THEN Len(mid) + 1 ELSE Len(mid)
        /\ \A i \in 1 .. Len(mid) :
             /\ rows'[i].caller = mid[i].caller
             /\ rows'[i].window = mid[i].window
             /\ i # k.rpd.id => rows'[i] = mid[i]
        /\ rows'[IF k.rpd.id = 0 THEN Len(mid) + 1 ELSE k.rpd.id]
             = [caller |-> k.caller, window |-> dw,
                count |-> IF k.rpd.id = 0 THEN 1 ELSE k.rpd.count + 1]
    <3>1. PICK found, new, c, win : found = k.rpd /\ new = rows' /\ c = k.caller /\ win = dw
      OBVIOUS
    <3>2. found \in Found /\ c \in Caller /\ win \in Window
      BY <1>2, <1>3, <3>1
    <3>3. /\ found.id \in 0 .. Len(mid) /\ new = Write(mid, found, c, win)
          /\ found.id # 0 => mid[found.id].caller = c /\ mid[found.id].window = win
      BY <1>7, <1>8, <3>1
    <3>4. /\ new \in Seq(Row)
          /\ Len(new) = IF found.id = 0 THEN Len(mid) + 1 ELSE Len(mid)
          /\ \A i \in 1 .. Len(mid) :
               /\ new[i].caller = mid[i].caller
               /\ new[i].window = mid[i].window
               /\ i # found.id => new[i] = mid[i]
          /\ new[IF found.id = 0 THEN Len(mid) + 1 ELSE found.id]
               = [caller |-> c, window |-> win,
                  count |-> IF found.id = 0 THEN 1 ELSE found.count + 1]
      BY <2>1, <3>2, <3>3, WriteTouchesOneRow
    <3> QED
      BY <3>1, <3>4
  <2> QED
    BY <2>2 DEF b
<1>10. a \in 1 .. Len(mid) /\ b \in 1 .. Len(rows') /\ Len(rows) \in Nat /\ Len(mid) \in Nat
  BY <1>2, <1>4, <1>5, <1>6, <1>8, <1>9 DEF Refers, Found
<1>11. a # b
  BY <1>3, <1>6, <1>8, <1>10
<1>12. rows'[a] = mid[a]
  BY <1>2, <1>9, <1>10, <1>11
<1>13. \A i \in 1 .. Len(rows') : i # a /\ i # b => i \in 1 .. Len(rows) /\ rows'[i] = rows[i]
  <2> SUFFICES ASSUME NEW i \in 1 .. Len(rows'), i # a, i # b
               PROVE  i \in 1 .. Len(rows) /\ rows'[i] = rows[i]
    OBVIOUS
  <2>1. i \in 1 .. Len(mid) /\ i # k.rpd.id
    BY <1>9, <1>10
  <2>2. rows'[i] = mid[i]
    BY <1>9, <2>1
  <2>3. i \in 1 .. Len(rows) /\ i # k.rpm.id
    BY <1>6, <1>10, <2>1
  <2>4. mid[i] = rows[i]
    BY <1>6, <2>3
  <2> QED
    BY <2>2, <2>3, <2>4
<1>14. \A i \in 1 .. Len(rows) :
         rows'[i].caller = rows[i].caller /\ rows'[i].window = rows[i].window
  BY <1>5, <1>6, <1>9
<1>15. DOMAIN rows = 1 .. Len(rows) /\ DOMAIN rows' = 1 .. Len(rows')
  BY <1>5, <1>9
<1>16. Len(rows') >= Len(rows) /\ (k.rpd.id = 0 => b \notin 1 .. Len(rows))
  BY <1>2, <1>6, <1>9, <1>10
<1> HIDE DEF a, b
<1>17. /\ a \in DOMAIN rows' /\ b \in DOMAIN rows'
       /\ a = IF k.rpm.id = 0 THEN Len(rows) + 1 ELSE k.rpm.id
       /\ k.rpd.id # 0 => b = k.rpd.id
       /\ k.rpd.id = 0 => b \notin DOMAIN rows
       /\ rows'[a] = [caller |-> k.caller, window |-> mw,
                      count |-> IF k.rpm.id = 0 THEN 1 ELSE k.rpm.count + 1]
       /\ rows'[b] = [caller |-> k.caller, window |-> dw,
                      count |-> IF k.rpd.id = 0 THEN 1 ELSE k.rpd.count + 1]
       /\ \A i \in DOMAIN rows' \ {a, b} : i \in DOMAIN rows /\ rows'[i] = rows[i]
  <2>1. a \in 1 .. Len(rows')
    BY <1>6, <1>9, <1>10
  <2> QED
    BY <2>1, <1>6, <1>9, <1>10, <1>12, <1>13, <1>15, <1>16 DEF a, b
<1> QED
  BY <1>1, <1>2, <1>3, <1>9, <1>14, <1>15, <1>16, <1>17

(* What a commit does to the history: the two windows charged go up by one. *)
LEMMA CommitAdmitsOnce ==
  ASSUME TypeOK, NEW w \in Worker, Commit(w),
         check[w].caller \in Caller, check[w].minute \in Minute
  PROVE  /\ admitted' \in [Caller \X Window -> Nat]
         /\ \A c \in Caller, win \in Window :
              admitted'[<<c, win>>] =
                IF /\ c = check[w].caller
                   /\ win \in {MinuteWindow(check[w].minute), DayWindow(check[w].minute)}
                THEN admitted[<<c, win>>] + 1 ELSE admitted[<<c, win>>]
<1> DEFINE k == check[w]
           mw == MinuteWindow(k.minute)
           dw == DayWindow(k.minute)
<1>1. mw \in Window /\ dw \in Window /\ mw # dw
  BY WindowsTyped DEF MinuteWindow, DayWindow
<1>2. admitted' = [admitted EXCEPT ![<<k.caller, mw>>] = @ + 1, ![<<k.caller, dw>>] = @ + 1]
  BY DEF Commit
<1>3. admitted \in [Caller \X Window -> Nat] /\ k.caller \in Caller
  BY DEF TypeOK
<1> HIDE DEF mw, dw, k
<1>4. /\ admitted' \in [Caller \X Window -> Nat]
      /\ \A c \in Caller, win \in Window :
           admitted'[<<c, win>>] =
             IF c = k.caller /\ win \in {mw, dw}
             THEN admitted[<<c, win>>] + 1 ELSE admitted[<<c, win>>]
  BY <1>1, <1>2, <1>3
<1> QED
  BY <1>4 DEF mw, dw, k

(* Every action keeps the types. *)
LEMMA TypeOKStep == TypeOK /\ (\A w \in Worker : Counted(w)) /\ [Next]_vars => TypeOK'
<1> SUFFICES ASSUME TypeOK, \A w \in Worker : Counted(w), [Next]_vars PROVE TypeOK'
  OBVIOUS
<1>1. CASE Tick
  BY <1>1, ClockAssumption DEF Tick, TypeOK, Minute
<1>2. ASSUME NEW w \in Worker, NEW c \in Caller, Select(w, c) PROVE TypeOK'
  <2>1. now \in Minute
    BY DEF TypeOK
  <2>2. PICK rpm \in Find(c, MinuteWindow(now)), rpd \in Find(c, DayWindow(now)) :
          check' = [check EXCEPT ![w] = [pc |-> "selected", caller |-> c,
                                         minute |-> now, rpm |-> rpm, rpd |-> rpd]]
    BY <1>2 DEF Select
  <2>3. rpm \in Found /\ rpd \in Found
    BY <2>1, <2>2, FindReads, WindowsTyped
  <2>4. [pc |-> "selected", caller |-> c, minute |-> now, rpm |-> rpm, rpd |-> rpd] \in Selected
    BY <2>1, <2>3 DEF Selected
  <2> QED
    BY <1>2, <2>2, <2>4 DEF TypeOK, Select
<1>3. ASSUME NEW w \in Worker, Commit(w) PROVE TypeOK'
  <2>1. check[w] \in Selected /\ check[w].caller \in Caller /\ check[w].minute \in Minute
        /\ rows' \in Seq(Row)
    BY <1>3, CommitWritesTwoRows
  <2>2. admitted' \in [Caller \X Window -> Nat]
    BY <1>3, <2>1, CommitAdmitsOnce
  <2> QED
    BY <1>3, <2>1, <2>2 DEF TypeOK, Commit
<1>4. ASSUME NEW w \in Worker, Reject(w) PROVE TypeOK'
  BY <1>4 DEF Reject, TypeOK
<1>5. ASSUME NEW w \in Worker, Abort(w) PROVE TypeOK'
  BY <1>5 DEF Abort, TypeOK
<1>6. CASE UNCHANGED vars
  BY <1>6 DEF vars, TypeOK
<1> QED
  BY <1>1, <1>2, <1>3, <1>4, <1>5, <1>6 DEF Next

(* Counts never run ahead of admissions, whatever the processes interleave: *)
(* a write stores one more than a count that was at most what was admitted  *)
(* when it was read, and admissions only grow.                              *)
LEMMA AtMostAdmittedStep ==
  TypeOK /\ AtMostAdmitted /\ [Next]_vars => AtMostAdmitted'
<1> SUFFICES ASSUME TypeOK, AtMostAdmitted, [Next]_vars PROVE AtMostAdmitted'
  OBVIOUS
<1>1. ASSUME NEW w \in Worker, NEW c \in Caller, Select(w, c) PROVE AtMostAdmitted'
  <2>1. now \in Minute
    BY DEF TypeOK
  <2>2. PICK rpm \in Find(c, MinuteWindow(now)), rpd \in Find(c, DayWindow(now)) :
          check' = [check EXCEPT ![w] = [pc |-> "selected", caller |-> c,
                                         minute |-> now, rpm |-> rpm, rpd |-> rpd]]
    BY <1>1 DEF Select
  <2>3. /\ Refers(rpm, c, MinuteWindow(now)) /\ Refers(rpd, c, DayWindow(now))
        /\ rpm = None \/ (rpm.id \in DOMAIN rows /\ rpm.count = rows[rpm.id].count)
        /\ rpd = None \/ (rpd.id \in DOMAIN rows /\ rpd.count = rows[rpd.id].count)
    BY <2>1, <2>2, FindReads, WindowsTyped
  <2>4. /\ rpm.count <= admitted[<<c, MinuteWindow(now)>>]
        /\ rpd.count <= admitted[<<c, DayWindow(now)>>]
    BY <2>1, <2>3, WindowsTyped DEF AtMostAdmitted, Refers, None, TypeOK
  <2>5. rows' = rows /\ admitted' = admitted /\ now' = now /\ now <= now
    BY <2>1, <1>1, ClockAssumption DEF Select, Minute
  <2>6. \A v \in Worker : v # w => check'[v] = check[v]
    BY <2>2 DEF TypeOK
  <2>7. check'[w] = [pc |-> "selected", caller |-> c,
                     minute |-> now, rpm |-> rpm, rpd |-> rpd]
    BY <2>2 DEF TypeOK
  <2>8. Counted(w)'
    BY <2>3, <2>4, <2>5, <2>7 DEF Counted, Refers
  <2>9. \A v \in Worker : v # w => Counted(v)'
    BY <2>5, <2>6 DEF Counted, Refers, AtMostAdmitted
  <2> QED
    BY <2>5, <2>8, <2>9 DEF AtMostAdmitted
<1>2. ASSUME NEW w \in Worker, Commit(w) PROVE AtMostAdmitted'
  <2> DEFINE k == check[w]
             mw == MinuteWindow(k.minute)
             dw == DayWindow(k.minute)
  <2>1. Counted(w) /\ k # Idle
    BY <1>2 DEF AtMostAdmitted, Commit
  <2>2. /\ k \in Selected /\ k.caller \in Caller /\ k.minute \in Minute
        /\ mw \in Window /\ dw \in Window /\ mw # dw
        /\ rows' \in Seq(Row)
        /\ Len(rows') >= Len(rows)
        /\ \A i \in DOMAIN rows :
             rows'[i].caller = rows[i].caller /\ rows'[i].window = rows[i].window
    BY <1>2, <2>1, CommitWritesTwoRows
  <2>3. PICK a, b \in DOMAIN rows' :
          /\ rows'[a] = [caller |-> k.caller, window |-> mw,
                         count |-> IF k.rpm.id = 0 THEN 1 ELSE k.rpm.count + 1]
          /\ rows'[b] = [caller |-> k.caller, window |-> dw,
                         count |-> IF k.rpd.id = 0 THEN 1 ELSE k.rpd.count + 1]
          /\ \A i \in DOMAIN rows' \ {a, b} : i \in DOMAIN rows /\ rows'[i] = rows[i]
    BY <1>2, <2>1, CommitWritesTwoRows
  <2>4. \A c \in Caller, win \in Window :
          admitted'[<<c, win>>] = IF c = k.caller /\ win \in {mw, dw}
                                  THEN admitted[<<c, win>>] + 1 ELSE admitted[<<c, win>>]
    BY <1>2, <2>2, CommitAdmitsOnce
  <2>5. \A c \in Caller, win \in Window : admitted[<<c, win>>] \in Nat
    BY DEF TypeOK
  <2>6. /\ k.rpm.count <= admitted[<<k.caller, mw>>] /\ k.rpm.count \in Nat
        /\ k.rpd.count <= admitted[<<k.caller, dw>>] /\ k.rpd.count \in Nat
    BY <2>1, <2>2 DEF Counted, Selected, Found
  <2>7. check' = [check EXCEPT ![w] = Idle]
    BY <1>2 DEF Commit
  <2> HIDE DEF k, mw, dw
  <2>8. ASSUME NEW i \in DOMAIN rows'
        PROVE  rows'[i].count <= admitted'[<<rows'[i].caller, rows'[i].window>>]
    <3>1. CASE i = a
      <4>1. /\ rows'[i].caller = k.caller /\ rows'[i].window = mw
            /\ rows'[i].count = IF k.rpm.id = 0 THEN 1 ELSE k.rpm.count + 1
        BY <2>3, <3>1
      <4>2. admitted'[<<k.caller, mw>>] = admitted[<<k.caller, mw>>] + 1
        BY <2>2, <2>4
      <4> QED
        BY <2>2, <2>5, <2>6, <4>1, <4>2
    <3>2. CASE i = b
      <4>1. /\ rows'[i].caller = k.caller /\ rows'[i].window = dw
            /\ rows'[i].count = IF k.rpd.id = 0 THEN 1 ELSE k.rpd.count + 1
        BY <2>3, <3>2
      <4>2. admitted'[<<k.caller, dw>>] = admitted[<<k.caller, dw>>] + 1
        BY <2>2, <2>4
      <4> QED
        BY <2>2, <2>5, <2>6, <4>1, <4>2
    <3>3. CASE i \notin {a, b}
      <4>1. i \in DOMAIN rows /\ rows'[i] = rows[i]
        BY <2>3, <3>3
      <4>2. rows[i] \in Row
        BY <4>1 DEF TypeOK
      <4>3. /\ rows[i].caller \in Caller /\ rows[i].window \in Window /\ rows[i].count \in Nat
            /\ rows[i].count <= admitted[<<rows[i].caller, rows[i].window>>]
        BY <4>1, <4>2 DEF Row, AtMostAdmitted
      <4> QED
        BY <2>4, <2>5, <4>1, <4>3
    <3> QED
      BY <3>1, <3>2, <3>3
  <2>9. ASSUME NEW v \in Worker PROVE Counted(v)'
    <3>1. CASE v = w
      BY <2>7, <3>1 DEF Counted, TypeOK
    <3>2. CASE v # w
      <4> DEFINE j == check[v]
      <4>1. check'[v] = j
        BY <2>7, <3>2 DEF TypeOK
      <4>2. j # Idle => j \in Selected
        BY DEF TypeOK
      <4>3. SUFFICES ASSUME j # Idle PROVE Counted(v)'
        BY <4>1 DEF Counted
      <4>4. /\ j.caller \in Caller /\ j.minute \in Minute
            /\ j.rpm \in Found /\ j.rpd \in Found
        BY <4>2, <4>3 DEF Selected
      <4>5. MinuteWindow(j.minute) \in Window /\ DayWindow(j.minute) \in Window
        BY <4>4, WindowsTyped
      <4>6. Counted(v)
        BY DEF AtMostAdmitted
      <4>7. /\ j.rpm.count <= admitted'[<<j.caller, MinuteWindow(j.minute)>>]
            /\ j.rpd.count <= admitted'[<<j.caller, DayWindow(j.minute)>>]
        <5>1. /\ j.rpm.count <= admitted[<<j.caller, MinuteWindow(j.minute)>>]
              /\ j.rpd.count <= admitted[<<j.caller, DayWindow(j.minute)>>]
              /\ j.rpm.count \in Nat /\ j.rpd.count \in Nat
          BY <4>3, <4>4, <4>6 DEF Counted, Found
        <5> QED
          BY <2>4, <2>5, <4>4, <4>5, <5>1
      <4>8. ASSUME NEW found \in Found, NEW c, NEW win, Refers(found, c, win)
            PROVE  Refers(found, c, win)'
        BY <2>2, <4>8 DEF Refers, TypeOK, Found
      <4>9. /\ Refers(j.rpm, j.caller, MinuteWindow(j.minute))'
            /\ Refers(j.rpd, j.caller, DayWindow(j.minute))'
        <5>1. /\ Refers(j.rpm, j.caller, MinuteWindow(j.minute))
              /\ Refers(j.rpd, j.caller, DayWindow(j.minute))
          BY <4>3, <4>6 DEF Counted
        <5> QED
          BY <2>2, <4>1, <4>4, <5>1 DEF Refers, TypeOK, Found
      <4>10. now' = now /\ j.minute <= now
        BY <1>2, <4>3, <4>6 DEF Commit, Counted
      <4> QED
        BY <4>1, <4>7, <4>9, <4>10 DEF Counted
    <3> QED
      BY <3>1, <3>2
  <2> QED
    BY <2>8, <2>9 DEF AtMostAdmitted
<1>3. ASSUME NEW w \in Worker, Reject(w) \/ Abort(w) PROVE AtMostAdmitted'
  <2>1. /\ rows' = rows /\ admitted' = admitted /\ now' = now
        /\ check' = [check EXCEPT ![w] = Idle]
    BY <1>3 DEF Reject, Abort
  <2>2. ASSUME NEW v \in Worker PROVE Counted(v)'
    BY <2>1 DEF Counted, Refers, AtMostAdmitted, TypeOK
  <2> QED
    BY <2>1, <2>2 DEF AtMostAdmitted
<1>4. CASE Tick \/ UNCHANGED vars
  <2>1. /\ rows' = rows /\ admitted' = admitted /\ check' = check
        /\ now' = now \/ now' = now + 1
    BY <1>4 DEF Tick, vars
  <2>2. \A w \in Worker : check[w] # Idle => check[w].minute <= now'
    <3> SUFFICES ASSUME NEW w \in Worker, check[w] # Idle PROVE check[w].minute <= now'
      OBVIOUS
    <3>1. check[w] \in Selected /\ check[w].minute <= now
      BY DEF TypeOK, AtMostAdmitted, Counted
    <3>2. check[w].minute \in Nat /\ now \in Nat
      BY <3>1, ClockAssumption DEF Selected, Minute, TypeOK
    <3> QED
      BY <2>1, <3>1, <3>2
  <2> QED
    BY <2>1, <2>2 DEF AtMostAdmitted, Counted, Refers
<1> QED
  BY <1>1, <1>2, <1>3, <1>4 DEF Next

(* Whatever the processes do, the table and every count read from it stay  *)
(* at or below what was admitted.                                          *)
THEOREM TableBelowHistory == Spec => [](TypeOK /\ AtMostAdmitted)
<1>1. Init => TypeOK /\ AtMostAdmitted
  <2> SUFFICES ASSUME Init PROVE TypeOK /\ AtMostAdmitted
    OBVIOUS
  <2>1. 0 \in Minute /\ << >> \in Seq(Row) /\ DOMAIN rows = {}
    BY ClockAssumption DEF Init, Minute
  <2> QED
    BY <2>1 DEF Init, TypeOK, AtMostAdmitted, Counted
<1>2. TypeOK /\ AtMostAdmitted /\ [Next]_vars => (TypeOK /\ AtMostAdmitted)'
  BY TypeOKStep, AtMostAdmittedStep DEF AtMostAdmitted
<1> QED
  BY <1>1, <1>2, PTL DEF Spec

(* The tables and checks of RateLimiter are always well typed. *)
THEOREM TypeCorrect == Spec => []TypeOK
BY TableBelowHistory, PTL

(* rate_limiter.py:117-121, 136-140: however many processes share the      *)
(* table, a request is only refused when its window is really used up.     *)
THEOREM RefusalsDeserved == Spec => NeverRejectsEarly
<1>1. ASSUME TypeOK, AtMostAdmitted, NEW w \in Worker, Reject(w)
      PROVE  \E win \in {MinuteWindow(check[w].minute), DayWindow(check[w].minute)} :
               admitted[<<check[w].caller, win>>] >= LimitOf(win)
  <2> DEFINE k == check[w]
             mw == MinuteWindow(k.minute)
             dw == DayWindow(k.minute)
  <2>1. k # Idle /\ ~ WithinLimits(k) /\ Counted(w) /\ k \in Selected
    BY <1>1 DEF Reject, AtMostAdmitted, TypeOK
  <2>2. /\ k.caller \in Caller /\ mw \in Window /\ dw \in Window
        /\ k.rpm.count \in Nat /\ k.rpd.count \in Nat
    BY <2>1, WindowsTyped DEF Selected, Found
  <2>3. \/ k.rpm.count >= RpmLimit
        \/ k.rpd.count >= RpdLimit
    BY <2>1, <2>2, LimitAssumption DEF WithinLimits, HasRoom
  <2>4. admitted[<<k.caller, mw>>] \in Nat /\ admitted[<<k.caller, dw>>] \in Nat
    BY <2>2, <1>1 DEF TypeOK
  <2>5. \/ admitted[<<k.caller, mw>>] >= RpmLimit
        \/ admitted[<<k.caller, dw>>] >= RpdLimit
    BY <2>1, <2>2, <2>3, <2>4, LimitAssumption DEF Counted
  <2> QED
    BY <2>5 DEF LimitOf, MinuteWindow, DayWindow
<1>2. TypeOK /\ AtMostAdmitted /\ [Next]_vars =>
        [\A w \in Worker : Reject(w) =>
           \E win \in {MinuteWindow(check[w].minute), DayWindow(check[w].minute)} :
              admitted[<<check[w].caller, win>>] >= LimitOf(win)]_vars
  BY <1>1
<1> QED
  BY <1>2, TableBelowHistory, PTL DEF Spec, NeverRejectsEarly

-----------------------------------------------------------------------------
(* One gateway process: the deployment of Dockerfile and docker-compose.   *)
OneProcess == \A v, w \in Worker : v = w

(* What was read is what the table still says.  Other processes break it.  *)
UpToDate(found, c, win) ==
  /\ found.id = 0 => RowsOf(c, win) = {}
  /\ found.id # 0 => found.id \in RowsOf(c, win) /\ found.count = rows[found.id].count

Exact ==
  /\ \A i, j \in DOMAIN rows :
       rows[i].caller = rows[j].caller /\ rows[i].window = rows[j].window => i = j
  /\ \A i \in DOMAIN rows :
       admitted[<<rows[i].caller, rows[i].window>>] = rows[i].count
  /\ \A c \in Caller, win \in Window : RowsOf(c, win) = {} => admitted[<<c, win>>] = 0
  /\ \A w \in Worker : check[w] # Idle =>
       /\ UpToDate(check[w].rpm, check[w].caller, MinuteWindow(check[w].minute))
       /\ UpToDate(check[w].rpd, check[w].caller, DayWindow(check[w].minute))

(* Reading the table when it is exact yields something current. *)
LEMMA FindCurrent ==
  ASSUME TypeOK, NEW c \in Caller, NEW win \in Window, NEW found \in Find(c, win)
  PROVE  UpToDate(found, c, win)
<1>1. CASE RowsOf(c, win) = {}
  BY <1>1 DEF Find, None, UpToDate
<1>2. CASE RowsOf(c, win) # {}
  <2>1. PICK i \in RowsOf(c, win) : found = [id |-> i, count |-> rows[i].count]
    BY <1>2 DEF Find
  <2>2. i \in 1 .. Len(rows)
    BY <2>1 DEF RowsOf, TypeOK
  <2> QED
    BY <2>1, <2>2 DEF UpToDate
<1> QED
  BY <1>1, <1>2

(* The history agrees with a current record: the count it carries.         *)
LEMMA CurrentCounts ==
  ASSUME TypeOK, Exact, NEW c \in Caller, NEW win \in Window,
         NEW found \in Found, UpToDate(found, c, win)
  PROVE  admitted[<<c, win>>] = IF found.id = 0 THEN 0 ELSE found.count
BY DEF UpToDate, Exact, RowsOf

(* With one process nothing comes between a check's read and its commit, so *)
(* each commit moves the table and the history together.                    *)
LEMMA ExactStep ==
  ASSUME OneProcess
  PROVE  TypeOK /\ AtMostAdmitted /\ Exact /\ [Next]_vars => Exact'
<1> SUFFICES ASSUME TypeOK, AtMostAdmitted, Exact, [Next]_vars PROVE Exact'
  OBVIOUS
<1>1. ASSUME NEW w \in Worker, NEW c \in Caller, Select(w, c) PROVE Exact'
  <2>1. now \in Minute /\ MinuteWindow(now) \in Window /\ DayWindow(now) \in Window
    BY WindowsTyped DEF TypeOK
  <2>2. PICK rpm \in Find(c, MinuteWindow(now)), rpd \in Find(c, DayWindow(now)) :
          check' = [check EXCEPT ![w] = [pc |-> "selected", caller |-> c,
                                         minute |-> now, rpm |-> rpm, rpd |-> rpd]]
    BY <1>1 DEF Select
  <2>3. UpToDate(rpm, c, MinuteWindow(now)) /\ UpToDate(rpd, c, DayWindow(now))
    BY <2>1, <2>2, FindCurrent
  <2>4. rows' = rows /\ admitted' = admitted
    BY <1>1 DEF Select
  <2>5. \A v \in Worker : check'[v] = [pc |-> "selected", caller |-> c, minute |-> now,
                                       rpm |-> rpm, rpd |-> rpd]
    BY <2>2 DEF TypeOK, OneProcess
  <2> QED
    BY <2>3, <2>4, <2>5 DEF Exact, UpToDate, RowsOf
<1>2. ASSUME NEW w \in Worker, Commit(w) PROVE Exact'
  <2> DEFINE k == check[w]
             mw == MinuteWindow(k.minute)
             dw == DayWindow(k.minute)
  <2>1. Counted(w) /\ k # Idle
    BY <1>2 DEF AtMostAdmitted, Commit
  <2>2. /\ k \in Selected /\ k.caller \in Caller /\ k.minute \in Minute
        /\ mw \in Window /\ dw \in Window /\ mw # dw
        /\ rows' \in Seq(Row)
        /\ Len(rows') >= Len(rows)
        /\ \A i \in DOMAIN rows :
             rows'[i].caller = rows[i].caller /\ rows'[i].window = rows[i].window
    BY <1>2, <2>1, CommitWritesTwoRows
  <2>3. PICK a, b \in DOMAIN rows' :
          /\ a = IF k.rpm.id = 0 THEN Len(rows) + 1 ELSE k.rpm.id
          /\ k.rpd.id # 0 => b = k.rpd.id
          /\ k.rpd.id = 0 => b \notin DOMAIN rows
          /\ rows'[a] = [caller |-> k.caller, window |-> mw,
                         count |-> IF k.rpm.id = 0 THEN 1 ELSE k.rpm.count + 1]
          /\ rows'[b] = [caller |-> k.caller, window |-> dw,
                         count |-> IF k.rpd.id = 0 THEN 1 ELSE k.rpd.count + 1]
          /\ \A i \in DOMAIN rows' \ {a, b} : i \in DOMAIN rows /\ rows'[i] = rows[i]
    BY <1>2, <2>1, CommitWritesTwoRows
  <2>4. \A c \in Caller, win \in Window :
          admitted'[<<c, win>>] = IF c = k.caller /\ win \in {mw, dw}
                                  THEN admitted[<<c, win>>] + 1 ELSE admitted[<<c, win>>]
    BY <1>2, <2>2, CommitAdmitsOnce
  <2>5. /\ UpToDate(k.rpm, k.caller, mw) /\ UpToDate(k.rpd, k.caller, dw)
        /\ k.rpm \in Found /\ k.rpd \in Found
    BY <2>1, <2>2 DEF Exact, Selected
  <2>6. /\ admitted[<<k.caller, mw>>] = IF k.rpm.id = 0 THEN 0 ELSE k.rpm.count
        /\ admitted[<<k.caller, dw>>] = IF k.rpd.id = 0 THEN 0 ELSE k.rpd.count
    BY <2>2, <2>5, CurrentCounts
  <2>7. DOMAIN rows = 1 .. Len(rows) /\ DOMAIN rows' = 1 .. Len(rows') /\ Len(rows) \in Nat
        /\ Len(rows') \in Nat
    BY <2>2 DEF TypeOK
  <2>8. \A v \in Worker : check'[v] = Idle
    BY <1>2 DEF Commit, TypeOK, OneProcess
  <2> HIDE DEF k, mw, dw
  <2>9. \A i \in DOMAIN rows : rows[i].caller = k.caller /\ rows[i].window = mw => i = a
    BY <2>3, <2>5, <2>7 DEF UpToDate, RowsOf, Exact
  <2>10. \A i \in DOMAIN rows : rows[i].caller = k.caller /\ rows[i].window = dw => i = b
    BY <2>3, <2>5, <2>7 DEF UpToDate, RowsOf, Exact
  <2>11. ASSUME NEW i \in DOMAIN rows', NEW j \in DOMAIN rows',
                rows'[i].caller = rows'[j].caller, rows'[i].window = rows'[j].window
         PROVE  i = j
    <3>1. \A n \in DOMAIN rows' : n \notin {a, b} =>
            n \in DOMAIN rows /\ rows'[n] = rows[n]
      BY <2>3
    <3>2. \A n \in DOMAIN rows' : rows'[n].caller = k.caller /\ rows'[n].window = mw => n = a
      BY <2>2, <2>3, <2>9, <3>1
    <3>3. \A n \in DOMAIN rows' : rows'[n].caller = k.caller /\ rows'[n].window = dw => n = b
      BY <2>2, <2>3, <2>10, <3>1
    <3>4. CASE i \in {a, b} \/ j \in {a, b}
      BY <2>3, <2>11, <3>2, <3>3, <3>4
    <3>5. CASE i \notin {a, b} /\ j \notin {a, b}
      BY <2>11, <3>1, <3>5 DEF Exact
    <3> QED
      BY <3>4, <3>5
  <2>12. ASSUME NEW i \in DOMAIN rows'
         PROVE  admitted'[<<rows'[i].caller, rows'[i].window>>] = rows'[i].count
    <3>1. CASE i = a
      <4>1. admitted'[<<k.caller, mw>>] = admitted[<<k.caller, mw>>] + 1
        BY <2>2, <2>4
      <4> QED
        BY <2>3, <2>5, <2>6, <3>1, <4>1 DEF Found
    <3>2. CASE i = b
      <4>1. admitted'[<<k.caller, dw>>] = admitted[<<k.caller, dw>>] + 1
        BY <2>2, <2>4
      <4> QED
        BY <2>3, <2>5, <2>6, <3>2, <4>1 DEF Found
    <3>3. CASE i \notin {a, b}
      <4>1. i \in DOMAIN rows /\ rows'[i] = rows[i]
        BY <2>3, <3>3
      <4>2. rows[i].caller \in Caller /\ rows[i].window \in Window
        <5>1. rows[i] \in Row
          BY <4>1 DEF TypeOK
        <5> QED
          BY <5>1 DEF Row
      <4>3. ~ (rows[i].caller = k.caller /\ rows[i].window \in {mw, dw})
        BY <2>9, <2>10, <3>3, <4>1
      <4>4. admitted'[<<rows[i].caller, rows[i].window>>]
              = admitted[<<rows[i].caller, rows[i].window>>]
        BY <2>4, <4>2, <4>3
      <4> QED
        BY <4>1, <4>4 DEF Exact
    <3> QED
      BY <3>1, <3>2, <3>3
  <2>13. ASSUME NEW c \in Caller, NEW win \in Window, RowsOf(c, win)' = {}
         PROVE  admitted'[<<c, win>>] = 0
    <3>1. ~ (c = k.caller /\ win \in {mw, dw})
      BY <2>3, <2>13 DEF RowsOf
    <3>2. RowsOf(c, win) = {}
      BY <2>2, <2>7, <2>13 DEF RowsOf
    <3> QED
      BY <2>4, <3>1, <3>2 DEF Exact
  <2> QED
    BY <2>8, <2>11, <2>12, <2>13 DEF Exact
<1>3. ASSUME NEW w \in Worker, Reject(w) \/ Abort(w) PROVE Exact'
  <2>1. rows' = rows /\ admitted' = admitted /\ \A v \in Worker : check'[v] = Idle
    BY <1>3 DEF Reject, Abort, TypeOK, OneProcess
  <2> QED
    BY <2>1 DEF Exact, RowsOf
<1>4. CASE Tick \/ UNCHANGED vars
  BY <1>4 DEF Tick, vars, Exact, UpToDate, RowsOf
<1> QED
  BY <1>1, <1>2, <1>3, <1>4 DEF Next

(* An admission found room in both windows, so it fits in the quota.       *)
LEMMA QuotaStep ==
  ASSUME OneProcess, RpmLimit > 0, RpdLimit > 0
  PROVE  TypeOK /\ AtMostAdmitted /\ Exact /\ WithinQuota /\ [Next]_vars => WithinQuota'
<1> SUFFICES ASSUME TypeOK, AtMostAdmitted, Exact, WithinQuota, [Next]_vars
             PROVE  WithinQuota'
  OBVIOUS
<1>1. ASSUME NEW w \in Worker, Commit(w) PROVE WithinQuota'
  <2> DEFINE k == check[w]
             mw == MinuteWindow(k.minute)
             dw == DayWindow(k.minute)
  <2>1. /\ k # Idle /\ k \in Selected /\ WithinLimits(k)
        /\ k.caller \in Caller /\ k.minute \in Minute
        /\ k.rpm \in Found /\ k.rpd \in Found
    BY <1>1 DEF Commit, TypeOK, Selected
  <2>2. mw \in Window /\ dw \in Window /\ LimitOf(mw) = RpmLimit /\ LimitOf(dw) = RpdLimit
    BY <2>1, WindowsTyped DEF LimitOf, MinuteWindow, DayWindow
  <2>3. UpToDate(k.rpm, k.caller, mw) /\ UpToDate(k.rpd, k.caller, dw)
    BY <2>1 DEF Exact
  <2>4. /\ admitted[<<k.caller, mw>>] = IF k.rpm.id = 0 THEN 0 ELSE k.rpm.count
        /\ admitted[<<k.caller, dw>>] = IF k.rpd.id = 0 THEN 0 ELSE k.rpd.count
    BY <2>1, <2>2, <2>3, CurrentCounts
  <2>5. admitted[<<k.caller, mw>>] < RpmLimit /\ admitted[<<k.caller, dw>>] < RpdLimit
    BY <2>1, <2>4, LimitAssumption DEF WithinLimits, HasRoom, Found
  <2>6. \A c \in Caller, win \in Window :
          admitted'[<<c, win>>] = IF c = k.caller /\ win \in {mw, dw}
                                  THEN admitted[<<c, win>>] + 1 ELSE admitted[<<c, win>>]
    <3>1. k = check[w] /\ k.caller \in Caller /\ k.minute \in Minute
      BY <2>1
    <3> QED
      BY <1>1, <3>1, CommitAdmitsOnce
  <2> HIDE DEF k, mw, dw
  <2>7. ASSUME NEW c \in Caller, NEW win \in Window
        PROVE  admitted'[<<c, win>>] <= LimitOf(win)
    <3>1. CASE c = k.caller /\ win \in {mw, dw}
      <4>1. admitted[<<c, win>>] < LimitOf(win) /\ admitted[<<c, win>>] \in Nat
        BY <2>2, <2>5, <3>1 DEF TypeOK
      <4>2. LimitOf(win) \in Nat
        BY LimitAssumption DEF LimitOf
      <4> QED
        BY <2>6, <3>1, <4>1, <4>2
    <3>2. CASE ~ (c = k.caller /\ win \in {mw, dw})
      BY <2>6, <3>2 DEF WithinQuota
    <3> QED
      BY <3>1, <3>2
  <2> QED
    BY <2>7 DEF WithinQuota
<1>2. CASE Tick \/ UNCHANGED vars
  BY <1>2 DEF Tick, vars, WithinQuota
<1>3. ASSUME NEW w \in Worker, NEW c \in Caller, Select(w, c) PROVE WithinQuota'
  BY <1>3 DEF Select, WithinQuota
<1>4. ASSUME NEW w \in Worker, Reject(w) \/ Abort(w) PROVE WithinQuota'
  BY <1>4 DEF Reject, Abort, WithinQuota
<1> QED
  BY <1>1, <1>2, <1>3, <1>4 DEF Next

(* With one process the table is exact. *)
LEMMA TableExact == ASSUME OneProcess PROVE Spec => [](TypeOK /\ AtMostAdmitted /\ Exact)
<1>1. Init => Exact
  <2> SUFFICES ASSUME Init PROVE Exact
    OBVIOUS
  <2> QED
    BY DEF Init, Exact
<1>2. TypeOK /\ AtMostAdmitted /\ Exact /\ [Next]_vars => Exact'
  BY ExactStep
<1> QED
  BY <1>1, <1>2, TableBelowHistory, PTL DEF Spec

(* rate_limiter.py:116-141: one process never lets more requests of a      *)
(* caller through, in a minute or on a day, than the configured limits.    *)
(* A limit of 0 is not enforced: the first request of a window inserts its *)
(* row without a comparison.                                               *)
THEOREM OneProcessKeepsQuota ==
  ASSUME OneProcess, RpmLimit > 0, RpdLimit > 0
  PROVE  Spec => []WithinQuota
<1>1. Init => WithinQuota
  BY LimitAssumption DEF Init, WithinQuota, LimitOf
<1>2. TypeOK /\ AtMostAdmitted /\ Exact /\ WithinQuota /\ [Next]_vars => WithinQuota'
  BY QuotaStep
<1> QED
  BY <1>1, <1>2, TableExact, PTL DEF Spec

(* Under Exact, what the table stores for a window is what was admitted.   *)
LEMMA StoredIsAdmitted ==
  ASSUME TypeOK, Exact
  PROVE  [n \in Caller \X Window |-> Stored(n[1], n[2])] = admitted
<1>1. ASSUME NEW c \in Caller, NEW win \in Window
      PROVE  Stored(c, win) = admitted[<<c, win>>]
  <2>1. CASE RowsOf(c, win) = {}
    BY <2>1 DEF Stored, Exact
  <2>2. CASE RowsOf(c, win) # {}
    <3> DEFINE i == CHOOSE n \in RowsOf(c, win) : TRUE
    <3>1. i \in RowsOf(c, win)
      BY <2>2
    <3>2. Stored(c, win) = rows[i].count
      BY <2>2 DEF Stored
    <3> HIDE DEF i
    <3>3. i \in DOMAIN rows /\ rows[i].caller = c /\ rows[i].window = win
      BY <3>1 DEF RowsOf
    <3> QED
      BY <3>2, <3>3 DEF Exact
  <2> QED
    BY <2>1, <2>2
<1>2. admitted \in [Caller \X Window -> Nat]
  BY DEF TypeOK
<1>3. \A n \in Caller \X Window : n = <<n[1], n[2]>> /\ n[1] \in Caller /\ n[2] \in Window
  OBVIOUS
<1> QED
  BY <1>1, <1>2, <1>3

(* With one process the rate_limits table implements the abstract quota:   *)
(* every commit is one admission that had room in both windows, and every  *)
(* other step leaves the quota alone.                                      *)
THEOREM OneProcessImplementsFixedWindow ==
  ASSUME OneProcess, RpmLimit > 0, RpdLimit > 0
  PROVE  Spec => ImplementsFixedWindow
<1> DEFINE bar == [n \in Caller \X Window |-> Stored(n[1], n[2])]
           Safe == TypeOK /\ AtMostAdmitted /\ Exact
<1>1. Init => FW!Init
  <2> SUFFICES ASSUME Init PROVE FW!Init
    OBVIOUS
  <2>1. \A c, win : Stored(c, win) = 0
    BY DEF Init, Stored, RowsOf
  <2> QED
    BY <2>1 DEF Init, FW!Init, FW!Window, FW!Minute, Window, Minute
<1>2. Safe => bar = admitted
  BY StoredIsAdmitted
<1>3. (Safe => bar = admitted)'
  BY <1>2, PTL
<1>4. Safe /\ Safe' /\ [Next]_vars => [FW!Next]_(FW!vars)
  <2> SUFFICES ASSUME Safe, Safe', [Next]_vars PROVE [FW!Next]_(FW!vars)
    OBVIOUS
  <2>1. bar = admitted /\ bar' = admitted'
    BY <1>2, <1>3
  <2>2. CASE Tick
    BY <2>1, <2>2 DEF Tick, FW!Next, FW!Tick
  <2>3. ASSUME NEW w \in Worker, Commit(w) PROVE FW!Next
    <3> DEFINE k == check[w]
               mw == MinuteWindow(k.minute)
               dw == DayWindow(k.minute)
    <3>1. /\ k # Idle /\ k \in Selected /\ WithinLimits(k)
          /\ k.caller \in Caller /\ k.minute \in Minute
          /\ k.rpm \in Found /\ k.rpd \in Found
      BY <2>3 DEF Commit, TypeOK, Selected
    <3>2. mw \in Window /\ dw \in Window
      BY <3>1, WindowsTyped
    <3>3. UpToDate(k.rpm, k.caller, mw) /\ UpToDate(k.rpd, k.caller, dw)
      BY <3>1 DEF Exact
    <3>4. /\ admitted[<<k.caller, mw>>] = IF k.rpm.id = 0 THEN 0 ELSE k.rpm.count
          /\ admitted[<<k.caller, dw>>] = IF k.rpd.id = 0 THEN 0 ELSE k.rpd.count
      BY <3>1, <3>2, <3>3, CurrentCounts
    <3>5. admitted[<<k.caller, mw>>] < RpmLimit /\ admitted[<<k.caller, dw>>] < RpdLimit
      BY <3>1, <3>4, LimitAssumption DEF WithinLimits, HasRoom, Found
    <3>6. admitted' = [admitted EXCEPT ![<<k.caller, mw>>] = @ + 1,
                                       ![<<k.caller, dw>>] = @ + 1]
          /\ now' = now
      BY <2>3 DEF Commit
    <3>7. FW!MinuteWindow(k.minute) = mw /\ FW!DayWindow(k.minute) = dw
      BY DEF FW!MinuteWindow, FW!DayWindow, FW!DayOf, MinuteWindow, DayWindow, DayOf
    <3> HIDE DEF mw, dw
    <3>8. k.minute \in 0 .. now
      <4>1. Counted(w) /\ now \in Minute
        BY DEF AtMostAdmitted, TypeOK
      <4>2. k.minute <= now
        BY <3>1, <4>1 DEF Counted
      <4> QED
        BY <3>1, <4>1, <4>2, ClockAssumption DEF Minute
    <3>9. FW!Admit(k.caller, k.minute)
      BY <2>1, <3>5, <3>6, <3>7, <3>8 DEF FW!Admit
    <3> QED
      BY <3>1, <3>9 DEF FW!Next, FW!Minute, Minute
  <2>4. ASSUME NEW w \in Worker, NEW c \in Caller, Select(w, c) PROVE UNCHANGED FW!vars
    BY <2>1, <2>4 DEF Select, FW!vars
  <2>5. ASSUME NEW w \in Worker, Reject(w) \/ Abort(w) PROVE UNCHANGED FW!vars
    BY <2>1, <2>5 DEF Reject, Abort, FW!vars
  <2>6. CASE UNCHANGED vars
    BY <2>1, <2>6 DEF vars, FW!vars
  <2> QED
    BY <2>2, <2>3, <2>4, <2>5, <2>6 DEF Next
<1> QED
  BY <1>1, <1>4, TableExact, PTL DEF Spec, ImplementsFixedWindow, FW!Spec

(* What the abstract quota promises by itself, and with it whatever        *)
(* implements it: nobody uses more of a minute or a day than its limit     *)
(* (rate_limiter.py:116-141 compares both before it counts).               *)
THEOREM FixedWindowKeepsQuota ==
  FW!Spec => [](\A c \in Caller, win \in Window : Stored(c, win) <= LimitOf(win))
<1> DEFINE bar == [n \in Caller \X Window |-> Stored(n[1], n[2])]
           Quota(u) == \A n \in Caller \X Window : u[n] \in Nat /\ u[n] <= LimitOf(n[2])
           Safe == now \in Minute /\ Quota(bar)
<1>1. FW!Init => Safe
  <2> SUFFICES ASSUME FW!Init PROVE Safe
    OBVIOUS
  <2>1. bar = [n \in Caller \X Window |-> 0] /\ now = 0
    BY DEF FW!Init, FW!Window, FW!Minute, Window, Minute
  <2> QED
    BY <2>1, LimitAssumption, ClockAssumption DEF LimitOf, Minute
<1>2. Safe /\ [FW!Next]_(FW!vars) => Safe'
  <2> SUFFICES ASSUME Safe, [FW!Next]_(FW!vars) PROVE Safe'
    OBVIOUS
  <2>1. PICK u, v : u = bar /\ v = bar'
    OBVIOUS
  <2>2. DOMAIN u = Caller \X Window /\ Quota(u) /\ now \in Minute
    BY <2>1
  <2>3. CASE UNCHANGED FW!vars
    BY <2>1, <2>2, <2>3 DEF FW!vars, LimitOf
  <2>4. CASE FW!Tick
    BY <2>1, <2>2, <2>4, ClockAssumption DEF FW!Tick, LimitOf, Minute
  <2>5. ASSUME NEW c \in Caller, NEW m \in Minute, FW!Admit(c, m) PROVE Safe'
    <3>1. PICK a, b : a = <<c, MinuteWindow(m)>> /\ b = <<c, DayWindow(m)>>
      OBVIOUS
    <3>2. /\ now' = now /\ u[a] < RpmLimit /\ u[b] < RpdLimit
          /\ v = [u EXCEPT ![a] = @ + 1, ![b] = @ + 1]
      BY <2>1, <2>5, <3>1 DEF FW!Admit, FW!MinuteWindow, FW!DayWindow, FW!DayOf,
         MinuteWindow, DayWindow, DayOf
    <3>3. a \in Caller \X Window /\ b \in Caller \X Window /\ a # b
      BY <3>1, WindowsTyped DEF MinuteWindow, DayWindow
    <3>4. LimitOf(a[2]) = RpmLimit /\ LimitOf(b[2]) = RpdLimit
      BY <3>1 DEF LimitOf, MinuteWindow, DayWindow
    <3>5. Quota(v)
      BY <2>2, <3>2, <3>3, <3>4, LimitAssumption
    <3> QED
      BY <2>1, <2>2, <3>2, <3>5 DEF LimitOf
  <2> QED
    BY <2>3, <2>4, <2>5 DEF FW!Next, FW!Minute, Minute
<1>3. Safe => \A c \in Caller, win \in Window : Stored(c, win) <= LimitOf(win)
  <2> SUFFICES ASSUME Safe, NEW c \in Caller, NEW win \in Window
               PROVE  Stored(c, win) <= LimitOf(win)
    OBVIOUS
  <2>1. PICK n : n = <<c, win>>
    OBVIOUS
  <2> QED
    BY <2>1
<1> QED
  BY <1>1, <1>2, <1>3, PTL DEF FW!Spec

-----------------------------------------------------------------------------
(* The quota kept in memory *)

(* A window that has begun. *)
Begun(win) == win.at <= (IF win.kind = "minute" THEN now ELSE DayOf(now))

(* Nothing is counted in a window that has not begun. *)
NothingAhead ==
  \A k \in Key : ~ Begun(k[2]) => served[k] = 0 /\ k \notin DOMAIN counters

QuotaInv == CountersOK /\ NothingAhead /\ CurrentCountsExact /\ ServedWithinQuota

-----------------------------------------------------------------------------
(* Windows *)

(* A day's number is at most the minute's, and the next minute is in the   *)
(* same day or in a later one.                                             *)
LEMMA DayFacts ==
  \A m \in Nat : /\ DayOf(m) \in Nat /\ DayOf(m) <= m
                 /\ DayOf(m + 1) \in Nat /\ DayOf(m) <= DayOf(m + 1)
<1> SUFFICES ASSUME NEW m \in Nat
             PROVE  /\ DayOf(m) \in Nat /\ DayOf(m) <= m
                    /\ DayOf(m + 1) \in Nat /\ DayOf(m) <= DayOf(m + 1)
  OBVIOUS
<1>1. PICK d \in Nat : d = MinutesPerDay /\ d > 0
  BY ClockAssumption
<1>2. m \div d \in Nat /\ m \div d <= m
  BY <1>1
<1>3. (m + 1) \div d \in Nat /\ m \div d <= (m + 1) \div d
  BY <1>1
<1> QED
  BY <1>1, <1>2, <1>3 DEF DayOf

LEMMA CurrentWindows ==
  ASSUME now \in Minute
  PROVE  /\ Current \subseteq Window
         /\ MinuteWindow(now) # DayWindow(now)
         /\ \A win \in Current : Begun(win) /\ LimitOf(win) \in Nat /\ win.at <= now
<1>1. now \in Nat /\ DayOf(now) \in Nat /\ DayOf(now) <= now
  BY DayFacts DEF Minute
<1>2. MinuteWindow(now) \in Window /\ DayWindow(now) \in Window
  BY <1>1, ClockAssumption DEF MinuteWindow, DayWindow, Window, Minute
<1>3. MinuteWindow(now).kind = "minute" /\ MinuteWindow(now).at = now
      /\ DayWindow(now).kind = "day" /\ DayWindow(now).at = DayOf(now)
  BY DEF MinuteWindow, DayWindow
<1> QED
  BY <1>1, <1>2, <1>3, LimitAssumption DEF Current, Begun, LimitOf

LEMMA KeysTyped ==
  ASSUME now \in Minute, NEW c \in Caller
  PROVE  /\ KeysOf(c) \subseteq Key
         /\ \A k \in KeysOf(c) : k[1] = c /\ k[2] \in Current /\ k[2].at <= now
         /\ \A k \in Key : k[1] = c /\ k[2] \in Current => k \in KeysOf(c)
<1>1. Current \subseteq Window /\ \A win \in Current : win.at <= now
  BY CurrentWindows
<1> QED
  BY <1>1 DEF KeysOf, Key

(* Pruning leaves a table of the same counts, and all the current ones. *)
LEMMA PrunedTable ==
  ASSUME CountersOK
  PROVE  /\ DOMAIN Pruned \subseteq DOMAIN counters
         /\ \A k \in DOMAIN Pruned : Pruned[k] = counters[k]
         /\ \A k \in DOMAIN counters : k[2] \in Current => k \in DOMAIN Pruned
BY DEF Pruned, DropStale, CountersOK

LEMMA PrunedCounts ==
  ASSUME CountersOK, CurrentCountsExact, NEW c \in Caller, NEW k \in KeysOf(c)
  PROVE  Get(Pruned, k) = served[k]
<1>1. Get(counters, k) = served[k] /\ k[2] \in Current
  BY KeysTyped DEF CurrentCountsExact, CountersOK
<1> QED
  BY <1>1, PrunedTable DEF Get

-----------------------------------------------------------------------------
(* The quota *)

LEMMA InitQuota == MemoryInit => QuotaInv
<1> SUFFICES ASSUME MemoryInit PROVE QuotaInv
  OBVIOUS
<1>1. now \in Minute /\ DOMAIN counters = {} /\ served = [k \in Key |-> 0]
  BY ClockAssumption DEF MemoryInit, Minute
<1>2. \A c \in Caller : KeysOf(c) \subseteq Key
  BY <1>1, KeysTyped
<1>3. CurrentCountsExact
  BY <1>1, <1>2 DEF CurrentCountsExact, Get
<1>4. ServedWithinQuota
  BY <1>1, LimitAssumption DEF ServedWithinQuota, LimitOf
<1> QED
  BY <1>1, <1>3, <1>4 DEF QuotaInv, CountersOK, NothingAhead

LEMMA AdmitQuota ==
  ASSUME QuotaInv, NEW c \in Caller, Admit(c)
  PROVE  QuotaInv'
<1> USE DEF QuotaInv
<1>1. now \in Minute /\ now' = now /\ KeysOf(c) \subseteq Key
  BY KeysTyped DEF CountersOK, Admit
<1>2. /\ DOMAIN counters' = DOMAIN Pruned \cup KeysOf(c)
      /\ \A k \in KeysOf(c) : counters'[k] = served[k] + 1
      /\ \A k \in DOMAIN Pruned \ KeysOf(c) : counters'[k] = Pruned[k]
  BY PrunedCounts DEF Admit, Charged
<1>3. /\ served' \in [Key -> Nat]
      /\ \A k \in KeysOf(c) : served'[k] = served[k] + 1
      /\ \A k \in Key \ KeysOf(c) : served'[k] = served[k]
  BY <1>1 DEF Admit, CountersOK
<1>4. Current' = Current /\ \A d : KeysOf(d)' = KeysOf(d)
  BY <1>1 DEF Current, KeysOf
<1>5. CountersOK'
  BY <1>1, <1>2, <1>3, PrunedTable, KeysTyped DEF CountersOK
<1>6. NothingAhead'
  <2>1. \A k \in KeysOf(c) : Begun(k[2])
    BY <1>1, CurrentWindows, KeysTyped
  <2> QED
    BY <1>1, <1>2, <1>3, <2>1, PrunedTable DEF NothingAhead, Begun
<1>7. CurrentCountsExact'
  <2> SUFFICES ASSUME NEW d \in Caller, NEW k \in KeysOf(d) PROVE Get(counters', k) = served'[k]
    BY <1>4 DEF CurrentCountsExact, Get
  <2>1. CASE k \in KeysOf(c)
    BY <1>2, <1>3, <2>1 DEF Get
  <2>2. CASE k \notin KeysOf(c)
    <3>1. k \in Key /\ Get(Pruned, k) = served[k]
      BY <1>1, KeysTyped, PrunedCounts
    <3> QED
      BY <1>2, <1>3, <2>2, <3>1 DEF Get
  <2> QED
    BY <2>1, <2>2
<1>8. ServedWithinQuota'
  <2> SUFFICES ASSUME NEW k \in Key PROVE served'[k] <= LimitOf(k[2])
    BY DEF ServedWithinQuota, LimitOf
  <2>1. CASE k \in KeysOf(c)
    <3>1. served[k] < LimitOf(k[2])
      BY <2>1, PrunedCounts DEF Admit, RoomFor
    <3>2. served[k] \in Nat /\ LimitOf(k[2]) \in Nat
      BY LimitAssumption DEF CountersOK, LimitOf
    <3> QED
      BY <1>3, <2>1, <3>1, <3>2
  <2>2. CASE k \notin KeysOf(c)
    BY <1>3, <2>2 DEF ServedWithinQuota
  <2> QED
    BY <2>1, <2>2
<1> QED
  BY <1>5, <1>6, <1>7, <1>8

LEMMA RefuseQuota ==
  ASSUME QuotaInv, NEW c \in Caller, Refuse(c)
  PROVE  QuotaInv'
<1> USE DEF QuotaInv
<1>1. counters' = Pruned /\ now' = now /\ served' = served
  BY DEF Refuse
<1>2. CountersOK' /\ NothingAhead'
  BY <1>1, PrunedTable DEF CountersOK, NothingAhead, Begun
<1>3. CurrentCountsExact'
  <2>1. \A d : KeysOf(d)' = KeysOf(d)
    BY <1>1 DEF Current, KeysOf
  <2> QED
    BY <1>1, <2>1, PrunedCounts DEF CurrentCountsExact, Get
<1>4. ServedWithinQuota'
  BY <1>1 DEF ServedWithinQuota, LimitOf
<1> QED
  BY <1>2, <1>3, <1>4

(* The new minute, and the new day if there is one, start from nothing. *)
LEMMA TickQuota ==
  ASSUME QuotaInv, MemoryTick
  PROVE  QuotaInv'
<1> USE DEF QuotaInv
<1>1. now \in Nat /\ now' = now + 1 /\ now' \in Minute /\ UNCHANGED <<counters, served>>
  BY ClockAssumption DEF MemoryTick, CountersOK, Minute
<1>2. DayOf(now) \in Nat /\ DayOf(now') \in Nat /\ DayOf(now) <= DayOf(now')
  BY <1>1, DayFacts
<1>3. CountersOK'
  <2>1. \A k \in DOMAIN counters : k[2].at \in Nat
    BY DEF CountersOK, Key, Window, Minute
  <2> QED
    BY <1>1, <2>1 DEF CountersOK
<1>4. NothingAhead'
  <2>1. \A k \in Key : Begun(k[2]) => Begun(k[2])'
    <3>1. \A k \in Key : k[2].at \in Nat
      BY DEF Key, Window, Minute
    <3> QED
      BY <1>1, <1>2, <3>1 DEF Begun
  <2> QED
    BY <1>1, <2>1 DEF NothingAhead
<1>5. CurrentCountsExact'
  <2> SUFFICES ASSUME NEW c \in Caller, NEW k \in KeysOf(c)' PROVE Get(counters, k) = served[k]
    BY <1>1 DEF CurrentCountsExact, Get
  <2>1. k \in Key /\ (k = <<c, MinuteWindow(now')>> \/ k = <<c, DayWindow(now')>>)
    <3>1. MinuteWindow(now') \in Window /\ DayWindow(now') \in Window
      <4>1. now' \in Nat /\ DayOf(now') <= now'
        BY <1>1, DayFacts
      <4> QED
        BY <1>1, <1>2, <4>1, ClockAssumption DEF MinuteWindow, DayWindow, Window, Minute
    <3> QED
      BY <3>1 DEF KeysOf, Current, MinuteWindow, DayWindow, DayOf, Key
  <2>2. CASE Begun(k[2])
    <3>1. k = <<c, DayWindow(now)>>
      BY <1>1, <1>2, <2>1, <2>2 DEF Begun, MinuteWindow, DayWindow
    <3> QED
      BY <3>1 DEF CurrentCountsExact, KeysOf, Current
  <2>3. CASE ~ Begun(k[2])
    BY <2>1, <2>3 DEF NothingAhead, Get
  <2> QED
    BY <2>2, <2>3
<1>6. ServedWithinQuota'
  BY <1>1 DEF ServedWithinQuota, LimitOf
<1> QED
  BY <1>3, <1>4, <1>5, <1>6

LEMMA RestartQuota ==
  ASSUME QuotaInv, Restart
  PROVE  QuotaInv'
<1> USE DEF QuotaInv
<1>1. DOMAIN counters' = {} /\ served' = [k \in Key |-> 0] /\ now' = now /\ now \in Minute
  BY DEF Restart, CountersOK
<1>2. \A c \in Caller : KeysOf(c) \subseteq Key /\ KeysOf(c)' = KeysOf(c)
  BY <1>1, KeysTyped DEF KeysOf, Current
<1>3. CurrentCountsExact'
  BY <1>1, <1>2 DEF CurrentCountsExact, Get
<1>4. ServedWithinQuota'
  BY <1>1, LimitAssumption DEF ServedWithinQuota, LimitOf
<1> QED
  BY <1>1, <1>3, <1>4 DEF CountersOK, NothingAhead

LEMMA MemoryQuotaStep == QuotaInv /\ [MemoryNext]_memoryVars => QuotaInv'
<1> SUFFICES ASSUME QuotaInv, [MemoryNext]_memoryVars PROVE QuotaInv'
  OBVIOUS
<1>1. CASE UNCHANGED memoryVars
  BY <1>1 DEF memoryVars, QuotaInv, CountersOK, NothingAhead, Begun, CurrentCountsExact, KeysOf,
     Current, Get, ServedWithinQuota, LimitOf
<1> QED
  BY <1>1, AdmitQuota, RefuseQuota, TickQuota, RestartQuota DEF MemoryNext

(* The dictionary holds counts, of windows that have begun. *)
THEOREM MemoryTypeCorrect == MemorySpec => []CountersOK
<1>1. QuotaInv => CountersOK
  BY DEF QuotaInv
<1> QED
  BY <1>1, InitQuota, MemoryQuotaStep, PTL DEF MemorySpec

(* Between two starts of the process the quota of every minute and day     *)
(* holds, whenever the table is pruned.                                    *)
THEOREM QuotaHolds == MemorySpec => []ServedWithinQuota
<1>1. QuotaInv => ServedWithinQuota
  BY DEF QuotaInv
<1> QED
  BY <1>1, InitQuota, MemoryQuotaStep, PTL DEF MemorySpec

(* Pruning never loses a count of the current minute or day: a request is  *)
(* refused only when its window is used up.                                *)
THEOREM PruningIsSafe == MemorySpec => []CurrentCountsExact
<1>1. QuotaInv => CurrentCountsExact
  BY DEF QuotaInv
<1> QED
  BY <1>1, InitQuota, MemoryQuotaStep, PTL DEF MemorySpec

-----------------------------------------------------------------------------
(* The size of the dictionary *)

(* All counters of current windows. *)
Live == Caller \X Current

LEMMA TwoElements ==
  ASSUME NEW a, NEW b, a # b
  PROVE  IsFiniteSet({a, b}) /\ Cardinality({a, b}) = 2
<1>1. IsFiniteSet({a}) /\ Cardinality({a}) = 1
  BY FS_Singleton
<1>2. /\ IsFiniteSet({a} \cup {b})
      /\ Cardinality({a} \cup {b}) = IF b \in {a} THEN Cardinality({a}) ELSE Cardinality({a}) + 1
  BY <1>1, FS_AddElement
<1>3. {a, b} = {a} \cup {b} /\ b \notin {a}
  OBVIOUS
<1> QED
  BY <1>1, <1>2, <1>3

LEMMA LiveCount ==
  ASSUME IsFiniteSet(Caller), now \in Minute
  PROVE  IsFiniteSet(Live) /\ Cardinality(Live) = Cardinality(Caller) * 2
<1>1. IsFiniteSet(Current) /\ Cardinality(Current) = 2
  BY CurrentWindows, TwoElements DEF Current
<1> QED
  BY <1>1, FS_Product DEF Live

(* The same of the next state. *)
LEMMA LiveCountNext ==
  (IsFiniteSet(Caller) /\ now \in Minute =>
     IsFiniteSet(Live) /\ Cardinality(Live) = Cardinality(Caller) * 2)'
<1>1. IsFiniteSet(Caller) /\ now \in Minute =>
        IsFiniteSet(Live) /\ Cardinality(Live) = Cardinality(Caller) * 2
  BY LiveCount
<1> QED
  BY <1>1, PTL

(* One element more, and so the two keys of a request. *)
LEMMA OneMore ==
  ASSUME NEW S, NEW x, IsFiniteSet(S)
  PROVE  /\ IsFiniteSet(S \cup {x})
         /\ Cardinality(S) \in Nat /\ Cardinality(S \cup {x}) \in Nat
         /\ Cardinality(S \cup {x}) <= Cardinality(S) + 1
<1>1. /\ IsFiniteSet(S \cup {x})
      /\ Cardinality(S \cup {x}) = IF x \in S THEN Cardinality(S) ELSE Cardinality(S) + 1
  BY FS_AddElement
<1>2. Cardinality(S) \in Nat
  BY FS_CardinalityType
<1> QED
  BY <1>1, <1>2

LEMMA TwoKeys ==
  ASSUME NEW c \in Caller, NEW S, IsFiniteSet(S)
  PROVE  /\ IsFiniteSet(S \cup KeysOf(c))
         /\ Cardinality(S) \in Nat /\ Cardinality(S \cup KeysOf(c)) \in Nat
         /\ Cardinality(S \cup KeysOf(c)) <= Cardinality(S) + 2
<1>1. PICK m, d : m = <<c, MinuteWindow(now)>> /\ d = <<c, DayWindow(now)>>
  OBVIOUS
<1>2. S \cup KeysOf(c) = (S \cup {m}) \cup {d}
  BY <1>1 DEF KeysOf, Current
<1>3. PICK T : T = S \cup {m}
  OBVIOUS
<1>4. PICK U : U = T \cup {d}
  OBVIOUS
<1>5. /\ IsFiniteSet(T) /\ Cardinality(T) <= Cardinality(S) + 1
      /\ Cardinality(S) \in Nat /\ Cardinality(T) \in Nat
  BY <1>3, OneMore
<1>6. IsFiniteSet(U) /\ Cardinality(U) <= Cardinality(T) + 1 /\ Cardinality(U) \in Nat
  BY <1>4, <1>5, OneMore
<1>7. Cardinality(U) <= Cardinality(S) + 2
  BY <1>5, <1>6
<1> QED
  BY <1>2, <1>3, <1>4, <1>5, <1>6, <1>7

SizeInv == IsFiniteSet(DOMAIN counters) /\ MemoryBounded

(* What is left after pruning fits, and so it does with two keys more. *)
LEMMA PrunedSize ==
  ASSUME CountersOK, IsFiniteSet(Caller), SizeInv, NEW c \in Caller
  PROVE  \A S \in {DOMAIN Pruned, DOMAIN Pruned \cup KeysOf(c)} :
           /\ IsFiniteSet(S)
           /\ Cardinality(S) <= PruneThreshold + 2 \/ Cardinality(S) <= Cardinality(Live)
<1>0. now \in Minute /\ IsFiniteSet(Live) /\ Cardinality(Live) \in Nat
  BY LiveCount, FS_CardinalityType DEF CountersOK
<1>1. CASE Cardinality(DOMAIN counters) > PruneThreshold
  <2>1. DOMAIN Pruned \subseteq Live
    BY <1>1 DEF Pruned, DropStale, Live, CountersOK, Key
  <2>2. DOMAIN Pruned \cup KeysOf(c) \subseteq Live
    BY <2>1 DEF KeysOf, Live
  <2> QED
    BY <1>0, <2>1, <2>2, FS_Subset
<1>2. CASE ~ (Cardinality(DOMAIN counters) > PruneThreshold)
  <2>1. /\ IsFiniteSet(DOMAIN counters) /\ Cardinality(DOMAIN counters) \in Nat
        /\ Cardinality(DOMAIN counters) <= PruneThreshold /\ DOMAIN Pruned = DOMAIN counters
    BY <1>2, PruneAssumption, FS_CardinalityType DEF SizeInv, Pruned
  <2>2. /\ IsFiniteSet(DOMAIN counters \cup KeysOf(c))
        /\ Cardinality(DOMAIN counters \cup KeysOf(c)) <= Cardinality(DOMAIN counters) + 2
        /\ Cardinality(DOMAIN counters \cup KeysOf(c)) \in Nat
    BY <2>1, TwoKeys
  <2>3. Cardinality(DOMAIN counters \cup KeysOf(c)) <= PruneThreshold + 2
        /\ Cardinality(DOMAIN counters) <= PruneThreshold + 2
    BY <2>1, <2>2, PruneAssumption
  <2> QED
    BY <2>1, <2>2, <2>3
<1> QED
  BY <1>1, <1>2

LEMMA SizeStep ==
  ASSUME CountersOK, CountersOK', IsFiniteSet(Caller), SizeInv, [MemoryNext]_memoryVars
  PROVE  SizeInv'
<1>1. now \in Minute /\ now' \in Minute
  BY DEF CountersOK
<1>2. Cardinality(Live) = Cardinality(Caller) * 2
  BY <1>1, LiveCount
<1>3. ASSUME UNCHANGED <<now, counters>> PROVE SizeInv'
  BY <1>3 DEF SizeInv, MemoryBounded, Current
<1>4. ASSUME NEW c \in Caller, Admit(c) \/ Refuse(c) PROVE SizeInv'
  <2>1. DOMAIN counters' \in {DOMAIN Pruned, DOMAIN Pruned \cup KeysOf(c)} /\ now' = now
    BY <1>4 DEF Admit, Refuse, Charged
  <2>2. IsFiniteSet(DOMAIN counters')
        /\ \/ Cardinality(DOMAIN counters') <= PruneThreshold + 2
           \/ Cardinality(DOMAIN counters') <= Cardinality(Live)
    BY <2>1, PrunedSize
  <2> QED
    BY <2>1, <2>2 DEF SizeInv, MemoryBounded, Live, Current
<1>5. ASSUME Restart PROVE SizeInv'
  <2>1. DOMAIN counters' = {}
    BY <1>5 DEF Restart
  <2> QED
    BY <2>1, FS_EmptySet, PruneAssumption DEF SizeInv, MemoryBounded
<1>6. CASE MemoryTick
  <2>1. counters' = counters
    BY <1>6 DEF MemoryTick
  <2>2. Cardinality(Live)' = Cardinality(Caller) * 2
    BY <1>1, LiveCountNext
  <2> QED
    BY <1>2, <2>1, <2>2 DEF SizeInv, MemoryBounded, Live
<1> QED
  BY <1>3, <1>4, <1>5, <1>6 DEF MemoryNext, memoryVars

(* The dictionary never grows past the threshold by more than the two      *)
(* counters of one request, or past two counters per caller.               *)
THEOREM MemoryStaysBounded ==
  ASSUME IsFiniteSet(Caller)
  PROVE  MemorySpec => []MemoryBounded
<1>1. MemoryInit => SizeInv
  <2> SUFFICES ASSUME MemoryInit PROVE SizeInv
    OBVIOUS
  <2>1. DOMAIN counters = {}
    BY DEF MemoryInit
  <2> QED
    BY <2>1, FS_EmptySet, PruneAssumption DEF SizeInv, MemoryBounded
<1>2. CountersOK /\ CountersOK' /\ SizeInv /\ [MemoryNext]_memoryVars => SizeInv'
  BY SizeStep
<1>3. SizeInv => MemoryBounded
  BY DEF SizeInv
<1> QED
  BY <1>1, <1>2, <1>3, MemoryTypeCorrect, PTL DEF MemorySpec

(* The dictionary, through its pruning, serves exactly what the abstract   *)
(* quota admits, by the minute and the day of the clock; only a restart of *)
(* the process is no step of it (rate_limiter.py:51-80).                   *)
MemoryFW == INSTANCE FixedWindow WITH used <- served

(* Every step of the in-memory limiter but a restart is one of the quota's. *)
THEOREM MemoryServesFixedWindow ==
  MemorySpec => MemoryFW!Init /\ [][MemoryFW!Next \/ Restart]_(MemoryFW!vars)
<1>1. MemoryInit => MemoryFW!Init
  BY DEF MemoryInit, MemoryFW!Init, MemoryFW!Window, MemoryFW!Minute, Window, Minute, Key
<1>2. QuotaInv /\ [MemoryNext]_memoryVars => [MemoryFW!Next \/ Restart]_(MemoryFW!vars)
  <2> SUFFICES ASSUME QuotaInv, [MemoryNext]_memoryVars
               PROVE  [MemoryFW!Next \/ Restart]_(MemoryFW!vars)
    OBVIOUS
  <2>1. ASSUME NEW c \in Caller, Admit(c) PROVE MemoryFW!Next
    <3>1. PICK a, b : a = <<c, MinuteWindow(now)>> /\ b = <<c, DayWindow(now)>>
      OBVIOUS
    <3>2. /\ now \in Minute /\ now \in 0 .. now /\ served \in [Key -> Nat]
          /\ KeysOf(c) = {a, b} /\ KeysOf(c) \subseteq Key
      BY <3>1, KeysTyped DEF QuotaInv, CountersOK, KeysOf, Current, Minute
    <3>3. a # b /\ LimitOf(a[2]) = RpmLimit /\ LimitOf(b[2]) = RpdLimit
      BY <3>1 DEF LimitOf, MinuteWindow, DayWindow
    <3>4. served[a] < RpmLimit /\ served[b] < RpdLimit
      <4>1. \A k \in KeysOf(c) : Get(Pruned, k) < LimitOf(k[2]) /\ Get(Pruned, k) = served[k]
        BY <2>1, PrunedCounts DEF Admit, RoomFor, QuotaInv
      <4> QED
        BY <3>2, <3>3, <4>1
    <3>5. served' = [served EXCEPT ![a] = @ + 1, ![b] = @ + 1] /\ now' = now
      <4>1. served' = [k \in Key |-> IF k \in {a, b} THEN served[k] + 1 ELSE served[k]]
            /\ now' = now
        BY <2>1, <3>2 DEF Admit
      <4> QED
        BY <3>2, <3>3, <4>1
    <3>6. MemoryFW!Admit(c, now)
      BY <3>1, <3>2, <3>4, <3>5 DEF MemoryFW!Admit, MemoryFW!MinuteWindow,
         MemoryFW!DayWindow, MemoryFW!DayOf, MinuteWindow, DayWindow, DayOf
    <3> QED
      BY <3>2, <3>6 DEF MemoryFW!Next, MemoryFW!Minute, Minute
  <2>2. ASSUME NEW c \in Caller, Refuse(c) PROVE UNCHANGED MemoryFW!vars
    BY <2>2 DEF Refuse, MemoryFW!vars
  <2>3. ASSUME MemoryTick PROVE MemoryFW!Next
    BY <2>3 DEF MemoryTick, MemoryFW!Next, MemoryFW!Tick
  <2>4. ASSUME UNCHANGED memoryVars PROVE UNCHANGED MemoryFW!vars
    BY <2>4 DEF memoryVars, MemoryFW!vars
  <2> QED
    BY <2>1, <2>2, <2>3, <2>4 DEF MemoryNext
<1> QED
  BY <1>1, <1>2, InitQuota, MemoryQuotaStep, PTL DEF MemorySpec

==============================================================================
