------------------------------ MODULE Windows ------------------------------
(***************************************************************************)
(* The fixed windows that every quota of app/services/rate_limiter.py is   *)
(* kept by: the minute and the day of a request, and the limit of each.    *)
(***************************************************************************)
EXTENDS Naturals

CONSTANTS
  Caller,         \* the (user_id, endpoint) pairs a quota is kept for
  RpmLimit,       \* settings.rate_limit_rpm
  RpdLimit,       \* settings.rate_limit_rpd
  MinutesPerDay,  \* minute windows in one day window
  MaxMinute       \* bound: the last minute the clock reaches

ASSUME LimitAssumption == RpmLimit \in Nat /\ RpdLimit \in Nat
ASSUME ClockAssumption == MinutesPerDay \in Nat \ {0} /\ MaxMinute \in Nat

VARIABLE now    \* the clock, in minutes

Minute == 0 .. MaxMinute
DayOf(m) == m \div MinutesPerDay

(* window_minute is the minute, or the literal "day" in the day's row. *)
MinuteWindow(m) == [kind |-> "minute", at |-> m]
(* mutant: the day counted under tomorrow's date *)
DayWindowTomorrow(m) == [kind |-> "day", at |-> DayOf(m) + 1]
DayWindow(m) == [kind |-> "day", at |-> DayOf(m)]
Window == [kind : {"minute", "day"}, at : Minute]
LimitOf(win) == IF win.kind = "minute" THEN RpmLimit ELSE RpdLimit
=============================================================================
