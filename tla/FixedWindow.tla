---------------------------- MODULE FixedWindow ----------------------------
(***************************************************************************)
(* What a fixed-window quota promises, without saying how it is stored:    *)
(* an admission charges the caller's minute and the caller's day in one    *)
(* step, and only while both have room.  RateLimiter (app/services/        *)
(* rate_limiter.py, check_rate_limit) is checked and proved to implement   *)
(* this specification when one gateway process runs.                       *)
(***************************************************************************)
EXTENDS Windows

VARIABLE used   \* how much of its quota each caller has used, window by window

Init ==
  /\ now = 0
  /\ used = [k \in Caller \X Window |-> 0]

(* A request of caller c that arrived in minute m, which may just be over. *)
Admit(c, m) ==
  /\ m \in 0 .. now
  /\ used[<<c, MinuteWindow(m)>>] < RpmLimit
  /\ used[<<c, DayWindow(m)>>] < RpdLimit
  /\ used' = [used EXCEPT ![<<c, MinuteWindow(m)>>] = @ + 1,
                          ![<<c, DayWindow(m)>>] = @ + 1]
  /\ UNCHANGED now

Tick ==
  /\ now < MaxMinute
  /\ now' = now + 1
  /\ UNCHANGED used

Next == Tick \/ \E c \in Caller, m \in Minute : Admit(c, m)

vars == <<now, used>>

Spec == Init /\ [][Next]_vars
=============================================================================
