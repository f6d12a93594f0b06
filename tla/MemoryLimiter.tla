---------------------------- MODULE MemoryLimiter ----------------------------
(***************************************************************************)
(* check_rate_limit_in_memory of app/services/rate_limiter.py: the quota   *)
(* of the llm endpoint (chat, translate and the web sockets), kept in a    *)
(* dictionary of the process.  The check holds the lock throughout and     *)
(* reads the clock once, so it is one step.  The dictionary is pruned when *)
(* it has grown past a threshold and is lost when the process restarts.    *)
(***************************************************************************)
EXTENDS Windows, FiniteSets

CONSTANT PruneThreshold  \* _IN_MEMORY_PRUNE_THRESHOLD

ASSUME PruneAssumption == PruneThreshold \in Nat

VARIABLES
  counters,   \* _in_memory_counters
  served      \* history: requests let through since the process started

memoryVars == <<now, counters, served>>

Current == {MinuteWindow(now), DayWindow(now)}

Key == Caller \X Window
KeysOf(c) == {<<c, win>> : win \in Current}

MemoryInit ==
  /\ now = 0
  /\ counters = [k \in {} |-> 0]
  /\ served = [k \in Key |-> 0]

Get(table, k) == IF k \in DOMAIN table THEN table[k] ELSE 0

(* _prune_in_memory_counters *)
DropStale(table) == [k \in {x \in DOMAIN table : x[2] \in Current} |-> table[k]]

(* mutant: the threshold is never reached *)
NeverPruned == counters
Pruned ==
  IF Cardinality(DOMAIN counters) > PruneThreshold THEN DropStale(counters) ELSE counters

(* mutant: the day's count is not compared *)
RoomThisMinute(table, c) == Get(table, <<c, MinuteWindow(now)>>) < RpmLimit
RoomFor(table, c) == \A k \in KeysOf(c) : Get(table, k) < LimitOf(k[2])

Charged(table, c) ==
  [k \in DOMAIN table \cup KeysOf(c) |->
     IF k \in KeysOf(c) THEN Get(table, k) + 1 ELSE table[k]]

Admit(c) ==
  /\ RoomFor(Pruned, c)
  /\ counters' = Charged(Pruned, c)
  /\ served' = [k \in Key |-> IF k \in KeysOf(c) THEN served[k] + 1 ELSE served[k]]
  /\ UNCHANGED now

(* HTTP 429.  The pruning stays done. *)
Refuse(c) ==
  /\ ~ RoomFor(Pruned, c)
  /\ counters' = Pruned
  /\ UNCHANGED <<now, served>>

MemoryTick ==
  /\ now < MaxMinute
  /\ now' = now + 1
  /\ UNCHANGED <<counters, served>>

Restart ==
  /\ counters' = [k \in {} |-> 0]
  /\ served' = [k \in Key |-> 0]
  /\ UNCHANGED now

MemoryNext == MemoryTick \/ Restart \/ \E c \in Caller : Admit(c) \/ Refuse(c)

MemorySpec == MemoryInit /\ [][MemoryNext]_memoryVars

-----------------------------------------------------------------------------
(* Every variable has its type, and no window of the future is counted. *)
CountersOK ==
  /\ now \in Minute
  /\ DOMAIN counters \subseteq Key
  /\ \A k \in DOMAIN counters : counters[k] \in Nat /\ k[2].at <= now
  /\ served \in [Key -> Nat]

(* Between two starts of the process no caller is served more often in a   *)
(* minute, or on a day, than the limit says (rate_limiter.py:62-74),       *)
(* although counters are thrown away on the way.                           *)
ServedWithinQuota == \A k \in Key : served[k] <= LimitOf(k[2])

(* Pruning forgets nothing that still counts (rate_limiter.py:34-40,       *)
(* 58-60): in the current windows the table holds exactly what was served, *)
(* so nobody is served or refused by a wrong count.                        *)
CurrentCountsExact ==
  \A c \in Caller : \A k \in KeysOf(c) : Get(counters, k) = served[k]

(* "so the dict doesn't grow forever" (rate_limiter.py:35-36): it never    *)
(* holds more than two counters past the threshold, or the two windows of  *)
(* every caller if that is more.                                           *)
MemoryBounded ==
  \/ Cardinality(DOMAIN counters) <= PruneThreshold + 2
  \/ Cardinality(DOMAIN counters) <= Cardinality(Caller \X Current)
=============================================================================
