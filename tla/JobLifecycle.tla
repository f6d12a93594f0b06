---------------------------- MODULE JobLifecycle ----------------------------
(***************************************************************************)
(* What the two job tables promise their readers.  A job starts out queued *)
(* or processing, moves only forward, carries a result from the moment it  *)
(* is completed, and never leaves completed or failed.  TextToSpeech and   *)
(* SpeechToText are shown to implement it.  A row shows when its INSERT is *)
(* committed, and its id is older: rows may show in any order of their     *)
(* ids, and an id whose INSERT is rolled back never shows.                 *)
(***************************************************************************)
EXTENDS Naturals

CONSTANT MaxJobs   \* bound: rows in the table

VARIABLES
  status,   \* the status column, "absent" before the row exists
  result    \* whether the row carries what the job was to produce

Job == 1 .. MaxJobs

Init ==
  /\ status = [j \in Job |-> "absent"]
  /\ result = [j \in Job |-> FALSE]

Move(j, from, to) ==
  /\ status[j] \in from
  /\ status' = [status EXCEPT ![j] = to]

Submit(j) ==
  /\ \E to \in {"queued", "processing"} : Move(j, {"absent"}, to)
  /\ UNCHANGED result

Start(j) == Move(j, {"queued"}, "processing") /\ UNCHANGED result

Complete(j) ==
  /\ Move(j, {"processing"}, "completed")
  /\ result' = [result EXCEPT ![j] = TRUE]

Fail(j) == Move(j, {"queued", "processing"}, "failed") /\ UNCHANGED result

Next == \E j \in Job : Submit(j) \/ Start(j) \/ Complete(j) \/ Fail(j)

Spec == Init /\ [][Next]_<<status, result>>
=============================================================================
