------------------------------- MODULE Reaper -------------------------------
(* The task reaper (manager/orchestrator/taskreaper): it deletes the tasks  *)
(* of a slot beyond the history to keep, and tasks desired REMOVE once they *)
(* have ended.                                                              *)
(*                                                                          *)
(*   reaper.dirty    slots a task was created in                            *)
(*   reaper.cleanup  tasks desired REMOVE that have ended                   *)
(*   reaper.doomed   tasks tick has decided to delete                       *)
EXTENDS ServiceStore

taskInTerminalState(t) == t.state > TaskStateRunning

taskWillNeverRun(t) == t.state < TaskStateAssigned /\ ~Wanted(t)

(* Mutated form of HistoryLimit: the history a new leader needs to count    *)
(* the restarts is not kept.                                                *)
HistoryLimitAttempts ==
  IF left.attempts > 0 THEN left.attempts ELSE left.history

(* One more than MaxAttempts, for a new leader to count the restarts.       *)
HistoryLimit == IF left.attempts > 0 THEN left.attempts + 1 ELSE left.history

(* Of the tasks of a slot, from the oldest status on, those that can go     *)
(* until the limit is met; the others met on the way count as running.      *)
Excess(k) ==
  LET s == db.recent[k]
      Old(p) == taskInTerminalState(db.tasks[s[p]])
                \/ taskWillNeverRun(db.tasks[s[p]])
      OldUpTo(p) == Cardinality({q \in 1..p : Old(q)})
      surplus == Len(s) - HistoryLimit
  IN  [delete |-> {s[p] : p \in {q \in 1..Len(s) : Old(q) /\ OldUpTo(q) <= surplus}},
       running |-> Cardinality({p \in 1..Len(s) :
                                  ~Old(p) /\ OldUpTo(p) < surplus})]

Historic == db.service.exists /\ ~IsJob

(* tick, the part that reads the store: a slot stays dirty while it has     *)
(* more than one task running.  No history is found for jobs.               *)
ReaperView ==
  /\ reaper.dirty # {} \/ reaper.cleanup # {}
  /\ reaper.doomed = {}
  /\ reaper' =
       [dirty |-> {k \in reaper.dirty :
                     Historic /\ Excess(k).running > 1},
        cleanup |-> {},
        doomed |-> reaper.cleanup \cup
           UNION {Excess(k).delete : k \in {j \in reaper.dirty : Historic}}]
  /\ UNCHANGED <<db, queue, sup, upd, orch, left>>

(* tick, the part that deletes.                                             *)
ReaperBatch ==
  /\ reaper.doomed # {}
  /\ CommitBy(DeleteTasks(db, reaper.doomed), sup, upd,
              [reaper EXCEPT !.doomed = {}])
  /\ UNCHANGED <<orch, left>>

(* Run, on a new leader: tasks desired REMOVE are cleaned up at once.       *)
NewReaper(d) ==
  [dirty |-> {}, cleanup |-> {i \in DOMAIN d.tasks : Reapable(d.tasks[i])},
   doomed |-> {}]
=============================================================================
