------------------------------ MODULE RaftStore ------------------------------
(***************************************************************************)
(* The replicated memory store of the managers: write transactions of      *)
(* MemoryStore (manager/state/store/memory.go), the proposals they make    *)
(* through processInternalRaftRequest and the wait table                   *)
(* (manager/state/raft/raft.go, wait.go), and the Run loop of each raft    *)
(* node, which applies committed entries to the store.                     *)
(*                                                                         *)
(* Two goroutines of a manager meet here.  The writer (one at a time: it   *)
(* holds updateLock) runs a transaction, registers in the wait table,      *)
(* checks signalledLeadership, calls Propose and waits.  The Run loop      *)
(* takes a Ready from etcd/raft, reacts to a change of leadership and      *)
(* applies the committed entries: an entry some waiter registered for is   *)
(* committed by the waiter's own transaction, any other entry by a new     *)
(* transaction, which needs updateLock.                                    *)
(*                                                                         *)
(* etcd/raft itself is external: a single committed log, the uncommitted   *)
(* tail of each node's log, and which nodes believe they lead.  The empty  *)
(* entry of a new term and membership changes do not touch the store and   *)
(* are left out; a store is represented by the sequence of the entries     *)
(* that have been applied to it.                                           *)
(***************************************************************************)
EXTENDS Naturals, Sequences

CONSTANTS
  Nodes,       \* the managers
  NoNode,      \* "no leader"
  Objects,     \* objects of the store
  MaxTerms,    \* bound: leader elections
  MaxTx,       \* bound: write transactions
  MaxCrashes,  \* bound: crashes and restarts
  MaxCancels   \* bound: calls of Node.Cancel (graceful shutdown of a manager)

ASSUME RaftStoreAssumption ==
  /\ NoNode \notin Nodes
  /\ Objects # {}
  /\ MaxTerms \in Nat /\ MaxTx \in Nat /\ MaxCrashes \in Nat /\ MaxCancels \in Nat

VARIABLES
  \* etcd/raft
  log,         \* the committed entries, the same for everyone
  leader,      \* the node that can commit, or NoNode
  raftLead,    \* [Nodes -> BOOLEAN] the raft instance is in StateLeader
  tail,        \* [Nodes -> Seq(Entry)] uncommitted entries of the node's log
  base,        \* [Nodes -> Nat] the length of log that tail follows
  \* the Run loop
  loop,        \* [Nodes -> where the Run loop is]
  target,      \* [Nodes -> Nat] last committed entry of the Ready in hand
  applied,     \* [Nodes -> Nat] appliedIndex
  wasLeader,   \* [Nodes -> BOOLEAN]
  signalled,   \* [Nodes -> BOOLEAN] signalledLeadership
  snap,        \* [Nodes -> snapshot on disk]
  \* the store and its writer
  store,       \* [Nodes -> Seq(Entry)] contents of memDB
  events,      \* [Nodes -> Seq(Entry)] what the watch queue has published
  tx,          \* [Nodes -> the transaction that holds updateLock]
  inWait,      \* [Nodes -> BOOLEAN] the transaction is in the wait table
  stopped,     \* [Nodes -> BOOLEAN] Node.Cancel has been called
  \* history and bounds
  acked,       \* ids of transactions whose Update returned nil
  late,        \* raft accepted a proposal of a node that had lost leadership
               \* after the proposal's check of signalledLeadership
  txs, terms, crashes, cancels

raftVars == <<log, leader, raftLead, tail, base>>
loopVars == <<loop, target, applied, wasLeader, signalled, snap>>
storeVars == <<store, events>>
writerVars == <<tx, inWait>>
boundVars == <<txs, terms, crashes, cancels>>
vars == <<raftVars, loopVars, storeVars, writerVars, stopped, acked, late, boundVars>>

-----------------------------------------------------------------------------
(* An entry is the change list of one transaction: which object it writes,  *)
(* the version it stamps on it (touchMeta), and, as history, how many       *)
(* entries the store held when the transaction read it.                     *)
Entry == [id : Nat, obj : Objects, ver : Nat, read : Nat]

TxPC == {"idle", "begun", "registered", "checked", "sent", "wait",
         "failed", "publish"}

(* A transaction in progress: the entry it will propose, the snapshot of    *)
(* the store it works on, its wait channel, its context and whether the     *)
(* token in commitGuard is still there.                                     *)
NoEntry == [id |-> 0, obj |-> CHOOSE o \in Objects : TRUE, ver |-> 0, read |-> 0]

NoTx == [pc |-> "idle", entry |-> NoEntry, view |-> <<>>,
         ch |-> "open", ctx |-> "live", guard |-> "taken"]

(* updateLock is held from BeginTx until the transaction returns.           *)
LockFree(n) == tx[n].pc = "idle"

(* Mutated form of RaftCommit: one past the end of the log. *)
RaftCommitOffByOne(n) == IF raftLead[n] THEN base[n] ELSE Len(log) + 1

(* Status().Commit of the node's raft instance.                             *)
RaftCommit(n) == IF raftLead[n] THEN base[n] ELSE Len(log)

LastIndex(n) == base[n] + Len(tail[n])

(* Mutated form of caughtUp: the check is left out. *)
caughtUpUnchecked(n) == n \in Nodes

caughtUp(n) == applied[n] >= LastIndex(n)

Init ==
  /\ log = <<>> /\ leader = NoNode
  /\ raftLead = [n \in Nodes |-> FALSE]
  /\ tail = [n \in Nodes |-> <<>>]
  /\ base = [n \in Nodes |-> 0]
  /\ loop = [n \in Nodes |-> "select"]
  /\ target = [n \in Nodes |-> 0]
  /\ applied = [n \in Nodes |-> 0]
  /\ wasLeader = [n \in Nodes |-> FALSE]
  /\ signalled = [n \in Nodes |-> FALSE]
  /\ snap = [n \in Nodes |-> [idx |-> 0, data |-> <<>>]]
  /\ store = [n \in Nodes |-> <<>>]
  /\ events = [n \in Nodes |-> <<>>]
  /\ tx = [n \in Nodes |-> NoTx]
  /\ inWait = [n \in Nodes |-> FALSE]
  /\ stopped = [n \in Nodes |-> FALSE]
  /\ acked = {} /\ late = FALSE
  /\ txs = 0 /\ terms = 0 /\ crashes = 0 /\ cancels = 0

-----------------------------------------------------------------------------
(* etcd/raft (external).                                                    *)

(* A new leader has every committed entry and a prefix of the uncommitted   *)
(* tail of some log that still follows the committed one.  To be elected a  *)
(* node must send vote requests, which leave it in a Ready of a node that   *)
(* is no longer leader: the Run loop has seen it lose leadership before.    *)
Elect(n) ==
  /\ terms < MaxTerms
  /\ ~raftLead[n] /\ ~wasLeader[n]
  /\ \E m \in Nodes :
       /\ base[m] = Len(log)
       /\ \E k \in 0..Len(tail[m]) :
            tail' = [tail EXCEPT ![n] = SubSeq(tail[m], 1, k)]
  /\ base' = [base EXCEPT ![n] = Len(log)]
  /\ leader' = n
  /\ raftLead' = [raftLead EXCEPT ![n] = TRUE]
  /\ terms' = terms + 1
  /\ UNCHANGED <<log, loopVars, storeVars, writerVars, stopped, acked, late,
                 txs, crashes, cancels>>

(* No quorum (CheckQuorum), or a higher term has been seen.                 *)
StepDown(n) ==
  /\ raftLead[n]
  /\ raftLead' = [raftLead EXCEPT ![n] = FALSE]
  /\ leader' = IF leader = n THEN NoNode ELSE leader
  /\ UNCHANGED <<log, tail, base, loopVars, storeVars, writerVars, stopped,
                 acked, late, boundVars>>

(* The leader commits the first entry of its tail.                          *)
Commit(n) ==
  /\ leader = n /\ tail[n] # <<>>
  /\ log' = Append(log, Head(tail[n]))
  /\ tail' = [tail EXCEPT ![n] = Tail(tail[n])]
  /\ base' = [base EXCEPT ![n] = base[n] + 1]
  /\ UNCHANGED <<leader, raftLead, loopVars, storeVars, writerVars, stopped,
                 acked, late, boundVars>>

-----------------------------------------------------------------------------
(* The writer: MemoryStore.update and processInternalRaftRequest.           *)

(* The change list of a transaction that writes object o, stamped with the  *)
(* version of GetVersion (touchMeta).                                       *)
NewEntry(n, o) ==
  [id |-> txs + 1, obj |-> o, ver |-> RaftCommit(n), read |-> Len(store[n])]

(* Take updateLock, read GetVersion, run the callback: here it updates one  *)
(* object, whose version in the caller's hand is the one in the store (any  *)
(* other version is ErrSequenceConflict and the transaction ends).          *)
BeginTx(n, o) ==
  /\ txs < MaxTx
  /\ LockFree(n)
  /\ txs' = txs + 1
  /\ tx' = [tx EXCEPT ![n] =
       [pc |-> "begun", entry |-> NewEntry(n, o), view |-> store[n],
        ch |-> "open", ctx |-> "live", guard |-> "there"]]
  /\ UNCHANGED <<raftVars, loopVars, storeVars, inWait, stopped, acked, late,
                 terms, crashes, cancels>>

(* wait.register                                                            *)
Register(n) ==
  /\ tx[n].pc = "begun"
  /\ tx' = [tx EXCEPT ![n].pc = "registered"]
  /\ inWait' = [inWait EXCEPT ![n] = TRUE]
  /\ UNCHANGED <<raftVars, loopVars, storeVars, stopped, acked, late, boundVars>>

(* wait.cancel and the error return: the wait is removed, its context       *)
(* cancelled and its channel closed, unless it was triggered before.        *)
FailTx(n) ==
  /\ tx' = [tx EXCEPT ![n] =
       IF inWait[n]
         THEN [@ EXCEPT !.pc = "failed", !.ctx = "cancelled", !.ch = "closed"]
         ELSE [@ EXCEPT !.pc = "failed"]]
  /\ inWait' = [inWait EXCEPT ![n] = FALSE]
  /\ UNCHANGED <<raftVars, loopVars, storeVars, stopped, acked, late, boundVars>>

(* Mutated form of CheckLeadership: the check is left out. *)
CheckLeadershipSkipped(n) ==
  /\ tx[n].pc = "registered"
  /\ tx' = [tx EXCEPT ![n].pc = "checked"]
  /\ UNCHANGED <<raftVars, loopVars, storeVars, inWait, stopped, acked, late,
                 boundVars>>

(* The check of signalledLeadership, made after registering.                *)
CheckLeadership(n) ==
  /\ tx[n].pc = "registered"
  /\ IF signalled[n]
       THEN /\ tx' = [tx EXCEPT ![n].pc = "checked"]
            /\ UNCHANGED <<raftVars, loopVars, storeVars, inWait, stopped,
                           acked, late, boundVars>>
       ELSE FailTx(n)

(* Marshalling fails, the request is too large, or raft drops the proposal. *)
ProposeRefused(n) ==
  /\ tx[n].pc = "checked"
  /\ FailTx(n)

(* Propose hands the entry to raft.  A leader appends it; a follower that   *)
(* knows a leader forwards it, and ProcessRaftMessage drops forwarded       *)
(* proposals; without a leader Propose blocks.  The select of Propose may   *)
(* still choose to send when the context is already cancelled.              *)
ProposeSend(n) ==
  /\ tx[n].pc = "checked"
  /\ raftLead[n] \/ leader # NoNode
  /\ tx' = [tx EXCEPT ![n].pc = "sent"]
  /\ tail' = IF raftLead[n]
               THEN [tail EXCEPT ![n] = Append(@, tx[n].entry)] ELSE tail
  /\ late' = (late \/ (raftLead[n] /\ ~(inWait[n] /\ signalled[n])))
  /\ UNCHANGED <<log, leader, raftLead, base, loopVars, storeVars, inWait,
                 stopped, acked, boundVars>>

(* Propose returns nil: the writer enters the select on its channel.        *)
ProposeReturn(n) ==
  /\ tx[n].pc = "sent"
  /\ tx' = [tx EXCEPT ![n].pc = "wait"]
  /\ UNCHANGED <<raftVars, loopVars, storeVars, inWait, stopped, acked, late,
                 boundVars>>

(* Propose returns ctx.Err(): its two selects both watch the context.       *)
ProposeCtxDone(n) ==
  /\ tx[n].pc \in {"checked", "sent"}
  /\ tx[n].ctx = "cancelled"
  /\ FailTx(n)

(* The context of a proposal is derived from Node.stopped by a goroutine of *)
(* WithContext, at some time after Node.Cancel.                             *)
CtxCancel(n) ==
  /\ stopped[n]
  /\ tx[n].pc \in {"begun", "registered", "checked", "sent", "wait"}
  /\ tx[n].ctx = "live"
  /\ tx' = [tx EXCEPT ![n].ctx = "cancelled"]
  /\ UNCHANGED <<raftVars, loopVars, storeVars, inWait, stopped, acked, late,
                 boundVars>>

(* Mutated form of WaitTriggered: a closed channel is taken for an answer. *)
WaitTriggeredOrClosed(n) ==
  /\ tx[n].pc = "wait" /\ tx[n].ch # "open"
  /\ tx' = [tx EXCEPT ![n].pc = "publish"]
  /\ UNCHANGED <<raftVars, loopVars, storeVars, inWait, stopped, acked, late,
                 boundVars>>

(* The select of processInternalRaftRequest: the wait was triggered, or its *)
(* channel is closed, or its context is done while it is still registered.  *)
WaitTriggered(n) ==
  /\ tx[n].pc = "wait" /\ tx[n].ch = "value"
  /\ tx' = [tx EXCEPT ![n].pc = "publish"]
  /\ UNCHANGED <<raftVars, loopVars, storeVars, inWait, stopped, acked, late,
                 boundVars>>

WaitCancelled(n) ==
  /\ tx[n].pc = "wait"
  /\ \/ tx[n].ch = "closed"
     \/ tx[n].ctx = "cancelled" /\ inWait[n]
  /\ FailTx(n)

(* The error path of update: take commitGuard and Abort, or find that the   *)
(* callback has taken it and committed; nothing is published either way.    *)
AbortTx(n) ==
  /\ tx[n].pc = "failed"
  /\ tx' = [tx EXCEPT ![n] = NoTx]
  /\ UNCHANGED <<raftVars, loopVars, storeVars, inWait, stopped, acked, late,
                 boundVars>>

(* The success path of update: publish the change list, release the lock.   *)
PublishTx(n) ==
  /\ tx[n].pc = "publish"
  /\ events' = [events EXCEPT ![n] = Append(@, tx[n].entry)]
  /\ acked' = acked \cup {tx[n].entry.id}
  /\ tx' = [tx EXCEPT ![n] = NoTx]
  /\ UNCHANGED <<raftVars, loopVars, store, inWait, stopped, late, boundVars>>
-----------------------------------------------------------------------------
(* The Run loop.                                                            *)

(* Take a Ready: the change of leadership if there is one, and committed    *)
(* entries.  A node that ceases to lead resets signalledLeadership first    *)
(* and then cancels every wait.  raft offers a Ready only when it has news. *)
TakeReady(n) ==
  /\ loop[n] = "select"
  /\ \E t \in applied[n]..RaftCommit(n) :
       /\ t > applied[n] \/ wasLeader[n] # raftLead[n]
       /\ target' = [target EXCEPT ![n] = t]
  /\ wasLeader' = [wasLeader EXCEPT ![n] = raftLead[n]]
  /\ IF wasLeader[n] /\ ~raftLead[n]
       THEN /\ signalled' = [signalled EXCEPT ![n] = FALSE]
            /\ loop' = [loop EXCEPT ![n] = "cancelAll"]
       ELSE /\ loop' = [loop EXCEPT ![n] = "apply"]
            /\ UNCHANGED signalled
  /\ UNCHANGED <<raftVars, applied, snap, storeVars, writerVars, stopped,
                 acked, late, boundVars>>

(* Mutated form of CancelWaits: the waits stay. *)
CancelNoWaits(n) == n \in Nodes /\ UNCHANGED <<tx, inWait>>

(* wait.cancelAll: remove the waiter, cancel its context, close its channel. *)
CancelWaits(n) ==
  /\ tx' = IF inWait[n]
             THEN [tx EXCEPT ![n] = [@ EXCEPT !.ctx = "cancelled", !.ch = "closed"]]
             ELSE tx
  /\ inWait' = [inWait EXCEPT ![n] = FALSE]

CancelAll(n) ==
  /\ loop[n] = "cancelAll"
  /\ CancelWaits(n)
  /\ loop' = [loop EXCEPT ![n] = "apply"]
  /\ UNCHANGED <<raftVars, target, applied, wasLeader, signalled, snap,
                 storeVars, stopped, acked, late, boundVars>>

NextEntry(n) == log[applied[n] + 1]

(* processEntry, first half of wait.trigger: the waiter for this entry is   *)
(* taken out of the table.                                                  *)
TriggerTake(n) ==
  /\ loop[n] = "apply" /\ applied[n] < target[n]
  /\ inWait[n] /\ tx[n].entry.id = NextEntry(n).id
  /\ inWait' = [inWait EXCEPT ![n] = FALSE]
  /\ loop' = [loop EXCEPT ![n] = "trigger"]
  /\ UNCHANGED <<raftVars, target, applied, wasLeader, signalled, snap,
                 storeVars, tx, stopped, acked, late, boundVars>>

(* Second half: run the callback, which commits the waiter's transaction if *)
(* commitGuard has not been taken by an abort, and send on the channel.     *)
TriggerRun(n) ==
  /\ loop[n] = "trigger"
  /\ IF tx[n].entry.id = NextEntry(n).id /\ tx[n].guard = "there"
       THEN /\ store' = [store EXCEPT ![n] = Append(tx[n].view, tx[n].entry)]
            /\ tx' = [tx EXCEPT ![n] = [@ EXCEPT !.guard = "taken", !.ch = "value"]]
       ELSE UNCHANGED <<store, tx>>
  /\ applied' = [applied EXCEPT ![n] = @ + 1]
  /\ loop' = [loop EXCEPT ![n] = "apply"]
  /\ UNCHANGED <<raftVars, target, wasLeader, signalled, snap, events, inWait,
                 stopped, acked, late, boundVars>>

(* No waiter for this entry: cancel whatever waits, then apply the entry in *)
(* a transaction of its own, once updateLock is free.                       *)
NoWaiter(n) ==
  /\ loop[n] = "apply" /\ applied[n] < target[n]
  /\ ~(inWait[n] /\ tx[n].entry.id = NextEntry(n).id)
  /\ CancelWaits(n)
  /\ loop' = [loop EXCEPT ![n] = "lock"]
  /\ UNCHANGED <<raftVars, target, applied, wasLeader, signalled, snap,
                 storeVars, stopped, acked, late, boundVars>>

(* Mutated form of ApplyStoreActions: nothing is published. *)
ApplyUnpublished(n) ==
  /\ loop[n] = "lock" /\ LockFree(n)
  /\ store' = [store EXCEPT ![n] = Append(@, NextEntry(n))]
  /\ applied' = [applied EXCEPT ![n] = @ + 1]
  /\ loop' = [loop EXCEPT ![n] = "apply"]
  /\ UNCHANGED <<raftVars, target, wasLeader, signalled, snap, events,
                 writerVars, stopped, acked, late, boundVars>>

ApplyStoreActions(n) ==
  /\ loop[n] = "lock" /\ LockFree(n)
  /\ store' = [store EXCEPT ![n] = Append(@, NextEntry(n))]
  /\ events' = [events EXCEPT ![n] = Append(@, NextEntry(n))]
  /\ applied' = [applied EXCEPT ![n] = @ + 1]
  /\ loop' = [loop EXCEPT ![n] = "apply"]
  /\ UNCHANGED <<raftVars, target, wasLeader, signalled, snap, writerVars,
                 stopped, acked, late, boundVars>>

(* The end of a Ready: a snapshot of the store as of appliedIndex may be    *)
(* triggered (needsSnapshot, SnapshotInterval), and a leader that has       *)
(* applied its whole log announces itself.                                  *)
EndReady(n) ==
  /\ loop[n] = "apply" /\ applied[n] = target[n]
  /\ loop' = [loop EXCEPT ![n] = "select"]
  /\ signalled' = [signalled EXCEPT ![n] =
       @ \/ (wasLeader[n] /\ caughtUp(n))]
  /\ \/ UNCHANGED snap
     \/ /\ applied[n] > snap[n].idx
        /\ snap' = [snap EXCEPT ![n] = [idx |-> applied[n], data |-> store[n]]]
  /\ UNCHANGED <<raftVars, target, applied, wasLeader, storeVars, writerVars,
                 stopped, acked, late, boundVars>>

(* Mutated form of InstallSnapshot: appliedIndex is not advanced. *)
InstallSnapshotKeepsIndex(n) ==
  /\ loop[n] = "select" /\ LockFree(n)
  /\ ~raftLead[n] /\ ~wasLeader[n] /\ leader # NoNode
  /\ snap[leader].idx > applied[n]
  /\ store' = [store EXCEPT ![n] = snap[leader].data]
  /\ events' = [events EXCEPT ![n] = snap[leader].data]
  /\ snap' = [snap EXCEPT ![n] = snap[leader]]
  /\ UNCHANGED <<raftVars, loop, target, applied, wasLeader, signalled,
                 writerVars, stopped, acked, late, boundVars>>

(* A lagging follower gets the leader's snapshot: saved to disk and         *)
(* restored into the store (updateLocal, under updateLock). That the        *)
(* restore fails, which Run only logs, is left out.                         *)
InstallSnapshot(n) ==
  /\ loop[n] = "select" /\ LockFree(n)
  /\ ~raftLead[n] /\ ~wasLeader[n] /\ leader # NoNode
  /\ snap[leader].idx > applied[n]
  /\ store' = [store EXCEPT ![n] = snap[leader].data]
  /\ events' = [events EXCEPT ![n] = snap[leader].data]
  /\ applied' = [applied EXCEPT ![n] = snap[leader].idx]
  /\ snap' = [snap EXCEPT ![n] = snap[leader]]
  /\ UNCHANGED <<raftVars, loop, target, wasLeader, signalled, writerVars,
                 stopped, acked, late, boundVars>>

(* The process dies and starts again from its snapshot and WAL              *)
(* (loadAndStart, JoinAndStart).                                            *)
CrashRestart(n) ==
  /\ crashes < MaxCrashes
  /\ crashes' = crashes + 1
  /\ raftLead' = [raftLead EXCEPT ![n] = FALSE]
  /\ leader' = IF leader = n THEN NoNode ELSE leader
  /\ loop' = [loop EXCEPT ![n] = "select"]
  /\ target' = [target EXCEPT ![n] = snap[n].idx]
  /\ applied' = [applied EXCEPT ![n] = snap[n].idx]
  /\ wasLeader' = [wasLeader EXCEPT ![n] = FALSE]
  /\ signalled' = [signalled EXCEPT ![n] = FALSE]
  /\ store' = [store EXCEPT ![n] = snap[n].data]
  /\ events' = [events EXCEPT ![n] = snap[n].data]
  /\ tx' = [tx EXCEPT ![n] = NoTx]
  /\ inWait' = [inWait EXCEPT ![n] = FALSE]
  /\ stopped' = [stopped EXCEPT ![n] = FALSE]
  /\ UNCHANGED <<log, tail, base, snap, acked, late, txs, terms, cancels>>

(* Node.Cancel, called when the manager shuts down.                         *)
Cancel(n) ==
  /\ cancels < MaxCancels
  /\ ~stopped[n]
  /\ cancels' = cancels + 1
  /\ stopped' = [stopped EXCEPT ![n] = TRUE]
  /\ UNCHANGED <<raftVars, loopVars, storeVars, writerVars, acked, late,
                 txs, terms, crashes>>

-----------------------------------------------------------------------------
WriterStep(n) ==
  \/ Register(n) \/ CheckLeadership(n) \/ ProposeRefused(n)
  \/ ProposeSend(n) \/ ProposeReturn(n) \/ ProposeCtxDone(n) \/ CtxCancel(n)
  \/ WaitTriggered(n) \/ WaitCancelled(n) \/ AbortTx(n) \/ PublishTx(n)

LoopStep(n) ==
  \/ TakeReady(n) \/ CancelAll(n) \/ TriggerTake(n) \/ TriggerRun(n)
  \/ NoWaiter(n) \/ ApplyStoreActions(n) \/ EndReady(n) \/ InstallSnapshot(n)

RaftStep(n) == Elect(n) \/ StepDown(n) \/ Commit(n)

Next ==
  \E n \in Nodes :
    \/ RaftStep(n) \/ WriterStep(n) \/ LoopStep(n)
    \/ \E o \in Objects : BeginTx(n, o)
    \/ CrashRestart(n) \/ Cancel(n)

(* What CheckQuorum gives: entries of a leader are committed or it steps    *)
(* down, and so does a node that leads no more.                             *)
QuorumStep(n) ==
  /\ tail[n] # <<>> \/ leader # n
  /\ StepDown(n) \/ Commit(n)

(* The Go scheduler runs every runnable goroutine.                          *)
Fairness ==
  \A n \in Nodes :
    /\ WF_vars(WriterStep(n))
    /\ WF_vars(LoopStep(n))
    /\ WF_vars(QuorumStep(n))

Spec == Init /\ [][Next]_vars
FairSpec == Spec /\ Fairness

-----------------------------------------------------------------------------
(* Properties.                                                              *)

Snapshot == [idx : 0..Len(log), data : Seq(Entry)]

Tx == [pc : TxPC, entry : Entry, view : Seq(Entry),
       ch : {"open", "closed", "value"}, ctx : {"live", "cancelled"},
       guard : {"there", "taken"}]

RaftTypeOK ==
  /\ log \in Seq(Entry)
  /\ leader \in Nodes \cup {NoNode}
  /\ tail \in [Nodes -> Seq(Entry)]
  /\ base \in [Nodes -> 0..Len(log)]

LoopTypeOK ==
  /\ loop \in [Nodes -> {"select", "cancelAll", "apply", "trigger", "lock"}]
  /\ target \in [Nodes -> 0..Len(log)]
  /\ applied \in [Nodes -> 0..Len(log)]
  /\ snap \in [Nodes -> Snapshot]

StoreTypeOK ==
  /\ store \in [Nodes -> Seq(Entry)]
  /\ events \in [Nodes -> Seq(Entry)]
  /\ tx \in [Nodes -> Tx]

FlagTypeOK ==
  /\ raftLead \in [Nodes -> BOOLEAN]
  /\ wasLeader \in [Nodes -> BOOLEAN]
  /\ signalled \in [Nodes -> BOOLEAN]
  /\ inWait \in [Nodes -> BOOLEAN]
  /\ stopped \in [Nodes -> BOOLEAN]
  /\ late \in BOOLEAN

CountTypeOK ==
  /\ acked \subseteq Nat
  /\ txs \in Nat /\ terms \in Nat /\ crashes \in Nat /\ cancels \in Nat

(* The variables have their types, and no index runs past the committed log. *)
TypeOK == RaftTypeOK /\ LoopTypeOK /\ StoreTypeOK /\ FlagTypeOK /\ CountTypeOK

Prefix(k) == SubSeq(log, 1, k)

(* The memory store of every manager, and the snapshot on its disk, hold    *)
(* exactly the committed entries up to their index: none skipped, none      *)
(* twice, whoever commits an entry, the waiting transaction or the Run loop *)
(* (as long as no manager has been told to shut down).                      *)
StoreFollowsLog ==
  cancels = 0 =>
    \A n \in Nodes : /\ store[n] = Prefix(applied[n])
                     /\ snap[n].data = Prefix(snap[n].idx)

(* Whoever holds updateLock (ViewAndWatch does) finds that every change in  *)
(* the store has been published, in order, and nothing else.                *)
EventsFollowStore ==
  cancels = 0 => \A n \in Nodes : LockFree(n) => events[n] = store[n]

(* Every committed entry was computed from the store that holds all the     *)
(* entries before it, and gives its object a version greater than all       *)
(* before, on which the ErrSequenceConflict check rests: in-flight          *)
(* proposals do not conflict, provided that no proposal slipped into raft   *)
(* in a later term than its leadership check, and no manager was shutting   *)
(* down.                                                                    *)
Serializable ==
  cancels = 0 /\ ~late =>
    /\ \A i \in DOMAIN log : log[i].read = i - 1
    /\ \A i, j \in DOMAIN log :
         i < j /\ log[i].obj = log[j].obj => log[i].ver < log[j].ver

(* An Update that returned nil is in the committed log and in the store of  *)
(* the log: it survives crashes, shutdowns and changes of leader.           *)
AckedDurable ==
  \A id \in acked : \E i \in DOMAIN log : log[i].id = id

(* The Run loop never waits for updateLock while the transaction holding it *)
(* waits for the Run loop (same provisos).                                  *)
Deadlocked(n) ==
  /\ loop[n] = "lock"
  /\ tx[n].pc = "wait" /\ tx[n].ch = "open" /\ tx[n].ctx = "live"

NoDeadlock == cancels = 0 /\ ~late => \A n \in Nodes : ~Deadlocked(n)

(* No transaction waits for ever: it commits, or the loss of leadership or  *)
(* the shutdown that makes it impossible ends it.                           *)
TxTerminates ==
  \A n \in Nodes : tx[n].pc # "idle" ~> tx[n].pc = "idle" \/ late

(* Every manager eventually applies all that is committed.                  *)
Converges == <>[](late \/ \A n \in Nodes : applied[n] = Len(log))

(* The claim of design/store.md: a manager may lag behind but never         *)
(* diverges, shutting down included.                                        *)
NeverDiverges == \A n \in Nodes : store[n] = Prefix(applied[n])

(* The comment of Run: waits are cancelled so that processCommitted does    *)
(* not deadlock.                                                            *)
RunLoopNeverDeadlocks == \A n \in Nodes : ~Deadlocked(n)

=============================================================================
