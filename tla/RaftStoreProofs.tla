--------------------------- MODULE RaftStoreProofs ---------------------------
(***************************************************************************)
(* Proofs about RaftStore, for any number of managers, terms, transactions *)
(* and crashes: types, what the stores and their events hold, what was     *)
(* acknowledged, then the order of what is committed and that writer and   *)
(* Run loop never wait for each other.                                     *)
(***************************************************************************)
EXTENDS RaftStore, SequenceTheorems, TLAPS

(* Where the Run loop is, its indices are consistent: an entry in hand is   *)
(* one that the Ready has.                                                  *)
LoopOK ==
  \A n \in Nodes :
    /\ loop[n] \in {"cancelAll", "apply"} => applied[n] <= target[n]
    /\ loop[n] \in {"trigger", "lock"} => applied[n] < target[n]

TypeInv == TypeOK /\ LoopOK

-----------------------------------------------------------------------------
(* Types.                                                                   *)

(* The empty transaction is a transaction.                                  *)
LEMMA NoTxType == NoTx \in Tx
<1>1. NoEntry \in Entry
  BY RaftStoreAssumption DEF NoEntry, Entry
<1>2. <<>> \in Seq(Entry)
  BY EmptySeq
<1> QED
  BY <1>1, <1>2 DEF NoTx, Tx, TxPC

(* The initial state is well typed.                                         *)
LEMMA TypeInit == Init => TypeInv
<1> SUFFICES ASSUME Init PROVE TypeInv
  OBVIOUS
<1>1. /\ <<>> \in Seq(Entry) /\ Len(<<>>) = 0
  BY EmptySeq
<1>2. RaftTypeOK
  BY <1>1 DEF Init, RaftTypeOK
<1>3. LoopTypeOK
  BY <1>1 DEF Init, LoopTypeOK, Snapshot
<1>4. StoreTypeOK
  BY <1>1, NoTxType DEF Init, StoreTypeOK
<1>5. FlagTypeOK
  BY Zenon DEF Init, FlagTypeOK
<1>6. CountTypeOK
  BY DEF Init, CountTypeOK
<1>7. LoopOK
  BY DEF Init, LoopOK
<1> QED
  BY <1>2, <1>3, <1>4, <1>5, <1>6, <1>7 DEF TypeInv, TypeOK

(* A prefix of a well-typed sequence is one.                                *)
LEMMA PrefixType ==
  ASSUME NEW S, NEW s \in Seq(S), NEW k \in 0..Len(s)
  PROVE  SubSeq(s, 1, k) \in Seq(S)
<1>1. Len(s) \in Nat /\ \A i \in 1..k : s[i] \in S
  BY LenProperties, ElementOfSeq
<1> QED BY <1>1, SubSeqProperties

(* A step of the external raft keeps the types.                             *)
LEMMA TypeRaft ==
  ASSUME TypeInv, NEW n \in Nodes, RaftStep(n)
  PROVE  TypeInv'
<1> USE DEF TypeInv, TypeOK
<1>1. CASE Elect(n)
  <2>1. tail' \in [Nodes -> Seq(Entry)]
    <3>1. PICK m \in Nodes : \E k \in 0..Len(tail[m]) :
            tail' = [tail EXCEPT ![n] = SubSeq(tail[m], 1, k)]
      BY <1>1 DEF Elect
    <3>2. PICK k \in 0..Len(tail[m]) :
            tail' = [tail EXCEPT ![n] = SubSeq(tail[m], 1, k)]
      BY <3>1
    <3>3. SubSeq(tail[m], 1, k) \in Seq(Entry)
      BY PrefixType DEF RaftTypeOK
    <3> QED BY <3>2, <3>3 DEF RaftTypeOK
  <2>2. RaftTypeOK'
    <3>1. Len(log) \in Nat
      BY LenProperties DEF RaftTypeOK
    <3> QED BY <1>1, <2>1, <3>1 DEF Elect, RaftTypeOK
  <2>3. FlagTypeOK'
    BY <1>1, Zenon DEF Elect, FlagTypeOK, loopVars, writerVars
  <2>4. LoopTypeOK' /\ LoopOK'
    BY <1>1 DEF Elect, LoopTypeOK, Snapshot, LoopOK, loopVars
  <2>5. StoreTypeOK' /\ CountTypeOK'
    BY <1>1 DEF Elect, StoreTypeOK, CountTypeOK, storeVars, writerVars
  <2> QED BY <2>2, <2>3, <2>4, <2>5
<1>2. CASE StepDown(n)
  <2>1. FlagTypeOK'
    BY <1>2, Zenon DEF StepDown, FlagTypeOK, loopVars, writerVars
  <2>2. RaftTypeOK' /\ LoopTypeOK' /\ StoreTypeOK' /\ CountTypeOK' /\ LoopOK'
    BY <1>2 DEF StepDown, RaftTypeOK, LoopTypeOK, Snapshot, StoreTypeOK,
                CountTypeOK, LoopOK, loopVars, storeVars, writerVars, boundVars
  <2> QED BY <2>1, <2>2
<1>3. CASE Commit(n)
  <2>1. /\ Head(tail[n]) \in Entry /\ Tail(tail[n]) \in Seq(Entry)
    BY <1>3, HeadTailProperties DEF Commit, RaftTypeOK
  <2>2. /\ log' \in Seq(Entry) /\ Len(log') = Len(log) + 1 /\ Len(log) \in Nat
    BY <1>3, <2>1, AppendProperties, LenProperties DEF Commit, RaftTypeOK
  <2>3. RaftTypeOK'
    BY <1>3, <2>1, <2>2 DEF Commit, RaftTypeOK
  <2>4. snap' \in [Nodes -> Snapshot']
    BY <1>3, <2>2 DEF Commit, loopVars, LoopTypeOK, Snapshot
  <2>5. /\ target' \in [Nodes -> 0..Len(log')]
        /\ applied' \in [Nodes -> 0..Len(log')]
    BY <1>3, <2>2 DEF Commit, loopVars, LoopTypeOK
  <2>6. LoopTypeOK' /\ LoopOK'
    BY <1>3, <2>4, <2>5 DEF Commit, LoopTypeOK, LoopOK, loopVars
  <2>7. StoreTypeOK' /\ CountTypeOK'
    BY <1>3 DEF Commit, StoreTypeOK, CountTypeOK, storeVars, writerVars, boundVars
  <2>8. FlagTypeOK'
    BY <1>3, Zenon DEF Commit, FlagTypeOK, loopVars, writerVars
  <2> QED BY <2>3, <2>6, <2>7, <2>8
<1> QED BY <1>1, <1>2, <1>3 DEF RaftStep

(* A step of a writer keeps the types: it touches the transaction, the wait *)
(* table, the tail of a leader's log and the events.                        *)
LEMMA TypeWriter ==
  ASSUME TypeInv, NEW n \in Nodes,
         WriterStep(n) \/ \E o \in Objects : BeginTx(n, o)
  PROVE  TypeInv'
<1> USE DEF TypeInv, TypeOK
<1>1. UNCHANGED <<log, leader, base, loopVars, store>>
  BY DEF WriterStep, BeginTx, Register, FailTx, CheckLeadership, ProposeRefused,
         ProposeSend, ProposeReturn, ProposeCtxDone, CtxCancel, WaitTriggered,
         WaitCancelled, AbortTx, PublishTx, raftVars, storeVars
<1>2. LoopTypeOK' /\ LoopOK'
  BY <1>1 DEF LoopTypeOK, LoopOK, loopVars, Snapshot
<1>3. tail' \in [Nodes -> Seq(Entry)]
  <2>1. CASE ProposeSend(n)
    <3>1. Append(tail[n], tx[n].entry) \in Seq(Entry)
      BY AppendProperties DEF RaftTypeOK, StoreTypeOK, Tx
    <3> QED BY <2>1, <3>1 DEF ProposeSend, RaftTypeOK
  <2>2. CASE ~ProposeSend(n)
    BY <2>2 DEF WriterStep, BeginTx, Register, FailTx, CheckLeadership,
         ProposeRefused, ProposeReturn, ProposeCtxDone, CtxCancel, WaitTriggered,
         WaitCancelled, AbortTx, PublishTx, raftVars, RaftTypeOK
  <2> QED BY <2>1, <2>2
<1>4. RaftTypeOK'
  BY <1>1, <1>3 DEF RaftTypeOK
<1>5. events' \in [Nodes -> Seq(Entry)] /\ CountTypeOK'
  <2>1. CASE PublishTx(n)
    <3>1. Append(events[n], tx[n].entry) \in Seq(Entry)
      BY AppendProperties DEF StoreTypeOK, Tx
    <3>2. tx[n].entry.id \in Nat
      BY DEF StoreTypeOK, Tx, Entry
    <3> QED BY <2>1, <3>1, <3>2 DEF PublishTx, StoreTypeOK, CountTypeOK, boundVars
  <2>2. CASE \E o \in Objects : BeginTx(n, o)
    BY <2>2 DEF BeginTx, storeVars, StoreTypeOK, CountTypeOK
  <2>3. CASE WriterStep(n) /\ ~PublishTx(n)
    BY <2>3 DEF WriterStep, Register, FailTx, CheckLeadership, ProposeRefused,
         ProposeSend, ProposeReturn, ProposeCtxDone, CtxCancel, WaitTriggered,
         WaitCancelled, AbortTx, storeVars, boundVars, StoreTypeOK, CountTypeOK
  <2> QED BY <2>1, <2>2, <2>3
<1>6. tx' \in [Nodes -> Tx]
  <2> USE DEF StoreTypeOK
  <2>1. CASE \E o \in Objects : BeginTx(n, o)
    <3>1. PICK o \in Objects : BeginTx(n, o)
      BY <2>1
    <3>2. RaftCommit(n) \in Nat /\ Len(store[n]) \in Nat
      BY LenProperties DEF RaftCommit, RaftTypeOK
    <3>3. NewEntry(n, o) \in Entry
      BY <3>2 DEF NewEntry, Entry, CountTypeOK
    <3> QED BY <3>1, <3>3 DEF BeginTx, Tx, TxPC
  <2>2. CASE FailTx(n)
    <3>1. CASE inWait[n]
      <4>1. tx' = [tx EXCEPT ![n] = [@ EXCEPT !.pc = "failed",
                      !.ctx = "cancelled", !.ch = "closed"]]
        BY <2>2, <3>1 DEF FailTx
      <4> QED BY <4>1, ZenonT(40) DEF Tx, TxPC
    <3>2. CASE ~inWait[n]
      <4>1. tx' = [tx EXCEPT ![n] = [@ EXCEPT !.pc = "failed"]]
        BY <2>2, <3>2 DEF FailTx
      <4> QED BY <4>1, ZenonT(40) DEF Tx, TxPC
    <3> QED BY <3>1, <3>2
  <2>3. CASE AbortTx(n) \/ PublishTx(n)
    BY <2>3, NoTxType DEF AbortTx, PublishTx
  <2>4. CASE Register(n)
    BY <2>4, ZenonT(40) DEF Register, Tx, TxPC
  <2>5. CASE CheckLeadership(n) /\ signalled[n]
    <3>1. tx' = [tx EXCEPT ![n].pc = "checked"]
      BY <2>5, Zenon DEF CheckLeadership
    <3> QED BY <3>1, ZenonT(40) DEF Tx, TxPC
  <2>6. CASE ProposeSend(n)
    BY <2>6, ZenonT(40) DEF ProposeSend, Tx, TxPC
  <2>7. CASE ProposeReturn(n)
    BY <2>7, ZenonT(40) DEF ProposeReturn, Tx, TxPC
  <2>8. CASE CtxCancel(n)
    BY <2>8, ZenonT(40) DEF CtxCancel, Tx
  <2>9. CASE WaitTriggered(n)
    BY <2>9, ZenonT(40) DEF WaitTriggered, Tx, TxPC
  <2> QED
    BY <2>1, <2>2, <2>3, <2>4, <2>5, <2>6, <2>7, <2>8, <2>9
    DEF WriterStep, CheckLeadership, ProposeRefused, ProposeCtxDone, WaitCancelled
<1>7. StoreTypeOK'
  BY <1>1, <1>5, <1>6 DEF StoreTypeOK
<1>8. /\ UNCHANGED <<raftLead, wasLeader, signalled, stopped>>
      /\ late' \in BOOLEAN
      /\ inWait' \in [Nodes -> BOOLEAN]
  <2> USE DEF FlagTypeOK
  <2>1. CASE FailTx(n)
    BY <2>1, Zenon DEF FailTx, raftVars, loopVars
  <2>2. CASE \E o \in Objects : BeginTx(n, o)
    BY <2>2, Zenon DEF BeginTx, raftVars, loopVars
  <2>3. CASE Register(n)
    BY <2>3, Zenon DEF Register, raftVars, loopVars
  <2>4. CASE CheckLeadership(n) /\ ~FailTx(n)
    BY <2>4, Zenon DEF CheckLeadership, raftVars, loopVars
  <2>5. CASE ProposeSend(n)
    BY <2>5, Zenon DEF ProposeSend, raftVars, loopVars
  <2>6. CASE ProposeReturn(n)
    BY <2>6, Zenon DEF ProposeReturn, raftVars, loopVars
  <2>7. CASE CtxCancel(n)
    BY <2>7, Zenon DEF CtxCancel, raftVars, loopVars
  <2>8. CASE WaitTriggered(n)
    BY <2>8, Zenon DEF WaitTriggered, raftVars, loopVars
  <2>9. CASE AbortTx(n)
    BY <2>9, Zenon DEF AbortTx, raftVars, loopVars
  <2>10. CASE PublishTx(n)
    BY <2>10, Zenon DEF PublishTx, raftVars, loopVars
  <2> QED
    BY <2>1, <2>2, <2>3, <2>4, <2>5, <2>6, <2>7, <2>8, <2>9, <2>10, Zenon
    DEF WriterStep, ProposeRefused, ProposeCtxDone, WaitCancelled
<1>9. FlagTypeOK'
  BY <1>8, Zenon DEF FlagTypeOK
<1> QED BY <1>2, <1>4, <1>5, <1>7, <1>9

(* A step of the Run loop keeps the types.                                  *)
LEMMA TypeLoop ==
  ASSUME TypeInv, NEW n \in Nodes, LoopStep(n)
  PROVE  TypeInv'
<1> USE DEF TypeInv, TypeOK
<1>1. UNCHANGED <<raftVars, stopped, acked, late, boundVars>>
  BY DEF LoopStep, TakeReady, CancelAll, TriggerTake, TriggerRun, NoWaiter,
         ApplyStoreActions, EndReady, InstallSnapshot
<1>2. RaftTypeOK' /\ CountTypeOK'
  BY <1>1 DEF RaftTypeOK, CountTypeOK, raftVars, boundVars
<1>3. CancelWaits(n) => tx' \in [Nodes -> Tx] /\ inWait' \in [Nodes -> BOOLEAN]
  <2>1. ASSUME CancelWaits(n) PROVE inWait' \in [Nodes -> BOOLEAN]
    BY <2>1, Zenon DEF CancelWaits, FlagTypeOK
  <2>2. ASSUME CancelWaits(n), inWait[n] PROVE tx' \in [Nodes -> Tx]
    <3>1. tx' = [tx EXCEPT ![n] = [@ EXCEPT !.ctx = "cancelled", !.ch = "closed"]]
      BY <2>2 DEF CancelWaits
    <3> QED BY <3>1, ZenonT(40) DEF StoreTypeOK, Tx
  <2>3. ASSUME CancelWaits(n), ~inWait[n] PROVE tx' \in [Nodes -> Tx]
    BY <2>3 DEF CancelWaits, StoreTypeOK
  <2> QED BY <2>1, <2>2, <2>3
<1>4. Len(log) \in Nat
  BY LenProperties DEF RaftTypeOK
<1>5. LoopTypeOK' /\ LoopOK'
  <2>1. CASE TakeReady(n)
    <3>1. PICK t \in applied[n]..RaftCommit(n) : target' = [target EXCEPT ![n] = t]
      BY <2>1 DEF TakeReady
    <3>2. t \in 0..Len(log) /\ applied[n] <= t
      BY <1>4, <3>1 DEF RaftCommit, RaftTypeOK, LoopTypeOK
    <3>3. \/ loop' = [loop EXCEPT ![n] = "cancelAll"]
          \/ loop' = [loop EXCEPT ![n] = "apply"]
      BY <2>1 DEF TakeReady
    <3>4. UNCHANGED <<log, applied, snap>>
      BY <2>1 DEF TakeReady, raftVars
    <3> QED BY <3>1, <3>2, <3>3, <3>4 DEF LoopTypeOK, LoopOK, Snapshot
  <2>2. CASE CancelAll(n)
    BY <2>2 DEF CancelAll, raftVars, LoopTypeOK, LoopOK, Snapshot
  <2>3. CASE TriggerTake(n) \/ NoWaiter(n)
    BY <2>3 DEF TriggerTake, NoWaiter, raftVars, LoopTypeOK, LoopOK, Snapshot
  <2>4. CASE TriggerRun(n) \/ ApplyStoreActions(n)
    <3>1. /\ applied' = [applied EXCEPT ![n] = @ + 1]
          /\ loop' = [loop EXCEPT ![n] = "apply"]
          /\ UNCHANGED <<log, target, snap>>
      BY <2>4 DEF TriggerRun, ApplyStoreActions, raftVars
    <3>2. applied[n] < target[n]
      BY <2>4 DEF TriggerRun, ApplyStoreActions, LoopOK
    <3> QED BY <1>4, <3>1, <3>2 DEF LoopTypeOK, LoopOK, Snapshot
  <2>5. CASE EndReady(n)
    <3>1. \/ snap' = snap
          \/ snap' = [snap EXCEPT ![n] = [idx |-> applied[n], data |-> store[n]]]
      BY <2>5 DEF EndReady
    <3>2. snap' \in [Nodes -> Snapshot]
      <4>1. [idx |-> applied[n], data |-> store[n]] \in Snapshot
        BY DEF LoopTypeOK, StoreTypeOK, Snapshot
      <4> QED BY <3>1, <4>1 DEF LoopTypeOK
    <3>3. loop' = [loop EXCEPT ![n] = "select"] /\ UNCHANGED <<log, target, applied>>
      BY <2>5 DEF EndReady, raftVars
    <3> QED BY <3>2, <3>3 DEF LoopTypeOK, LoopOK, Snapshot
  <2>6. CASE InstallSnapshot(n)
    <3>1. /\ applied' = [applied EXCEPT ![n] = snap[leader].idx]
          /\ snap' = [snap EXCEPT ![n] = snap[leader]]
          /\ loop[n] = "select" /\ leader \in Nodes
          /\ UNCHANGED <<log, loop, target>>
      BY <2>6 DEF InstallSnapshot, raftVars, RaftTypeOK
    <3>2. snap[leader] \in Snapshot
      BY <3>1 DEF LoopTypeOK
    <3>3. snap[leader].idx \in 0..Len(log)
      BY <3>2 DEF Snapshot
    <3> QED BY <3>1, <3>2, <3>3 DEF LoopTypeOK, LoopOK, Snapshot
  <2> QED BY <2>1, <2>2, <2>3, <2>4, <2>5, <2>6 DEF LoopStep
<1>6. StoreTypeOK'
  <2> USE DEF StoreTypeOK
  <2>1. CASE TakeReady(n) \/ TriggerTake(n) \/ EndReady(n)
    BY <2>1 DEF TakeReady, TriggerTake, EndReady, storeVars, writerVars
  <2>2. CASE CancelAll(n) \/ NoWaiter(n)
    BY <1>3, <2>2 DEF CancelAll, NoWaiter, storeVars
  <2>3. CASE TriggerRun(n)
    <3>1. Append(tx[n].view, tx[n].entry) \in Seq(Entry)
      BY AppendProperties DEF Tx
    <3>2. \/ UNCHANGED <<store, tx>>
          \/ /\ store' = [store EXCEPT ![n] = Append(tx[n].view, tx[n].entry)]
             /\ tx' = [tx EXCEPT ![n] = [@ EXCEPT !.guard = "taken", !.ch = "value"]]
      BY <2>3 DEF TriggerRun
    <3>3. tx' \in [Nodes -> Tx]
      <4>1. CASE UNCHANGED tx
        BY <4>1
      <4>2. CASE tx' = [tx EXCEPT ![n] = [@ EXCEPT !.guard = "taken", !.ch = "value"]]
        BY <4>2, ZenonT(40) DEF Tx
      <4> QED BY <3>2, <4>1, <4>2
    <3>4. store' \in [Nodes -> Seq(Entry)]
      BY <3>1, <3>2
    <3> QED BY <2>3, <3>3, <3>4 DEF TriggerRun
  <2>4. CASE ApplyStoreActions(n)
    <3>1. applied[n] + 1 \in 1..Len(log)
      BY <1>4, <2>4 DEF ApplyStoreActions, LoopOK, LoopTypeOK
    <3>2. NextEntry(n) \in Entry
      BY <3>1, ElementOfSeq DEF NextEntry, RaftTypeOK
    <3>3. /\ Append(store[n], NextEntry(n)) \in Seq(Entry)
          /\ Append(events[n], NextEntry(n)) \in Seq(Entry)
      BY <3>2, AppendProperties
    <3> QED BY <2>4, <3>3 DEF ApplyStoreActions, writerVars
  <2>5. CASE InstallSnapshot(n)
    <3>1. snap[leader].data \in Seq(Entry)
      BY <2>5 DEF InstallSnapshot, RaftTypeOK, LoopTypeOK, Snapshot
    <3> QED BY <2>5, <3>1 DEF InstallSnapshot, writerVars
  <2> QED BY <2>1, <2>2, <2>3, <2>4, <2>5 DEF LoopStep
<1>7. FlagTypeOK'
  <2> USE DEF FlagTypeOK
  <2>1. UNCHANGED <<raftLead, stopped, late>>
    BY <1>1, Zenon DEF raftVars
  <2>2. CASE TakeReady(n)
    BY <2>1, <2>2, Zenon DEF TakeReady, writerVars
  <2>3. CASE CancelAll(n)
    BY <1>3, <2>1, <2>3, Zenon DEF CancelAll
  <2>4. CASE TriggerTake(n)
    BY <2>1, <2>4, Zenon DEF TriggerTake
  <2>5. CASE TriggerRun(n)
    BY <2>1, <2>5, Zenon DEF TriggerRun
  <2>6. CASE NoWaiter(n)
    BY <1>3, <2>1, <2>6, Zenon DEF NoWaiter
  <2>7. CASE ApplyStoreActions(n)
    BY <2>1, <2>7, Zenon DEF ApplyStoreActions, writerVars
  <2>8. CASE EndReady(n)
    BY <2>1, <2>8, Zenon DEF EndReady, writerVars
  <2>9. CASE InstallSnapshot(n)
    BY <2>1, <2>9, Zenon DEF InstallSnapshot, writerVars
  <2> QED
    BY <2>2, <2>3, <2>4, <2>5, <2>6, <2>7, <2>8, <2>9, Zenon DEF LoopStep
<1> QED BY <1>2, <1>5, <1>6, <1>7

(* Restarts and shutdowns keep the types.                                   *)
LEMMA TypeFault ==
  ASSUME TypeInv, NEW n \in Nodes, CrashRestart(n) \/ Cancel(n)
  PROVE  TypeInv'
<1> USE DEF TypeInv, TypeOK
<1>1. CASE CrashRestart(n)
  <2>1. snap[n].idx \in 0..Len(log) /\ snap[n].data \in Seq(Entry)
    BY DEF LoopTypeOK, Snapshot
  <2>2. RaftTypeOK' /\ CountTypeOK'
    BY <1>1 DEF CrashRestart, RaftTypeOK, CountTypeOK
  <2>3. LoopTypeOK' /\ LoopOK'
    BY <1>1, <2>1 DEF CrashRestart, LoopTypeOK, LoopOK, Snapshot
  <2>4. StoreTypeOK'
    BY <1>1, <2>1, NoTxType DEF CrashRestart, StoreTypeOK
  <2>5. FlagTypeOK'
    BY <1>1, Zenon DEF CrashRestart, FlagTypeOK
  <2> QED BY <2>2, <2>3, <2>4, <2>5
<1>2. CASE Cancel(n)
  <2>1. FlagTypeOK'
    BY <1>2, Zenon DEF Cancel, FlagTypeOK, raftVars, loopVars, writerVars
  <2>2. RaftTypeOK' /\ LoopTypeOK' /\ LoopOK'
    BY <1>2 DEF Cancel, RaftTypeOK, LoopTypeOK, LoopOK, Snapshot, raftVars, loopVars
  <2>3. StoreTypeOK' /\ CountTypeOK'
    BY <1>2 DEF Cancel, StoreTypeOK, CountTypeOK, storeVars, writerVars
  <2> QED BY <2>1, <2>2, <2>3
<1> QED BY <1>1, <1>2

(* Steps that leave every variable alone keep any invariant.                *)
LEMMA TypeStutter == TypeInv /\ UNCHANGED vars => TypeInv'
<1> SUFFICES ASSUME TypeInv, UNCHANGED vars PROVE TypeInv'
  OBVIOUS
<1> USE DEF TypeInv, TypeOK, vars
<1>1. RaftTypeOK' /\ LoopTypeOK' /\ LoopOK'
  BY DEF RaftTypeOK, LoopTypeOK, LoopOK, Snapshot, raftVars, loopVars
<1>2. StoreTypeOK' /\ CountTypeOK'
  BY DEF StoreTypeOK, CountTypeOK, storeVars, writerVars, boundVars
<1>3. FlagTypeOK'
  BY Zenon DEF FlagTypeOK, raftVars, loopVars, writerVars
<1> QED BY <1>1, <1>2, <1>3

(* Every step keeps the types and the bounds of the Run loop's indices.     *)
LEMMA TypeNext == TypeInv /\ [Next]_vars => TypeInv'
<1> SUFFICES ASSUME TypeInv, [Next]_vars PROVE TypeInv'
  OBVIOUS
<1>1. CASE UNCHANGED vars
  BY <1>1, TypeStutter
<1>2. CASE Next
  BY <1>2, TypeRaft, TypeWriter, TypeLoop, TypeFault DEF Next
<1> QED BY <1>1, <1>2

(* TypeOK: the types of the state of the managers, and that no index of the *)
(* Run loop or of a snapshot runs past the committed log.                   *)
THEOREM TypeCorrect == Spec => []TypeOK
<1>1. Spec => []TypeInv
  BY TypeInit, TypeNext, PTL DEF Spec
<1>2. TypeInv => TypeOK
  BY DEF TypeInv
<1> QED BY <1>1, <1>2, PTL

-----------------------------------------------------------------------------
(* The inductive invariant of the store.                                    *)

LogEntries == {log[i] : i \in 1..Len(log)}
TailEntries(n) == {tail[n][i] : i \in 1..Len(tail[n])}

(* What raft has been given: the committed and the uncommitted entries.     *)
Sent == LogEntries \cup UNION {TailEntries(n) : n \in Nodes}

(* An entry that raft holds under the id of a running transaction is the    *)
(* entry of that transaction, which has been proposed; ids are not reused.  *)
IdOK ==
  /\ \A e \in Sent : e.id <= txs
  /\ \A n \in Nodes : tx[n].entry.id <= txs
  /\ \A n \in Nodes : tx[n].pc # "idle" => \A e \in Sent :
       e.id = tx[n].entry.id =>
         /\ e = tx[n].entry
         /\ tx[n].pc \notin {"begun", "registered", "checked"}
  /\ \A m, n \in Nodes :
       m # n /\ tx[m].pc # "idle" /\ tx[n].pc # "idle"
         => tx[m].entry.id # tx[n].entry.id

(* A registered waiter is live; a waiter the Run loop has taken out of the  *)
(* table stays as it is until its callback has run.                         *)
WaitOK(n) ==
  /\ ~stopped[n]
  /\ tx[n].pc = "begun" => tx[n].ch = "open" /\ tx[n].ctx = "live"
  /\ inWait[n] => /\ tx[n].pc \in {"registered", "checked", "sent", "wait"}
                  /\ tx[n].ch = "open" /\ tx[n].ctx = "live"
                  /\ tx[n].guard = "there"
  /\ loop[n] = "trigger" =>
       /\ tx[n].pc \in {"sent", "wait"} /\ ~inWait[n]
       /\ tx[n].ch = "open" /\ tx[n].ctx = "live" /\ tx[n].guard = "there"
       /\ tx[n].entry.id = NextEntry(n).id

(* While commitGuard is there the transaction works on the current store;   *)
(* once it is taken the store is ahead of the published events by exactly   *)
(* the entry of the transaction.                                            *)
GuardOK(n) ==
  /\ tx[n].pc = "idle" => tx[n] = NoTx /\ events[n] = store[n]
  /\ tx[n].guard = "there" =>
       /\ tx[n].pc \notin {"idle", "publish"} /\ tx[n].ch # "value"
       /\ tx[n].view = store[n] /\ events[n] = store[n]
  /\ tx[n].pc # "idle" /\ tx[n].guard = "taken" =>
       /\ tx[n].pc \in {"sent", "wait", "publish"}
       /\ tx[n].ch = "value" /\ tx[n].ctx = "live" /\ ~inWait[n]
       /\ store[n] = Append(events[n], tx[n].entry)

(* The store and the snapshot are prefixes of the log.                      *)
CopyOK(n) ==
  /\ store[n] = Prefix(applied[n])
  /\ snap[n].data = Prefix(snap[n].idx)

NodeOK(n) == WaitOK(n) /\ GuardOK(n) /\ CopyOK(n)

StoreInv ==
  /\ TypeInv /\ IdOK
  /\ cancels = 0 => \A n \in Nodes : NodeOK(n)

(* Appending to a sequence does not change its prefixes.                    *)
LEMMA PrefixOfAppend ==
  ASSUME NEW S, NEW s \in Seq(S), NEW e \in S, NEW k \in 0..Len(s)
  PROVE  SubSeq(Append(s, e), 1, k) = SubSeq(s, 1, k)
<1> DEFINE t == Append(s, e)
<1>1. /\ t \in Seq(S) /\ Len(t) = Len(s) + 1 /\ Len(s) \in Nat
      /\ \A i \in 1..Len(s) : t[i] = s[i]
  BY AppendProperties, LenProperties
<1>2. SubSeq(s, 1, k) \in Seq(S) /\ SubSeq(t, 1, k) \in Seq(S)
  BY <1>1, PrefixType
<1>3. \A i \in 1..k : s[i] \in S /\ t[i] \in S /\ s[i] = t[i]
  BY <1>1, ElementOfSeq
<1>4. /\ Len(SubSeq(s, 1, k)) = k /\ \A i \in 1..k : SubSeq(s, 1, k)[i] = s[i]
      /\ Len(SubSeq(t, 1, k)) = k /\ \A i \in 1..k : SubSeq(t, 1, k)[i] = t[i]
  <2>1. k \in Int /\ 1 \in Int
    BY <1>1
  <2> QED BY <1>1, <1>3, <2>1, SubSeqProperties
<1>5. \A i \in 1..Len(SubSeq(t, 1, k)) : SubSeq(t, 1, k)[i] = SubSeq(s, 1, k)[i]
  BY <1>3, <1>4
<1> HIDE DEF t
<1>6. SubSeq(t, 1, k) = SubSeq(s, 1, k)
  BY <1>2, <1>4, <1>5, SeqEqual
<1> QED BY <1>6 DEF t

(* The next prefix is the prefix with the next element.                     *)
LEMMA PrefixNext ==
  ASSUME NEW S, NEW s \in Seq(S), NEW k \in Nat, k < Len(s)
  PROVE  Append(SubSeq(s, 1, k), s[k + 1]) = SubSeq(s, 1, k + 1)
<1>1. Len(s) \in Nat /\ k + 1 \in 1..Len(s) /\ k \in 0..Len(s)
  BY LenProperties
<1>2. s[k + 1] \in S /\ SubSeq(s, 1, k) \in Seq(S)
  BY <1>1, ElementOfSeq, PrefixType
<1>3. SubSeq(s, 1, k + 1) = SubSeq(s, 1, (k + 1) - 1) \o <<s[k + 1]>>
  <2>1. 1 \in 1..Len(s) /\ k + 1 \in 1..Len(s)
    BY <1>1
  <2> QED BY <2>1, SubSeqRecursiveSecond
<1>4. (k + 1) - 1 = k
  OBVIOUS
<1>5. Append(SubSeq(s, 1, k), s[k + 1]) = SubSeq(s, 1, k) \o <<s[k + 1]>>
  BY <1>2, AppendIsConcat
<1> QED BY <1>3, <1>4, <1>5

(* Raft moves entries about and loses some; it invents none.                *)
LEMMA SentRaft ==
  ASSUME TypeInv, NEW n \in Nodes, RaftStep(n)
  PROVE  Sent' \subseteq Sent
<1> USE DEF TypeInv, TypeOK, RaftTypeOK
<1>1. CASE Elect(n)
  <2>1. PICK m \in Nodes : \E k \in 0..Len(tail[m]) :
          tail' = [tail EXCEPT ![n] = SubSeq(tail[m], 1, k)]
    BY <1>1 DEF Elect
  <2>2. PICK k \in 0..Len(tail[m]) :
          tail' = [tail EXCEPT ![n] = SubSeq(tail[m], 1, k)]
    BY <2>1
  <2>3. Len(tail[m]) \in Nat /\ \A i \in 1..k : tail[m][i] \in Entry
    BY LenProperties, ElementOfSeq
  <2>4. /\ Len(SubSeq(tail[m], 1, k)) = k
        /\ \A i \in 1..k : SubSeq(tail[m], 1, k)[i] = tail[m][i]
    BY <2>3, SubSeqProperties
  <2>5. TailEntries(n)' \subseteq TailEntries(m)
    BY <2>2, <2>3, <2>4 DEF TailEntries
  <2>6. \A l \in Nodes : l # n => TailEntries(l)' = TailEntries(l)
    BY <2>2 DEF TailEntries
  <2>7. LogEntries' = LogEntries
    BY <1>1 DEF Elect, LogEntries
  <2> QED BY <2>5, <2>6, <2>7 DEF Sent
<1>2. CASE StepDown(n)
  BY <1>2 DEF StepDown, Sent, LogEntries, TailEntries
<1>3. CASE Commit(n)
  <2>1. tail[n] # <<>> /\ tail[n] \in Seq(Entry)
    BY <1>3 DEF Commit
  <2>2. /\ Len(tail[n]) \in Nat \ {0} /\ Head(tail[n]) = tail[n][1]
        /\ Head(tail[n]) \in Entry
        /\ Len(Tail(tail[n])) = Len(tail[n]) - 1
        /\ \A i \in 1..Len(Tail(tail[n])) : Tail(tail[n])[i] = tail[n][i + 1]
    BY <2>1, HeadTailProperties, EmptySeq
  <2>3. TailEntries(n)' \subseteq TailEntries(n)
    BY <1>3, <2>2 DEF Commit, TailEntries
  <2>4. Head(tail[n]) \in TailEntries(n)
    BY <2>2 DEF TailEntries
  <2>5. /\ Len(log') = Len(log) + 1 /\ log'[Len(log) + 1] = Head(tail[n])
        /\ Len(log) \in Nat
        /\ \A i \in 1..Len(log) : log'[i] = log[i]
    BY <1>3, <2>2, AppendProperties, LenProperties DEF Commit
  <2>6. LogEntries' \subseteq LogEntries \cup {Head(tail[n])}
    <3> SUFFICES ASSUME NEW e \in LogEntries'
                 PROVE  e \in LogEntries \/ e = Head(tail[n])
      OBVIOUS
    <3>1. PICK i \in 1..Len(log') : e = log'[i]
      BY DEF LogEntries
    <3>2. CASE i \in 1..Len(log)
      BY <2>5, <3>1, <3>2 DEF LogEntries
    <3>3. CASE i = Len(log) + 1
      BY <2>5, <3>1, <3>3
    <3> QED BY <2>5, <3>2, <3>3
  <2>7. \A l \in Nodes : l # n => TailEntries(l)' = TailEntries(l)
    BY <1>3 DEF Commit, TailEntries
  <2> QED BY <2>3, <2>4, <2>6, <2>7 DEF Sent
<1> QED BY <1>1, <1>2, <1>3 DEF RaftStep

(* Every step but a proposal leaves raft no entry it did not have; a        *)
(* proposal adds the entry of its transaction.                              *)
LEMMA SentWriter ==
  ASSUME TypeInv, NEW n \in Nodes,
         WriterStep(n) \/ \E o \in Objects : BeginTx(n, o)
  PROVE  Sent' \subseteq Sent \cup (IF ProposeSend(n) THEN {tx[n].entry} ELSE {})
<1>1. CASE ProposeSend(n)
  <2>1. log' = log /\ (tail' = tail \/ tail' = [tail EXCEPT ![n] = Append(@, tx[n].entry)])
    BY <1>1 DEF ProposeSend
  <2>2. tx[n].entry \in Entry /\ tail[n] \in Seq(Entry) /\ tail \in [Nodes -> Seq(Entry)]
    BY DEF TypeInv, TypeOK, StoreTypeOK, RaftTypeOK, Tx
  <2>3. /\ Len(Append(tail[n], tx[n].entry)) = Len(tail[n]) + 1
        /\ Len(tail[n]) \in Nat
        /\ Append(tail[n], tx[n].entry)[Len(tail[n]) + 1] = tx[n].entry
        /\ \A i \in 1..Len(tail[n]) : Append(tail[n], tx[n].entry)[i] = tail[n][i]
    BY <2>2, AppendProperties, LenProperties
  <2>4. TailEntries(n)' \subseteq TailEntries(n) \cup {tx[n].entry}
    <3>1. CASE tail' = tail
      BY <3>1 DEF TailEntries
    <3>2. CASE tail' = [tail EXCEPT ![n] = Append(@, tx[n].entry)]
      <4> SUFFICES ASSUME NEW e \in TailEntries(n)'
                   PROVE  e \in TailEntries(n) \/ e = tx[n].entry
        OBVIOUS
      <4>1. tail'[n] = Append(tail[n], tx[n].entry)
        BY <2>2, <3>2
      <4>2. PICK i \in 1..Len(tail'[n]) : e = tail'[n][i]
        BY DEF TailEntries
      <4>3. CASE i \in 1..Len(tail[n])
        BY <2>3, <4>1, <4>2, <4>3 DEF TailEntries
      <4>4. CASE i = Len(tail[n]) + 1
        BY <2>3, <4>1, <4>2, <4>4
      <4> QED BY <2>3, <4>1, <4>3, <4>4
    <3> QED BY <2>1, <3>1, <3>2
  <2>5. \A m \in Nodes : m # n => TailEntries(m)' = TailEntries(m)
    BY <2>1, <2>2 DEF TailEntries
  <2>6. LogEntries' = LogEntries
    BY <2>1 DEF LogEntries
  <2> QED BY <1>1, <2>4, <2>5, <2>6 DEF Sent
<1>2. CASE ~ProposeSend(n)
  <2>1. log' = log /\ tail' = tail
    BY <1>2 DEF WriterStep, BeginTx, Register, FailTx, CheckLeadership,
         ProposeRefused, ProposeReturn, ProposeCtxDone, CtxCancel, WaitTriggered,
         WaitCancelled, AbortTx, PublishTx, raftVars
  <2> QED BY <1>2, <2>1 DEF Sent, LogEntries, TailEntries
<1> QED BY <1>1, <1>2

(* The entries raft holds have the type of entries.                         *)
LEMMA SentType == TypeInv => Sent \subseteq Entry
<1> SUFFICES ASSUME TypeInv PROVE Sent \subseteq Entry
  OBVIOUS
<1>1. LogEntries \subseteq Entry
  BY ElementOfSeq DEF TypeInv, TypeOK, RaftTypeOK, LogEntries
<1>2. ASSUME NEW n \in Nodes PROVE TailEntries(n) \subseteq Entry
  <2>1. tail[n] \in Seq(Entry)
    BY DEF TypeInv, TypeOK, RaftTypeOK
  <2> QED BY <2>1, ElementOfSeq DEF TailEntries
<1> QED BY <1>1, <1>2 DEF Sent

(* A step that gives raft nothing new and whose transactions keep their     *)
(* entries, do not go back and may end, keeps IdOK.                         *)
LEMMA IdFrame ==
  ASSUME TypeInv, IdOK, Sent' \subseteq Sent, txs' = txs,
         \A n \in Nodes :
           \/ tx'[n].entry = NoEntry /\ tx'[n].pc = "idle"
           \/ /\ tx'[n].entry = tx[n].entry
              /\ tx[n].pc # "idle" \/ tx'[n].pc = "idle"
              /\ tx'[n].pc \in {"begun", "registered", "checked"} =>
                   tx[n].pc \in {"begun", "registered", "checked"}
  PROVE  IdOK'
<1>1. \A e \in Sent' : e.id <= txs'
  BY DEF IdOK
<1>2. \A n \in Nodes : tx'[n].entry.id <= txs'
  <2>1. NoEntry.id = 0 /\ txs \in Nat
    BY DEF NoEntry, TypeInv, TypeOK, CountTypeOK
  <2>2. NoEntry.id <= txs
    BY <2>1
  <2> QED BY <2>2 DEF IdOK
<1>3. \A n \in Nodes : tx'[n].pc # "idle" =>
        tx'[n].entry = tx[n].entry /\ tx[n].pc # "idle"
  OBVIOUS
<1>4. \A n \in Nodes : tx'[n].pc # "idle" => \A e \in Sent' :
       e.id = tx'[n].entry.id =>
         /\ e = tx'[n].entry
         /\ tx'[n].pc \notin {"begun", "registered", "checked"}
  BY <1>3 DEF IdOK
<1>5. \A m, n \in Nodes :
       m # n /\ tx'[m].pc # "idle" /\ tx'[n].pc # "idle"
         => tx'[m].entry.id # tx'[n].entry.id
  BY <1>3 DEF IdOK
<1> QED BY <1>1, <1>2, <1>4, <1>5 DEF IdOK

(* Every step keeps the entries and their ids apart.                        *)
LEMMA IdNext == TypeInv /\ IdOK /\ [Next]_vars => IdOK'
<1> SUFFICES ASSUME TypeInv, IdOK, [Next]_vars PROVE IdOK'
  OBVIOUS
<1> USE DEF TypeInv, TypeOK
<1>0. tx \in [Nodes -> Tx] /\ txs \in Nat
  BY DEF StoreTypeOK, CountTypeOK
<1>1. CASE UNCHANGED vars
  <2>1. UNCHANGED <<tx, txs, log, tail>>
    BY <1>1 DEF vars, writerVars, boundVars, raftVars
  <2>2. Sent' = Sent
    BY <2>1 DEF Sent, LogEntries, TailEntries
  <2> QED BY <2>1, <2>2, IdFrame
<1>2. ASSUME NEW n \in Nodes, RaftStep(n) PROVE IdOK'
  <2>1. UNCHANGED <<tx, txs>>
    BY <1>2 DEF RaftStep, Elect, StepDown, Commit, writerVars, boundVars
  <2> QED BY <1>2, <2>1, SentRaft, IdFrame
<1>3. ASSUME NEW n \in Nodes, LoopStep(n) PROVE IdOK'
  <2>1. UNCHANGED <<txs, log, tail>>
    BY <1>3 DEF LoopStep, TakeReady, CancelAll, TriggerTake, TriggerRun, NoWaiter,
         ApplyStoreActions, EndReady, InstallSnapshot, raftVars, boundVars
  <2>2. Sent' = Sent
    BY <2>1 DEF Sent, LogEntries, TailEntries
  <2>3. \A m \in Nodes : tx'[m].entry = tx[m].entry /\ tx'[m].pc = tx[m].pc
    <3>1. \/ tx' = tx
          \/ tx' = [tx EXCEPT ![n] = [@ EXCEPT !.ctx = "cancelled", !.ch = "closed"]]
          \/ tx' = [tx EXCEPT ![n] = [@ EXCEPT !.guard = "taken", !.ch = "value"]]
      BY <1>3 DEF LoopStep, TakeReady, CancelAll, TriggerTake, TriggerRun, NoWaiter,
         ApplyStoreActions, EndReady, InstallSnapshot, CancelWaits, writerVars
    <3>2. CASE tx' = [tx EXCEPT ![n] = [@ EXCEPT !.ctx = "cancelled", !.ch = "closed"]]
      BY <1>0, <3>2 DEF Tx
    <3>3. CASE tx' = [tx EXCEPT ![n] = [@ EXCEPT !.guard = "taken", !.ch = "value"]]
      BY <1>0, <3>3 DEF Tx
    <3> QED BY <3>1, <3>2, <3>3
  <2> QED BY <2>1, <2>2, <2>3, IdFrame
<1>4. ASSUME NEW n \in Nodes, CrashRestart(n) \/ Cancel(n) PROVE IdOK'
  <2>1. UNCHANGED <<txs, log, tail>>
    BY <1>4 DEF CrashRestart, Cancel, raftVars
  <2>2. Sent' = Sent
    BY <2>1 DEF Sent, LogEntries, TailEntries
  <2>3. tx' = tx \/ tx' = [tx EXCEPT ![n] = NoTx]
    BY <1>4 DEF CrashRestart, Cancel, writerVars
  <2> QED BY <1>0, <2>1, <2>2, <2>3, IdFrame DEF NoTx
<1>5. ASSUME NEW n \in Nodes, NEW o \in Objects, BeginTx(n, o) PROVE IdOK'
  <2>1. Sent' = Sent
    BY <1>5 DEF BeginTx, raftVars, Sent, LogEntries, TailEntries
  <2>2. /\ txs' = txs + 1
        /\ tx'[n].pc = "begun" /\ tx'[n].entry.id = txs + 1
        /\ \A m \in Nodes : m # n => tx'[m] = tx[m]
    BY <1>0, <1>5 DEF BeginTx, NewEntry
  <2>3. /\ \A e \in Sent : e.id \in Nat /\ e.id <= txs
        /\ \A m \in Nodes : tx[m].entry.id \in Nat /\ tx[m].entry.id <= txs
    BY <1>0, SentType DEF IdOK, Entry, Tx
  <2>4. \A e \in Sent' : e.id <= txs'
    BY <1>0, <2>1, <2>2, <2>3
  <2>5. \A m \in Nodes : tx'[m].entry.id <= txs'
    BY <1>0, <2>2, <2>3
  <2>6. \A m \in Nodes : tx'[m].pc # "idle" => \A e \in Sent' :
          e.id = tx'[m].entry.id =>
            /\ e = tx'[m].entry
            /\ tx'[m].pc \notin {"begun", "registered", "checked"}
    BY <1>0, <2>1, <2>2, <2>3 DEF IdOK
  <2>7. \A l, m \in Nodes :
          l # m /\ tx'[l].pc # "idle" /\ tx'[m].pc # "idle"
            => tx'[l].entry.id # tx'[m].entry.id
    BY <1>0, <2>2, <2>3 DEF IdOK
  <2> QED BY <2>4, <2>5, <2>6, <2>7 DEF IdOK
<1>6. ASSUME NEW n \in Nodes, ProposeSend(n) PROVE IdOK'
  <2>1. Sent' \subseteq Sent \cup {tx[n].entry}
    BY <1>6, SentWriter DEF WriterStep
  <2>2. /\ txs' = txs /\ tx[n].pc = "checked"
        /\ tx'[n].pc = "sent" /\ tx'[n].entry = tx[n].entry
        /\ \A m \in Nodes : m # n => tx'[m] = tx[m]
    BY <1>0, <1>6 DEF ProposeSend, boundVars, Tx
  <2>3. \A e \in Sent' : e.id <= txs'
    BY <2>1, <2>2 DEF IdOK
  <2>4. \A m \in Nodes : tx'[m].entry.id <= txs'
    BY <2>2 DEF IdOK
  <2>5. \A m \in Nodes : tx'[m].pc # "idle" => \A e \in Sent' :
          e.id = tx'[m].entry.id =>
            /\ e = tx'[m].entry
            /\ tx'[m].pc \notin {"begun", "registered", "checked"}
    BY <2>1, <2>2 DEF IdOK
  <2>6. \A l, m \in Nodes :
          l # m /\ tx'[l].pc # "idle" /\ tx'[m].pc # "idle"
            => tx'[l].entry.id # tx'[m].entry.id
    BY <2>2 DEF IdOK
  <2> QED BY <2>3, <2>4, <2>5, <2>6 DEF IdOK
<1>7. ASSUME NEW n \in Nodes, WriterStep(n), ~ProposeSend(n) PROVE IdOK'
  <2>1. Sent' \subseteq Sent
    BY <1>7, SentWriter
  <2>2. txs' = txs /\ \A m \in Nodes : m # n => tx'[m] = tx[m]
    BY <1>0, <1>7 DEF WriterStep, Register, FailTx, CheckLeadership, ProposeRefused,
         ProposeReturn, ProposeCtxDone, CtxCancel, WaitTriggered, WaitCancelled,
         AbortTx, PublishTx, boundVars
  <2>3. \/ tx'[n] = NoTx
        \/ /\ tx'[n].entry = tx[n].entry /\ tx[n].pc # "idle"
           /\ tx'[n].pc \in {"begun", "registered", "checked"} =>
                   tx[n].pc \in {"begun", "registered", "checked"}
    <3> USE DEF Tx
    <3>1. CASE FailTx(n) /\ tx[n].pc # "idle"
      BY <1>0, <3>1 DEF FailTx
    <3>2. CASE AbortTx(n) \/ PublishTx(n)
      BY <1>0, <3>2 DEF AbortTx, PublishTx
    <3>3. CASE CheckLeadership(n) /\ signalled[n]
      BY <1>0, <3>3 DEF CheckLeadership
    <3>4. CASE Register(n) \/ ProposeReturn(n)
      BY <1>0, <3>4 DEF Register, ProposeReturn
    <3>5. CASE CtxCancel(n) \/ WaitTriggered(n)
      BY <1>0, <3>5 DEF CtxCancel, WaitTriggered
    <3> QED
      BY <1>7, <3>1, <3>2, <3>3, <3>4, <3>5
      DEF WriterStep, CheckLeadership, ProposeRefused, ProposeCtxDone, WaitCancelled
  <2> QED BY <2>1, <2>2, <2>3, IdFrame DEF NoTx
<1> QED BY <1>1, <1>2, <1>3, <1>4, <1>5, <1>6, <1>7 DEF Next

(* A step that leaves a node and the log alone keeps the node's invariant.  *)
LEMMA NodeFrame ==
  ASSUME NEW n \in Nodes, NodeOK(n), log' = log,
         loop'[n] = loop[n], applied'[n] = applied[n], snap'[n] = snap[n],
         store'[n] = store[n], events'[n] = events[n], tx'[n] = tx[n],
         inWait'[n] = inWait[n], stopped'[n] = stopped[n]
  PROVE  NodeOK(n)'
<1>1. WaitOK(n)'
  BY DEF NodeOK, WaitOK, NextEntry
<1>2. GuardOK(n)'
  BY DEF NodeOK, GuardOK
<1>3. CopyOK(n)'
  BY DEF NodeOK, CopyOK, Prefix
<1> QED BY <1>1, <1>2, <1>3 DEF NodeOK

(* Raft's steps: a longer log has the same prefixes.                        *)
LEMMA NodeRaft ==
  ASSUME TypeInv, NEW n \in Nodes, NodeOK(n), NEW m \in Nodes, RaftStep(m)
  PROVE  NodeOK(n)'
<1> USE DEF TypeInv, TypeOK
<1>1. UNCHANGED <<loopVars, storeVars, writerVars, stopped>>
  BY DEF RaftStep, Elect, StepDown, Commit
<1>2. CASE log' = log
  BY <1>1, <1>2, NodeFrame DEF loopVars, storeVars, writerVars
<1>3. CASE Commit(m)
  <2>1. Head(tail[m]) \in Entry /\ log \in Seq(Entry) /\ Len(log) \in Nat
    BY <1>3, HeadTailProperties, LenProperties DEF Commit, RaftTypeOK
  <2>2. log' = Append(log, Head(tail[m]))
    BY <1>3 DEF Commit
  <2>3. \A k \in 0..Len(log) : Prefix(k)' = Prefix(k)
    BY <2>1, <2>2, PrefixOfAppend DEF Prefix
  <2>4. \A i \in 1..Len(log) : log'[i] = log[i]
    BY <2>1, <2>2, AppendProperties
  <2>5. loop[n] = "trigger" => applied[n] + 1 \in 1..Len(log)
    BY <2>1 DEF LoopOK, LoopTypeOK
  <2>6. loop[n] = "trigger" => NextEntry(n)' = NextEntry(n)
    BY <1>1, <2>4, <2>5 DEF NextEntry, loopVars
  <2>7. WaitOK(n)'
    BY <1>1, <2>6 DEF NodeOK, WaitOK, loopVars, writerVars
  <2>8. GuardOK(n)'
    BY <1>1 DEF NodeOK, GuardOK, storeVars, writerVars
  <2>9. applied[n] \in 0..Len(log) /\ snap[n].idx \in 0..Len(log)
    BY DEF LoopTypeOK, Snapshot
  <2>10. Prefix(applied[n])' = Prefix(applied[n])
    BY <1>1, <2>3, <2>9 DEF loopVars, Prefix
  <2>11. Prefix(snap[n].idx)' = Prefix(snap[n].idx)
    BY <1>1, <2>3, <2>9 DEF loopVars, Prefix
  <2>12. CopyOK(n)'
    BY <1>1, <2>10, <2>11 DEF NodeOK, CopyOK, loopVars, storeVars
  <2> QED BY <2>7, <2>8, <2>12 DEF NodeOK
<1> QED BY <1>2, <1>3 DEF RaftStep, Elect, StepDown

(* The writer of a node: what its step leaves alone.                        *)
LEMMA WriterFrame ==
  ASSUME TypeInv, NEW n \in Nodes,
         WriterStep(n) \/ \E o \in Objects : BeginTx(n, o)
  PROVE  /\ UNCHANGED <<log, loop, applied, snap, store, stopped>>
         /\ \A m \in Nodes : m # n => /\ tx'[m] = tx[m] /\ inWait'[m] = inWait[m]
                                      /\ events'[m] = events[m]
<1>1. UNCHANGED <<log, loop, applied, snap, store, stopped>>
  BY DEF WriterStep, BeginTx, Register, FailTx, CheckLeadership, ProposeRefused,
         ProposeSend, ProposeReturn, ProposeCtxDone, CtxCancel, WaitTriggered,
         WaitCancelled, AbortTx, PublishTx, raftVars, loopVars, storeVars
<1>2. \A m \in Nodes : m # n => tx'[m] = tx[m]
  BY DEF WriterStep, BeginTx, Register, FailTx, CheckLeadership, ProposeRefused,
         ProposeSend, ProposeReturn, ProposeCtxDone, CtxCancel, WaitTriggered,
         WaitCancelled, AbortTx, PublishTx, TypeInv, TypeOK, StoreTypeOK
<1>3. \A m \in Nodes : m # n => events'[m] = events[m]
  BY DEF WriterStep, BeginTx, Register, FailTx, CheckLeadership, ProposeRefused,
         ProposeSend, ProposeReturn, ProposeCtxDone, CtxCancel, WaitTriggered,
         WaitCancelled, AbortTx, PublishTx, storeVars, TypeInv, TypeOK, StoreTypeOK
<1>4. \A m \in Nodes : m # n => inWait'[m] = inWait[m]
  BY DEF WriterStep, BeginTx, Register, FailTx, CheckLeadership, ProposeRefused,
         ProposeSend, ProposeReturn, ProposeCtxDone, CtxCancel, WaitTriggered,
         WaitCancelled, AbortTx, PublishTx, TypeInv, TypeOK, FlagTypeOK
<1> QED BY <1>1, <1>2, <1>3, <1>4

(* The steps of a writer keep the invariant of its node.                    *)
LEMMA NodeWriter ==
  ASSUME TypeInv, IdOK, NEW n \in Nodes, NodeOK(n),
         WriterStep(n) \/ \E o \in Objects : BeginTx(n, o)
  PROVE  NodeOK(n)'
<1> USE DEF TypeInv, TypeOK, Tx
<1>0. /\ tx \in [Nodes -> Tx] /\ events \in [Nodes -> Seq(Entry)]
      /\ inWait \in [Nodes -> BOOLEAN] /\ ~stopped[n]
      /\ WaitOK(n) /\ GuardOK(n) /\ CopyOK(n)
  BY DEF StoreTypeOK, FlagTypeOK, NodeOK, WaitOK
<1>1. UNCHANGED <<log, loop, applied, snap, store, stopped>>
  BY WriterFrame
<1>2. CopyOK(n)'
  BY <1>0, <1>1 DEF CopyOK, Prefix
<1>3. NextEntry(n)' = NextEntry(n)
  BY <1>1 DEF NextEntry
<1>4. CASE \E o \in Objects : BeginTx(n, o)
  <2>1. PICK o \in Objects : BeginTx(n, o)
    BY <1>4
  <2>2. /\ tx[n].pc = "idle" /\ tx[n].guard = "taken" /\ events[n] = store[n]
        /\ tx'[n].pc = "begun" /\ tx'[n].ch = "open" /\ tx'[n].ctx = "live"
        /\ tx'[n].guard = "there" /\ tx'[n].view = store[n]
        /\ UNCHANGED <<events, inWait>>
    BY <1>0, <2>1 DEF BeginTx, LockFree, GuardOK, NoTx, storeVars
  <2>3. WaitOK(n)'
    BY <1>0, <1>1, <2>2 DEF WaitOK
  <2>4. GuardOK(n)'
    BY <1>0, <1>1, <2>2 DEF GuardOK
  <2> QED BY <1>2, <2>3, <2>4 DEF NodeOK
<1>5. CASE Register(n)
  <2>1. /\ tx[n].pc = "begun" /\ tx'[n] = [tx[n] EXCEPT !.pc = "registered"]
        /\ inWait'[n] = TRUE /\ UNCHANGED events
    BY <1>0, <1>5 DEF Register, storeVars
  <2>2. tx[n].guard = "there" /\ tx[n].ch # "value" /\ loop[n] # "trigger"
    BY <1>0, <2>1 DEF GuardOK, WaitOK
  <2>3. tx[n].ch = "open" /\ tx[n].ctx = "live"
    BY <1>0, <2>1 DEF WaitOK
  <2>4. WaitOK(n)'
    BY <1>0, <1>1, <2>1, <2>2, <2>3 DEF WaitOK
  <2>5. GuardOK(n)'
    BY <1>0, <1>1, <2>1, <2>2 DEF GuardOK
  <2> QED BY <1>2, <2>4, <2>5 DEF NodeOK
<1>6. CASE FailTx(n) /\ tx[n].pc \in {"registered", "checked", "sent", "wait"}
           /\ tx[n].guard = "there" /\ loop[n] # "trigger"
  <2>1. /\ tx'[n].pc = "failed" /\ tx'[n].guard = "there" /\ tx'[n].ch # "value"
        /\ tx'[n].view = tx[n].view /\ inWait'[n] = FALSE /\ UNCHANGED events
    BY <1>0, <1>6 DEF FailTx, GuardOK, storeVars
  <2>2. WaitOK(n)'
    BY <1>0, <1>1, <1>6, <2>1 DEF WaitOK
  <2>3. GuardOK(n)'
    BY <1>0, <1>1, <1>6, <2>1 DEF GuardOK
  <2> QED BY <1>2, <2>2, <2>3 DEF NodeOK
<1>7. CASE CheckLeadership(n)
  <2>1. tx[n].pc = "registered" /\ tx[n].guard = "there" /\ loop[n] # "trigger"
    BY <1>0, <1>7 DEF CheckLeadership, WaitOK, GuardOK
  <2>2. CASE ~signalled[n]
    BY <1>6, <1>7, <2>1, <2>2 DEF CheckLeadership
  <2>3. CASE signalled[n]
    <3>1. tx' = [tx EXCEPT ![n].pc = "checked"] /\ UNCHANGED <<events, inWait>>
      BY <1>7, <2>3, Zenon DEF CheckLeadership, storeVars
    <3>2. tx'[n] = [tx[n] EXCEPT !.pc = "checked"]
      BY <1>0, <3>1
    <3>3. WaitOK(n)'
      BY <1>0, <1>1, <2>1, <3>1, <3>2 DEF WaitOK
    <3>4. GuardOK(n)'
      BY <1>0, <1>1, <2>1, <3>1, <3>2 DEF GuardOK
    <3> QED BY <1>2, <3>3, <3>4 DEF NodeOK
  <2> QED BY <2>2, <2>3
<1>8. CASE ProposeRefused(n)
  <2>1. tx[n].guard = "there" /\ loop[n] # "trigger"
    BY <1>0, <1>8 DEF ProposeRefused, WaitOK, GuardOK
  <2> QED BY <1>6, <1>8, <2>1 DEF ProposeRefused
<1>9. CASE ProposeSend(n)
  <2>1. /\ tx[n].pc = "checked" /\ tx[n].guard = "there" /\ loop[n] # "trigger"
        /\ tx'[n] = [tx[n] EXCEPT !.pc = "sent"] /\ UNCHANGED <<events, inWait>>
    BY <1>0, <1>9 DEF ProposeSend, WaitOK, GuardOK, storeVars
  <2>2. WaitOK(n)'
    BY <1>0, <1>1, <2>1 DEF WaitOK
  <2>3. GuardOK(n)'
    BY <1>0, <1>1, <2>1 DEF GuardOK
  <2> QED BY <1>2, <2>2, <2>3 DEF NodeOK
<1>10. CASE ProposeReturn(n)
  <2>1. /\ tx[n].pc = "sent" /\ UNCHANGED <<events, inWait>>
        /\ tx'[n] = [tx[n] EXCEPT !.pc = "wait"]
    BY <1>0, <1>10 DEF ProposeReturn, storeVars
  <2>2. WaitOK(n)'
    BY <1>0, <1>1, <1>3, <2>1 DEF WaitOK
  <2>3. GuardOK(n)'
    BY <1>0, <1>1, <2>1 DEF GuardOK
  <2> QED BY <1>2, <2>2, <2>3 DEF NodeOK
<1>11. CASE ProposeCtxDone(n)
  <2>1. tx[n].guard = "there" /\ loop[n] # "trigger"
    BY <1>0, <1>11 DEF ProposeCtxDone, WaitOK, GuardOK
  <2> QED BY <1>6, <1>11, <2>1 DEF ProposeCtxDone
<1>12. CASE CtxCancel(n)
  BY <1>0, <1>12 DEF CtxCancel
<1>13. CASE WaitTriggered(n)
  <2>1. /\ tx[n].pc = "wait" /\ tx[n].ch = "value" /\ UNCHANGED <<events, inWait>>
        /\ tx'[n] = [tx[n] EXCEPT !.pc = "publish"]
    BY <1>0, <1>13 DEF WaitTriggered, storeVars
  <2>2. tx[n].guard = "taken" /\ ~inWait[n] /\ loop[n] # "trigger"
    BY <1>0, <2>1 DEF GuardOK, WaitOK
  <2>3. WaitOK(n)'
    BY <1>0, <1>1, <2>1, <2>2 DEF WaitOK
  <2>4. GuardOK(n)'
    BY <1>0, <1>1, <2>1, <2>2 DEF GuardOK
  <2> QED BY <1>2, <2>3, <2>4 DEF NodeOK
<1>14. CASE WaitCancelled(n)
  <2>1. tx[n].pc = "wait" /\ (tx[n].ch = "closed" \/ tx[n].ctx = "cancelled")
    BY <1>14 DEF WaitCancelled
  <2>2. tx[n].guard = "there" /\ loop[n] # "trigger"
    BY <1>0, <2>1 DEF WaitOK, GuardOK
  <2> QED BY <1>6, <1>14, <2>1, <2>2 DEF WaitCancelled
<1>15. CASE AbortTx(n) \/ PublishTx(n)
  <2>1. /\ tx'[n] = NoTx /\ UNCHANGED inWait
        /\ tx[n].pc \in {"failed", "publish"}
    BY <1>0, <1>15 DEF AbortTx, PublishTx
  <2>2. events'[n] = store[n]
    <3>1. CASE AbortTx(n)
      BY <1>0, <3>1 DEF AbortTx, GuardOK, storeVars
    <3>2. CASE PublishTx(n)
      BY <1>0, <3>2 DEF PublishTx, GuardOK
    <3> QED BY <1>15, <3>1, <3>2
  <2>3. WaitOK(n)'
    BY <1>0, <1>1, <2>1 DEF WaitOK, NoTx
  <2>4. GuardOK(n)'
    BY <1>0, <1>1, <2>1, <2>2 DEF GuardOK, NoTx
  <2> QED BY <1>2, <2>3, <2>4 DEF NodeOK
<1> QED
  BY <1>4, <1>5, <1>7, <1>8, <1>9, <1>10, <1>11, <1>12, <1>13, <1>14, <1>15
  DEF WriterStep

(* The steps of a Run loop keep the invariant of its node.  The callback of *)
(* a triggered wait commits a transaction whose view is the current store   *)
(* and whose entry is the next of the log; an entry without a waiter is     *)
(* applied when no transaction is running.                                  *)
LEMMA NodeLoop ==
  ASSUME TypeInv, IdOK, NEW n \in Nodes, LoopStep(n), \A m \in Nodes : NodeOK(m)
  PROVE  NodeOK(n)'
<1> USE DEF TypeInv, TypeOK, Tx
<1>0. /\ tx \in [Nodes -> Tx] /\ store \in [Nodes -> Seq(Entry)]
      /\ events \in [Nodes -> Seq(Entry)] /\ inWait \in [Nodes -> BOOLEAN]
      /\ log \in Seq(Entry) /\ Len(log) \in Nat
      /\ applied \in [Nodes -> 0..Len(log)] /\ snap \in [Nodes -> Snapshot]
      /\ ~stopped[n] /\ WaitOK(n) /\ GuardOK(n) /\ CopyOK(n)
  BY LenProperties
  DEF RaftTypeOK, LoopTypeOK, StoreTypeOK, FlagTypeOK, NodeOK, WaitOK
<1>1. UNCHANGED <<log, stopped>>
  BY DEF LoopStep, TakeReady, CancelAll, TriggerTake, TriggerRun, NoWaiter,
         ApplyStoreActions, EndReady, InstallSnapshot, raftVars
<1>2. loop[n] \in {"trigger", "lock"} =>
        /\ applied[n] + 1 \in 1..Len(log) /\ NextEntry(n) \in Entry
        /\ Append(Prefix(applied[n]), NextEntry(n)) = Prefix(applied[n] + 1)
  <2> SUFFICES ASSUME loop[n] \in {"trigger", "lock"}
               PROVE  /\ applied[n] + 1 \in 1..Len(log) /\ NextEntry(n) \in Entry
                      /\ Append(Prefix(applied[n]), NextEntry(n)) = Prefix(applied[n] + 1)
    OBVIOUS
  <2>1. applied[n] \in Nat /\ applied[n] < Len(log)
    BY <1>0 DEF LoopOK, LoopTypeOK
  <2>2. applied[n] + 1 \in 1..Len(log)
    BY <1>0, <2>1
  <2> QED BY <1>0, <2>1, <2>2, ElementOfSeq, PrefixNext DEF NextEntry, Prefix
<1>3. CASE TakeReady(n)
  <2>1. loop'[n] # "trigger" /\ UNCHANGED <<applied, snap, store, events, tx, inWait>>
    BY <1>3 DEF TakeReady, storeVars, writerVars, LoopTypeOK
  <2>2. WaitOK(n)'
    BY <1>0, <1>1, <2>1 DEF WaitOK
  <2>3. GuardOK(n)' /\ CopyOK(n)'
    BY <1>0, <1>1, <2>1 DEF GuardOK, CopyOK, Prefix
  <2> QED BY <2>2, <2>3 DEF NodeOK
<1>4. CASE CancelAll(n) \/ NoWaiter(n)
  <2>1. /\ loop[n] # "trigger" /\ loop'[n] # "trigger" /\ CancelWaits(n)
        /\ UNCHANGED <<applied, snap, store, events>>
    BY <1>4 DEF CancelAll, NoWaiter, storeVars, LoopTypeOK
  <2>2. inWait'[n] = FALSE /\ (inWait[n] => tx[n].guard = "there")
    BY <1>0, <2>1 DEF CancelWaits, WaitOK
  <2>3. CASE inWait[n]
    <3>1. tx'[n] = [tx[n] EXCEPT !.ctx = "cancelled", !.ch = "closed"]
      BY <1>0, <2>1, <2>3 DEF CancelWaits
    <3>2. WaitOK(n)'
      BY <1>0, <1>1, <2>1, <2>2, <2>3, <3>1 DEF WaitOK
    <3>3. GuardOK(n)'
      BY <1>0, <1>1, <2>1, <2>2, <2>3, <3>1 DEF GuardOK
    <3>4. CopyOK(n)'
      BY <1>0, <1>1, <2>1 DEF CopyOK, Prefix
    <3> QED BY <3>2, <3>3, <3>4 DEF NodeOK
  <2>4. CASE ~inWait[n]
    <3>1. tx' = tx
      BY <2>1, <2>4 DEF CancelWaits
    <3>2. WaitOK(n)'
      BY <1>0, <1>1, <2>1, <2>2, <3>1 DEF WaitOK
    <3>3. GuardOK(n)'
      BY <1>0, <1>1, <2>1, <2>2, <3>1 DEF GuardOK
    <3>4. CopyOK(n)'
      BY <1>0, <1>1, <2>1 DEF CopyOK, Prefix
    <3> QED BY <3>2, <3>3, <3>4 DEF NodeOK
  <2> QED BY <2>3, <2>4
<1>5. CASE TriggerTake(n)
  <2>1. /\ inWait[n] /\ tx[n].entry.id = NextEntry(n).id /\ inWait'[n] = FALSE
        /\ applied[n] < target[n] /\ NextEntry(n)' = NextEntry(n)
        /\ UNCHANGED <<applied, snap, store, events, tx>>
    BY <1>0, <1>1, <1>5 DEF TriggerTake, storeVars, NextEntry
  <2>2. NextEntry(n) \in Sent
    <3>1. applied[n] + 1 \in 1..Len(log)
      BY <1>0, <2>1 DEF LoopTypeOK
    <3> QED BY <3>1 DEF NextEntry, Sent, LogEntries
  <2>3. tx[n].pc \in {"sent", "wait"}
    BY <1>0, <2>1, <2>2 DEF WaitOK, IdOK
  <2>4. WaitOK(n)'
    BY <1>0, <1>1, <2>1, <2>3 DEF WaitOK
  <2>5. GuardOK(n)' /\ CopyOK(n)'
    BY <1>0, <1>1, <2>1 DEF GuardOK, CopyOK, Prefix
  <2> QED BY <2>4, <2>5 DEF NodeOK
<1>6. CASE TriggerRun(n)
  <2>1. /\ loop[n] = "trigger" /\ tx[n].entry.id = NextEntry(n).id
        /\ tx[n].guard = "there" /\ tx[n].pc \in {"sent", "wait"}
        /\ ~inWait[n] /\ tx[n].ctx = "live"
    BY <1>0, <1>6 DEF TriggerRun, WaitOK
  <2>2. tx[n].entry = NextEntry(n)
    <3>1. NextEntry(n) \in Sent
      BY <1>2, <2>1 DEF NextEntry, Sent, LogEntries
    <3> QED BY <2>1, <3>1 DEF IdOK
  <2>3. /\ store' = [store EXCEPT ![n] = Append(tx[n].view, tx[n].entry)]
        /\ tx' = [tx EXCEPT ![n] = [@ EXCEPT !.guard = "taken", !.ch = "value"]]
        /\ applied' = [applied EXCEPT ![n] = @ + 1]
        /\ loop'[n] = "apply" /\ UNCHANGED <<snap, events, inWait>>
    BY <1>0, <1>6, <2>1 DEF TriggerRun, LoopTypeOK
  <2>4. /\ store'[n] = Append(store[n], tx[n].entry) /\ events[n] = store[n]
        /\ tx'[n] = [tx[n] EXCEPT !.guard = "taken", !.ch = "value"]
        /\ applied'[n] = applied[n] + 1
    BY <1>0, <2>1, <2>3 DEF GuardOK
  <2>5. WaitOK(n)'
    BY <1>0, <1>1, <2>1, <2>3, <2>4 DEF WaitOK
  <2>6. GuardOK(n)'
    BY <1>0, <1>1, <2>1, <2>3, <2>4 DEF GuardOK
  <2>7. store'[n] = Prefix(applied[n] + 1)
    BY <1>0, <1>2, <2>1, <2>2, <2>4 DEF CopyOK
  <2>8. CopyOK(n)'
    BY <1>0, <1>1, <2>3, <2>4, <2>7 DEF CopyOK, Prefix
  <2> QED BY <2>5, <2>6, <2>8 DEF NodeOK
<1>7. CASE ApplyStoreActions(n)
  <2>1. /\ loop[n] = "lock" /\ tx[n].pc = "idle" /\ tx[n] = NoTx
        /\ events[n] = store[n]
    BY <1>0, <1>7 DEF ApplyStoreActions, LockFree, GuardOK
  <2>2. /\ store'[n] = Append(store[n], NextEntry(n))
        /\ events'[n] = Append(events[n], NextEntry(n))
        /\ applied'[n] = applied[n] + 1 /\ loop'[n] = "apply"
        /\ UNCHANGED <<snap, tx, inWait>>
    BY <1>0, <1>7 DEF ApplyStoreActions, writerVars, LoopTypeOK
  <2>3. WaitOK(n)'
    BY <1>0, <1>1, <2>1, <2>2 DEF WaitOK
  <2>4. GuardOK(n)'
    BY <1>0, <1>1, <2>1, <2>2 DEF GuardOK, NoTx
  <2>5. store'[n] = Prefix(applied[n] + 1)
    BY <1>0, <1>2, <2>1, <2>2 DEF CopyOK
  <2>6. CopyOK(n)'
    BY <1>0, <1>1, <2>2, <2>5 DEF CopyOK, Prefix
  <2> QED BY <2>3, <2>4, <2>6 DEF NodeOK
<1>8. CASE EndReady(n)
  <2>1. /\ loop'[n] # "trigger" /\ UNCHANGED <<applied, store, events, tx, inWait>>
        /\ snap' = snap \/ snap' = [snap EXCEPT ![n] =
                                      [idx |-> applied[n], data |-> store[n]]]
    BY <1>8 DEF EndReady, storeVars, writerVars, LoopTypeOK
  <2>2. WaitOK(n)'
    BY <1>0, <1>1, <2>1 DEF WaitOK
  <2>3. GuardOK(n)'
    BY <1>0, <1>1, <2>1 DEF GuardOK
  <2>4. snap'[n] = snap[n] \/ snap'[n] = [idx |-> applied[n], data |-> store[n]]
    BY <1>0, <2>1
  <2>5. CopyOK(n)'
    BY <1>0, <1>1, <2>1, <2>4 DEF CopyOK, Prefix
  <2> QED BY <2>2, <2>3, <2>5 DEF NodeOK
<1>9. CASE InstallSnapshot(n)
  <2>1. leader \in Nodes /\ tx[n].pc = "idle" /\ loop[n] = "select"
    BY <1>9 DEF InstallSnapshot, RaftTypeOK, LockFree
  <2>2. snap[leader].data = Prefix(snap[leader].idx)
    BY <2>1 DEF NodeOK, CopyOK
  <2>3. /\ store'[n] = snap[leader].data /\ events'[n] = snap[leader].data
        /\ applied'[n] = snap[leader].idx /\ snap'[n] = snap[leader]
        /\ UNCHANGED <<loop, tx, inWait>>
    BY <1>0, <1>9 DEF InstallSnapshot, writerVars
  <2>4. WaitOK(n)'
    BY <1>0, <1>1, <2>1, <2>3 DEF WaitOK
  <2>5. GuardOK(n)'
    BY <1>0, <1>1, <2>1, <2>3 DEF GuardOK, NoTx
  <2>6. CopyOK(n)'
    BY <1>1, <2>2, <2>3 DEF CopyOK, Prefix
  <2> QED BY <2>4, <2>5, <2>6 DEF NodeOK
<1> QED BY <1>3, <1>4, <1>5, <1>6, <1>7, <1>8, <1>9 DEF LoopStep

(* A step of one manager's Run loop leaves the other managers alone.        *)
LEMMA LoopFrame ==
  ASSUME TypeInv, NEW n \in Nodes, LoopStep(n), NEW m \in Nodes, m # n
  PROVE  /\ log' = log /\ loop'[m] = loop[m] /\ applied'[m] = applied[m]
         /\ snap'[m] = snap[m] /\ store'[m] = store[m] /\ events'[m] = events[m]
         /\ tx'[m] = tx[m] /\ inWait'[m] = inWait[m] /\ stopped'[m] = stopped[m]
<1> USE DEF TypeInv, TypeOK
<1>1. log' = log /\ stopped' = stopped
  BY DEF LoopStep, TakeReady, CancelAll, TriggerTake, TriggerRun, NoWaiter,
         ApplyStoreActions, EndReady, InstallSnapshot, raftVars
<1>2. loop'[m] = loop[m] /\ applied'[m] = applied[m] /\ snap'[m] = snap[m]
  BY DEF LoopStep, TakeReady, CancelAll, TriggerTake, TriggerRun, NoWaiter,
         ApplyStoreActions, EndReady, InstallSnapshot, LoopTypeOK
<1>3. store'[m] = store[m] /\ events'[m] = events[m]
  BY DEF LoopStep, TakeReady, CancelAll, TriggerTake, TriggerRun, NoWaiter,
         ApplyStoreActions, EndReady, InstallSnapshot, storeVars, StoreTypeOK
<1>4. tx'[m] = tx[m]
  BY DEF LoopStep, TakeReady, CancelAll, TriggerTake, TriggerRun, NoWaiter,
         ApplyStoreActions, EndReady, InstallSnapshot, CancelWaits, writerVars,
         StoreTypeOK
<1>5. inWait'[m] = inWait[m]
  BY DEF LoopStep, TakeReady, CancelAll, TriggerTake, TriggerRun, NoWaiter,
         ApplyStoreActions, EndReady, InstallSnapshot, CancelWaits, writerVars,
         FlagTypeOK
<1> QED BY <1>1, <1>2, <1>3, <1>4, <1>5

(* A restarted manager has the store of its snapshot and no transaction.    *)
LEMMA NodeCrash ==
  ASSUME TypeInv, NEW n \in Nodes, NodeOK(n), NEW m \in Nodes, CrashRestart(m)
  PROVE  NodeOK(n)'
<1> USE DEF TypeInv, TypeOK
<1>1. CASE n # m
  <2>1. /\ log' = log /\ loop'[n] = loop[n] /\ applied'[n] = applied[n]
        /\ snap'[n] = snap[n] /\ store'[n] = store[n] /\ events'[n] = events[n]
        /\ tx'[n] = tx[n] /\ inWait'[n] = inWait[n] /\ stopped'[n] = stopped[n]
    BY <1>1 DEF CrashRestart, LoopTypeOK, StoreTypeOK, FlagTypeOK
  <2> QED BY <2>1, NodeFrame
<1>2. CASE n = m
  <2>1. /\ log' = log /\ loop'[n] = "select" /\ applied'[n] = snap[n].idx
        /\ snap' = snap /\ store'[n] = snap[n].data /\ events'[n] = snap[n].data
        /\ tx'[n] = NoTx
    BY <1>2 DEF CrashRestart, LoopTypeOK, StoreTypeOK
  <2>2. inWait'[n] = FALSE /\ stopped'[n] = FALSE
    BY <1>2 DEF CrashRestart, FlagTypeOK
  <2>3. WaitOK(n)' /\ GuardOK(n)'
    BY <2>1, <2>2 DEF WaitOK, GuardOK, NoTx
  <2>4. CopyOK(n)'
    BY <2>1 DEF NodeOK, CopyOK, Prefix
  <2> QED BY <2>3, <2>4 DEF NodeOK
<1> QED BY <1>1, <1>2

(* The initial state satisfies the invariant.                               *)
LEMMA StoreInit == Init => StoreInv
<1> SUFFICES ASSUME Init PROVE StoreInv
  OBVIOUS
<1>1. TypeInv
  BY TypeInit
<1>2. Sent = {}
  <2>1. Len(<<>>) = 0
    BY EmptySeq
  <2>2. LogEntries = {} /\ \A n \in Nodes : TailEntries(n) = {}
    BY <2>1 DEF Init, LogEntries, TailEntries
  <2> QED BY <2>2 DEF Sent
<1>3. \A n \in Nodes : tx[n] = NoTx
  BY DEF Init
<1>4. IdOK
  BY <1>2, <1>3 DEF Init, IdOK, NoTx, NoEntry
<1>5. ASSUME NEW n \in Nodes PROVE NodeOK(n)
  <2>1. WaitOK(n)
    BY <1>3 DEF Init, WaitOK, NoTx
  <2>2. GuardOK(n)
    BY <1>3 DEF Init, GuardOK, NoTx
  <2>3. Prefix(0) = <<>>
    BY SubSeqEmpty DEF Prefix
  <2>4. CopyOK(n)
    BY <2>3 DEF Init, CopyOK
  <2> QED BY <2>1, <2>2, <2>4 DEF NodeOK
<1> QED BY <1>1, <1>4, <1>5 DEF StoreInv

(* Every step keeps the invariant.  Once a manager has been told to shut    *)
(* down, only the first part of it is claimed.                              *)
LEMMA StoreNext == StoreInv /\ [Next]_vars => StoreInv'
<1> SUFFICES ASSUME StoreInv, [Next]_vars PROVE StoreInv'
  OBVIOUS
<1>1. TypeInv /\ TypeInv' /\ IdOK /\ IdOK'
  BY TypeNext, IdNext DEF StoreInv
<1>2. ASSUME cancels' = 0, NEW n \in Nodes PROVE NodeOK(n)'
  <2>0. cancels \in Nat
    BY <1>1 DEF TypeInv, TypeOK, CountTypeOK
  <2>1. CASE UNCHANGED vars
    <3>1. cancels = 0 /\ NodeOK(n)
      BY <1>2, <2>1 DEF vars, boundVars, StoreInv
    <3> QED
      BY <2>1, <3>1, NodeFrame DEF vars, raftVars, loopVars, storeVars, writerVars
  <2>2. ASSUME NEW m \in Nodes, RaftStep(m) PROVE NodeOK(n)'
    <3>1. cancels = 0
      BY <1>2, <2>2 DEF RaftStep, Elect, StepDown, Commit, boundVars
    <3> QED BY <1>1, <2>2, <3>1, NodeRaft DEF StoreInv
  <2>3. ASSUME NEW m \in Nodes, WriterStep(m) \/ \E o \in Objects : BeginTx(m, o)
        PROVE  NodeOK(n)'
    <3>1. cancels = 0
      BY <1>2, <2>3
      DEF WriterStep, BeginTx, Register, FailTx, CheckLeadership, ProposeRefused,
         ProposeSend, ProposeReturn, ProposeCtxDone, CtxCancel, WaitTriggered,
         WaitCancelled, AbortTx, PublishTx, boundVars
    <3>2. NodeOK(n)
      BY <3>1 DEF StoreInv
    <3>3. CASE m = n
      BY <1>1, <2>3, <3>2, <3>3, NodeWriter
    <3>4. CASE m # n
      BY <1>1, <2>3, <3>2, <3>4, WriterFrame, NodeFrame
    <3> QED BY <3>3, <3>4
  <2>4. ASSUME NEW m \in Nodes, LoopStep(m) PROVE NodeOK(n)'
    <3>1. cancels = 0
      BY <1>2, <2>4
      DEF LoopStep, TakeReady, CancelAll, TriggerTake, TriggerRun, NoWaiter,
         ApplyStoreActions, EndReady, InstallSnapshot, boundVars
    <3>2. \A k \in Nodes : NodeOK(k)
      BY <3>1 DEF StoreInv
    <3>3. CASE m = n
      BY <1>1, <2>4, <3>2, <3>3, NodeLoop
    <3>4. CASE m # n
      BY <1>1, <2>4, <3>2, <3>4, LoopFrame, NodeFrame
    <3> QED BY <3>3, <3>4
  <2>5. ASSUME NEW m \in Nodes, CrashRestart(m) PROVE NodeOK(n)'
    <3>1. cancels = 0
      BY <1>2, <2>5 DEF CrashRestart
    <3> QED BY <1>1, <2>5, <3>1, NodeCrash DEF StoreInv
  <2>6. ASSUME NEW m \in Nodes, Cancel(m) PROVE NodeOK(n)'
    BY <1>2, <2>0, <2>6 DEF Cancel
  <2> QED BY <2>1, <2>2, <2>3, <2>4, <2>5, <2>6 DEF Next
<1> QED BY <1>1, <1>2 DEF StoreInv

(* StoreFollowsLog: until a manager is told to shut down, every memory      *)
(* store is the committed log up to appliedIndex and every snapshot the log *)
(* up to its index, with any number of managers, terms, transactions and    *)
(* crashes.                                                                 *)
THEOREM StoreSafe == Spec => []StoreFollowsLog
<1>1. Spec => []StoreInv
  BY StoreInit, StoreNext, PTL DEF Spec
<1>2. StoreInv => StoreFollowsLog
  BY DEF StoreInv, StoreFollowsLog, NodeOK, CopyOK
<1> QED BY <1>1, <1>2, PTL

(* EventsFollowStore: whoever holds updateLock finds every change of the    *)
(* store published, in the order of the commits.                            *)
THEOREM EventsSafe == Spec => []EventsFollowStore
<1>1. Spec => []StoreInv
  BY StoreInit, StoreNext, PTL DEF Spec
<1>2. StoreInv => EventsFollowStore
  BY DEF StoreInv, EventsFollowStore, LockFree, NodeOK, GuardOK
<1> QED BY <1>1, <1>2, PTL

-----------------------------------------------------------------------------
(* Acknowledged writes.                                                     *)

Committed(id) == \E i \in DOMAIN log : log[i].id = id

(* A wait that was answered with a value is the wait of a committed entry.  *)
AckOK ==
  /\ \A id \in acked : Committed(id)
  /\ \A n \in Nodes : tx[n].ch = "value" \/ tx[n].pc = "publish"
                        => Committed(tx[n].entry.id)

(* The log only grows: what is committed stays committed.                   *)
LEMMA CommittedStays ==
  ASSUME TypeInv, [Next]_vars, NEW id, Committed(id)
  PROVE  Committed(id)'
<1>1. CASE log' = log
  BY <1>1 DEF Committed
<1>2. ASSUME NEW n \in Nodes, Commit(n) PROVE Committed(id)'
  <2>1. Head(tail[n]) \in Entry /\ log \in Seq(Entry)
    BY <1>2, HeadTailProperties DEF Commit, TypeInv, TypeOK, RaftTypeOK
  <2>2. log' = Append(log, Head(tail[n])) /\ log' \in Seq(Entry)
    BY <1>2, <2>1, AppendProperties DEF Commit
  <2>3. /\ DOMAIN log = 1..Len(log) /\ DOMAIN log' = 1..Len(log')
        /\ Len(log) \in Nat /\ Len(log') = Len(log) + 1
        /\ \A i \in 1..Len(log) : log'[i] = log[i]
    BY <2>1, <2>2, LenProperties, AppendProperties
  <2>4. PICK i \in 1..Len(log) : log[i].id = id
    BY <2>3 DEF Committed
  <2>5. i \in 1..Len(log') /\ log'[i].id = id
    BY <2>3, <2>4
  <2> QED BY <2>3, <2>5 DEF Committed
<1>3. log' = log \/ \E n \in Nodes : Commit(n)
  BY ZenonT(40) DEF Next, vars, raftVars, RaftStep, Elect, StepDown,
         WriterStep, BeginTx, Register, FailTx, CheckLeadership, ProposeRefused,
         ProposeSend, ProposeReturn, ProposeCtxDone, CtxCancel, WaitTriggered,
         WaitCancelled, AbortTx, PublishTx,
         LoopStep, TakeReady, CancelAll, TriggerTake, TriggerRun, NoWaiter,
         ApplyStoreActions, EndReady, InstallSnapshot, CrashRestart, Cancel
<1> QED BY <1>1, <1>2, <1>3

(* Every step keeps AckOK: only a triggered wait gets a value, and it is    *)
(* triggered with the id of the committed entry being applied.              *)
LEMMA AckNext == TypeInv /\ AckOK /\ [Next]_vars => AckOK'
<1> SUFFICES ASSUME TypeInv, AckOK, [Next]_vars PROVE AckOK'
  OBVIOUS
<1>0. tx \in [Nodes -> Tx]
  BY DEF TypeInv, TypeOK, StoreTypeOK
<1>1. ASSUME acked' = acked,
             \A n \in Nodes :
               \/ tx'[n] = NoTx
               \/ /\ tx'[n].entry = tx[n].entry
                  /\ tx'[n].ch = "value" => tx[n].ch = "value" \/ Committed(tx[n].entry.id)
                  /\ tx'[n].pc = "publish" => tx[n].pc = "publish" \/ tx[n].ch = "value"
               \/ tx'[n].ch = "open" /\ tx'[n].pc = "begun"
      PROVE  AckOK'
  <2>1. \A id \in acked' : Committed(id)'
    BY <1>1, CommittedStays DEF AckOK
  <2>2. ASSUME NEW n \in Nodes, tx'[n].ch = "value" \/ tx'[n].pc = "publish"
        PROVE  Committed(tx[n].entry.id) /\ tx'[n].entry = tx[n].entry
    BY <1>1, <2>2 DEF AckOK, NoTx
  <2>3. ASSUME NEW n \in Nodes, tx'[n].ch = "value" \/ tx'[n].pc = "publish"
        PROVE  Committed(tx[n].entry.id)'
    <3> DEFINE id == tx[n].entry.id
    <3>1. \E i \in DOMAIN log' : log'[i].id = id
      BY <2>2, <2>3, CommittedStays DEF Committed
    <3> QED BY <2>2, <2>3, <3>1 DEF Committed
  <2> QED BY <2>1, <2>3 DEF AckOK, Committed
<1>2. CASE UNCHANGED vars
  BY <1>1, <1>2 DEF vars, writerVars
<1>3. ASSUME NEW m \in Nodes,
             RaftStep(m) \/ Cancel(m) \/ CrashRestart(m)
      PROVE  AckOK'
  <2>1. acked' = acked /\ (tx' = tx \/ tx' = [tx EXCEPT ![m] = NoTx])
    BY <1>3 DEF RaftStep, Elect, StepDown, Commit, Cancel, CrashRestart, writerVars
  <2> QED BY <1>0, <1>1, <2>1
<1>4. ASSUME NEW m \in Nodes, LoopStep(m) PROVE AckOK'
  <2>1. CASE TriggerRun(m)
    <3>1. CASE tx[m].entry.id = NextEntry(m).id /\ tx[m].guard = "there"
      <4>1. /\ tx' = [tx EXCEPT ![m] = [@ EXCEPT !.guard = "taken", !.ch = "value"]]
            /\ acked' = acked
        BY <2>1, <3>1 DEF TriggerRun
      <4>2. applied[m] + 1 \in DOMAIN log
        <5>1. Len(log) \in Nat /\ DOMAIN log = 1..Len(log)
          BY LenProperties DEF TypeInv, TypeOK, RaftTypeOK
        <5> QED
          BY <2>1, <5>1 DEF TriggerRun, TypeInv, TypeOK, LoopOK, LoopTypeOK
      <4>3. Committed(tx[m].entry.id)
        BY <3>1, <4>2 DEF Committed, NextEntry
      <4>4. \A n \in Nodes : /\ tx'[n].entry = tx[n].entry /\ tx'[n].pc = tx[n].pc
                             /\ n # m => tx'[n].ch = tx[n].ch
        BY <1>0, <4>1 DEF Tx
      <4> QED BY <1>1, <4>1, <4>3, <4>4
    <3>2. CASE ~(tx[m].entry.id = NextEntry(m).id /\ tx[m].guard = "there")
      BY <1>1, <2>1, <3>2 DEF TriggerRun
    <3> QED BY <3>1, <3>2
  <2>2. CASE ~TriggerRun(m)
    <3>1. /\ acked' = acked
          /\ \/ tx' = tx
             \/ tx' = [tx EXCEPT ![m] = [@ EXCEPT !.ctx = "cancelled", !.ch = "closed"]]
      BY <1>4, <2>2 DEF LoopStep, TakeReady, CancelAll, TriggerTake, NoWaiter,
         ApplyStoreActions, EndReady, InstallSnapshot, CancelWaits, writerVars
    <3>2. CASE tx' = tx
      BY <1>1, <3>1, <3>2
    <3>3. CASE tx' = [tx EXCEPT ![m] = [@ EXCEPT !.ctx = "cancelled", !.ch = "closed"]]
      <4>1. \A n \in Nodes : /\ tx'[n].entry = tx[n].entry /\ tx'[n].pc = tx[n].pc
                             /\ tx'[n].ch = "value" => tx[n].ch = "value"
        BY <1>0, <3>3 DEF Tx
      <4> QED BY <1>1, <3>1, <4>1
    <3> QED BY <3>1, <3>2, <3>3
  <2> QED BY <2>1, <2>2
<1>5. ASSUME NEW m \in Nodes, WriterStep(m) \/ \E o \in Objects : BeginTx(m, o),
             ~PublishTx(m)
      PROVE  AckOK'
  <2>1. acked' = acked /\ \A n \in Nodes : n # m => tx'[n] = tx[n]
    BY <1>5, WriterFrame
    DEF WriterStep, BeginTx, Register, FailTx, CheckLeadership, ProposeRefused,
        ProposeSend, ProposeReturn, ProposeCtxDone, CtxCancel, WaitTriggered,
        WaitCancelled, AbortTx
  <2>2. \/ tx'[m] = NoTx
        \/ /\ tx'[m].entry = tx[m].entry
           /\ tx'[m].ch = "value" => tx[m].ch = "value"
           /\ tx'[m].pc = "publish" => tx[m].pc = "publish" \/ tx[m].ch = "value"
        \/ tx'[m].ch = "open" /\ tx'[m].pc = "begun"
    <3> USE DEF Tx
    <3>1. CASE \E o \in Objects : BeginTx(m, o)
      BY <1>0, <3>1 DEF BeginTx
    <3>2. CASE FailTx(m)
      BY <1>0, <3>2 DEF FailTx
    <3>3. CASE AbortTx(m)
      BY <1>0, <3>3 DEF AbortTx
    <3>4. CASE CheckLeadership(m) /\ signalled[m]
      <4>1. tx' = [tx EXCEPT ![m].pc = "checked"]
        BY <3>4, Zenon DEF CheckLeadership
      <4> QED BY <1>0, <4>1
    <3>5. CASE Register(m) \/ ProposeSend(m) \/ ProposeReturn(m)
      BY <1>0, <3>5 DEF Register, ProposeSend, ProposeReturn
    <3>6. CASE CtxCancel(m) \/ WaitTriggered(m)
      BY <1>0, <3>6 DEF CtxCancel, WaitTriggered
    <3> QED
      BY <1>5, <3>1, <3>2, <3>3, <3>4, <3>5, <3>6
      DEF WriterStep, CheckLeadership, ProposeRefused, ProposeCtxDone, WaitCancelled
  <2> QED BY <1>1, <2>1, <2>2
<1>6. ASSUME NEW m \in Nodes, PublishTx(m) PROVE AckOK'
  <2>1. Committed(tx[m].entry.id)
    BY <1>6 DEF PublishTx, AckOK
  <2>2. acked' = acked \cup {tx[m].entry.id} /\ tx' = [tx EXCEPT ![m] = NoTx]
        /\ log' = log
    BY <1>6 DEF PublishTx, raftVars
  <2>3. \A id \in acked' : Committed(id)'
    BY <2>1, <2>2 DEF AckOK, Committed
  <2>4. ASSUME NEW n \in Nodes, tx'[n].ch = "value" \/ tx'[n].pc = "publish"
        PROVE  Committed(tx[n].entry.id)'
    BY <1>0, <2>2, <2>4 DEF AckOK, NoTx, Committed
  <2> QED BY <2>3, <2>4 DEF AckOK, Committed
<1> QED BY <1>2, <1>3, <1>4, <1>5, <1>6 DEF Next, WriterStep

(* AckedDurable: an Update that returned nil is committed, whatever crashes, *)
(* elections and shutdowns happen.                                          *)
THEOREM AckSafe == Spec => []AckedDurable
<1>1. Init => AckOK
  <2>1. ASSUME Init PROVE acked = {} /\ \A n \in Nodes : tx[n] = NoTx
    BY <2>1 DEF Init
  <2> QED BY <2>1 DEF AckOK, NoTx
<1>2. Spec => [](TypeInv /\ AckOK)
  BY <1>1, TypeInit, TypeNext, AckNext, PTL DEF Spec
<1>3. AckOK => AckedDurable
  BY DEF AckOK, Committed, AckedDurable
<1> QED BY <1>2, <1>3, PTL

-----------------------------------------------------------------------------
(* What the Run loop believes follows what raft knows: the leader commits   *)
(* at the end of the log, a node that leads or takes itself for the leader  *)
(* has not been asked to apply more than its own raft instance has          *)
(* committed, and only such a node has signalledLeadership set.             *)
LeadOK ==
  /\ leader \in Nodes => raftLead[leader] /\ base[leader] = Len(log)
  /\ \A n \in Nodes :
       /\ raftLead[n] \/ wasLeader[n] => applied[n] <= base[n] /\ target[n] <= base[n]
       /\ signalled[n] => wasLeader[n]
       /\ loop[n] = "cancelAll" => ~signalled[n]

(* An entry at position i of a log was computed from the i - 1 entries      *)
(* before it, and stamped with that version.                                *)
Placed(e, i) == e.read = i - 1 /\ e.ver = i - 1

PlacesOK ==
  /\ \A i \in 1..Len(log) : Placed(log[i], i)
  /\ \A n \in Nodes : \A i \in 1..Len(tail[n]) : Placed(tail[n][i], base[n] + i)

(* A transaction that has not been proposed read the store as it still is,  *)
(* and its version is not ahead of the node's raft instance.                *)
ReadOK(n) ==
  tx[n].pc \in {"begun", "registered", "checked"} =>
    /\ tx[n].entry.read = applied[n]
    /\ tx[n].entry.ver \in applied[n]..Len(log)
    /\ raftLead[n] => tx[n].entry.ver <= base[n]

(* A transaction past its leadership check is in the wait table, or its     *)
(* wait was cancelled or answered; and as long as it is in the table the    *)
(* leadership it checked stands, or the Run loop is about to cancel it.     *)
HeardOK(n) ==
  /\ tx[n].pc \in {"registered", "checked", "sent", "wait"} =>
       \/ inWait[n] \/ loop[n] = "trigger"
       \/ tx[n].ctx = "cancelled" \/ tx[n].ch = "value"
  /\ tx[n].pc \in {"checked", "sent", "wait"} /\ inWait[n] =>
       signalled[n] \/ loop[n] = "cancelAll"

(* The next entry of n's own log, committed or not, is the one of the       *)
(* transaction that waits for it.                                           *)
Outstanding(n) ==
  /\ LastIndex(n) = applied[n] + 1
  /\ tx[n].pc \in {"sent", "wait"} /\ (inWait[n] \/ loop[n] = "trigger")
  /\ IF base[n] = applied[n] THEN tail[n][1] = tx[n].entry
     ELSE log[applied[n] + 1] = tx[n].entry

(* A node that has announced its leadership has applied its whole log but   *)
(* for the entry of its own transaction, and so never waits for updateLock. *)
AnnouncedOK(n) ==
  signalled[n] => /\ LastIndex(n) = applied[n] \/ Outstanding(n)
                  /\ loop[n] # "lock"

LocalOK(n) == ReadOK(n) /\ HeardOK(n) /\ AnnouncedOK(n)

(* Nothing has yet gone wrong that the properties allow for.                *)
Undisturbed == cancels = 0 /\ ~late

SerialInv ==
  /\ StoreInv /\ LeadOK
  /\ Undisturbed => PlacesOK /\ \A n \in Nodes : LocalOK(n)

-----------------------------------------------------------------------------
(* Leadership and indices.                                                  *)

(* The numbers of a well-typed state.                                       *)
LEMMA Numbers ==
  ASSUME TypeInv, NEW n \in Nodes
  PROVE  /\ Len(log) \in Nat /\ base[n] \in 0..Len(log)
         /\ Len(tail[n]) \in Nat /\ tail[n] \in Seq(Entry)
         /\ applied[n] \in 0..Len(log) /\ target[n] \in 0..Len(log)
         /\ LastIndex(n) \in Nat /\ LastIndex(n) = base[n] + Len(tail[n])
<1>1. /\ log \in Seq(Entry) /\ base[n] \in 0..Len(log) /\ tail[n] \in Seq(Entry)
      /\ applied[n] \in 0..Len(log) /\ target[n] \in 0..Len(log)
  BY DEF TypeInv, TypeOK, RaftTypeOK, LoopTypeOK
<1>2. Len(log) \in Nat /\ Len(tail[n]) \in Nat
  BY <1>1, LenProperties
<1> QED BY <1>1, <1>2 DEF LastIndex

(* The leading node and its indices, node by node.                          *)
LeadNode(n) ==
  /\ leader = n => raftLead[n] /\ base[n] = Len(log)
  /\ raftLead[n] \/ wasLeader[n] => applied[n] <= base[n] /\ target[n] <= base[n]
  /\ signalled[n] => wasLeader[n]
  /\ loop[n] = "cancelAll" => ~signalled[n]

LEMMA LeadNodes == LeadOK <=> \A n \in Nodes : LeadNode(n)
BY DEF LeadOK, LeadNode

(* A commit of the external raft: the leader's log loses its first          *)
(* uncommitted entry to the committed log.                                  *)
LEMMA CommitEffect ==
  ASSUME TypeInv, NEW m \in Nodes, Commit(m)
  PROVE  /\ Len(log') = Len(log) + 1
         /\ \A i \in 1..Len(log) : log'[i] = log[i]
         /\ log'[Len(log) + 1] = tail[m][1]
         /\ base'[m] = base[m] + 1
         /\ Len(tail[m]) \in Nat \ {0} /\ Len(tail'[m]) = Len(tail[m]) - 1
         /\ \A i \in 1..Len(tail'[m]) : tail'[m][i] = tail[m][i + 1]
         /\ \A n \in Nodes : n # m => base'[n] = base[n] /\ tail'[n] = tail[n]
<1>1. /\ log \in Seq(Entry) /\ tail[m] \in Seq(Entry) /\ tail[m] # <<>>
      /\ tail \in [Nodes -> Seq(Entry)] /\ base \in [Nodes -> 0..Len(log)]
      /\ log' = Append(log, Head(tail[m]))
      /\ tail' = [tail EXCEPT ![m] = Tail(tail[m])]
      /\ base' = [base EXCEPT ![m] = base[m] + 1]
  BY DEF Commit, TypeInv, TypeOK, RaftTypeOK
<1>2. /\ Head(tail[m]) \in Entry /\ Head(tail[m]) = tail[m][1]
      /\ Len(Tail(tail[m])) = Len(tail[m]) - 1
      /\ \A i \in 1..Len(Tail(tail[m])) : Tail(tail[m])[i] = tail[m][i + 1]
  BY <1>1, HeadTailProperties
<1>3. Len(tail[m]) \in Nat \ {0}
  BY <1>1, LenProperties, EmptySeq
<1>4. /\ Len(log') = Len(log) + 1
      /\ \A i \in 1..Len(log) : log'[i] = log[i]
      /\ log'[Len(log) + 1] = tail[m][1]
  BY <1>1, <1>2, AppendProperties
<1>5. /\ tail'[m] = Tail(tail[m]) /\ base'[m] = base[m] + 1
      /\ \A n \in Nodes : n # m => base'[n] = base[n] /\ tail'[n] = tail[n]
  BY <1>1
<1> QED BY <1>2, <1>3, <1>4, <1>5

(* A step of raft keeps the leader's indices.                               *)
LEMMA LeadRaft ==
  ASSUME TypeInv, LeadOK, NEW m \in Nodes, RaftStep(m), NEW n \in Nodes
  PROVE  LeadNode(n)'
<1> USE DEF TypeInv, TypeOK
<1>0. /\ raftLead \in [Nodes -> BOOLEAN] /\ base \in [Nodes -> 0..Len(log)]
      /\ LeadNode(n) /\ UNCHANGED <<loop, target, applied, wasLeader, signalled>>
  BY LeadNodes DEF RaftTypeOK, FlagTypeOK, RaftStep, Elect, StepDown, Commit, loopVars
<1>1. /\ Len(log) \in Nat /\ base[n] \in 0..Len(log)
      /\ applied[n] \in 0..Len(log) /\ target[n] \in 0..Len(log)
  BY Numbers
<1>2. CASE Elect(m)
  <2>1. /\ log' = log /\ leader' = m /\ ~wasLeader[m]
        /\ raftLead'[n] = (IF n = m THEN TRUE ELSE raftLead[n])
        /\ base'[n] = (IF n = m THEN Len(log) ELSE base[n])
    BY <1>0, <1>2 DEF Elect
  <2> QED BY <1>0, <1>1, <2>1 DEF LeadNode
<1>3. CASE StepDown(m)
  <2>1. /\ log' = log /\ base' = base
        /\ leader' = n => leader = n /\ n # m
        /\ raftLead'[n] = (IF n = m THEN FALSE ELSE raftLead[n])
    BY <1>0, <1>3, RaftStoreAssumption DEF StepDown
  <2> QED BY <1>0, <1>1, <2>1 DEF LeadNode
<1>4. CASE Commit(m)
  <2>1. leader = m /\ leader' = m /\ raftLead' = raftLead
    BY <1>4 DEF Commit
  <2>2. /\ Len(log') = Len(log) + 1
        /\ base'[n] = (IF n = m THEN base[n] + 1 ELSE base[n])
    BY <1>4, CommitEffect
  <2> QED BY <1>0, <1>1, <2>1, <2>2 DEF LeadNode
<1> QED BY <1>2, <1>3, <1>4 DEF RaftStep

(* A step of the Run loop keeps them: a Ready of a leading node goes no     *)
(* further than its commit index.                                           *)
LEMMA LeadLoop ==
  ASSUME TypeInv, LeadOK, NEW m \in Nodes, LoopStep(m), NEW n \in Nodes
  PROVE  LeadNode(n)'
<1> USE DEF TypeInv, TypeOK
<1>0. /\ loop \in [Nodes -> {"select", "cancelAll", "apply", "trigger", "lock"}]
      /\ target \in [Nodes -> 0..Len(log)] /\ applied \in [Nodes -> 0..Len(log)]
      /\ wasLeader \in [Nodes -> BOOLEAN] /\ signalled \in [Nodes -> BOOLEAN]
      /\ LeadNode(n) /\ UNCHANGED <<log, leader, raftLead, base>>
  BY LeadNodes DEF LoopTypeOK, FlagTypeOK, LoopStep, TakeReady, CancelAll,
     TriggerTake, TriggerRun, NoWaiter, ApplyStoreActions, EndReady,
     InstallSnapshot, raftVars
<1>1. /\ Len(log) \in Nat /\ base[n] \in 0..Len(log)
      /\ applied[n] \in 0..Len(log) /\ target[n] \in 0..Len(log)
  BY Numbers
<1>2. CASE TakeReady(m)
  <2>1. PICK t \in applied[m]..RaftCommit(m) : target' = [target EXCEPT ![m] = t]
    BY <1>2 DEF TakeReady
  <2>2. /\ applied' = applied
        /\ wasLeader'[n] = (IF n = m THEN raftLead[n] ELSE wasLeader[n])
        /\ target'[n] = (IF n = m THEN t ELSE target[n])
    BY <1>0, <1>2, <2>1 DEF TakeReady
  <2>3. \/ n # m /\ loop'[n] = loop[n] /\ signalled'[n] = signalled[n]
        \/ n = m /\ loop'[n] = "cancelAll" /\ ~signalled'[n]
        \/ /\ n = m /\ loop'[n] = "apply" /\ signalled'[n] = signalled[n]
           /\ wasLeader[n] => raftLead[n]
    <3>1. CASE wasLeader[m] /\ ~raftLead[m]
      BY <1>0, <1>2, <3>1 DEF TakeReady
    <3>2. CASE ~(wasLeader[m] /\ ~raftLead[m])
      BY <1>0, <1>2, <3>2 DEF TakeReady
    <3> QED BY <3>1, <3>2
  <2>4. n = m /\ raftLead[n] => t \in applied[n]..base[n]
    BY <2>1 DEF RaftCommit
  <2> QED BY <1>0, <1>1, <2>2, <2>3, <2>4 DEF LeadNode
<1>3. CASE CancelAll(m) \/ TriggerTake(m) \/ NoWaiter(m)
  <2>1. /\ UNCHANGED <<target, applied, wasLeader, signalled>>
        /\ loop'[n] = loop[n] \/ loop'[n] # "cancelAll"
    BY <1>0, <1>3 DEF CancelAll, TriggerTake, NoWaiter
  <2> QED BY <1>0, <1>1, <2>1 DEF LeadNode
<1>4. CASE TriggerRun(m) \/ ApplyStoreActions(m)
  <2>1. /\ UNCHANGED <<target, wasLeader, signalled>>
        /\ loop'[n] = (IF n = m THEN "apply" ELSE loop[n])
        /\ applied'[n] = (IF n = m THEN applied[n] + 1 ELSE applied[n])
        /\ loop[m] \in {"trigger", "lock"}
    BY <1>0, <1>4 DEF TriggerRun, ApplyStoreActions
  <2>2. applied[m] < target[m]
    BY <2>1 DEF LoopOK
  <2> QED BY <1>0, <1>1, <2>1, <2>2 DEF LeadNode
<1>5. CASE EndReady(m)
  <2>1. /\ UNCHANGED <<target, applied, wasLeader>>
        /\ loop'[n] = (IF n = m THEN "select" ELSE loop[n])
        /\ n # m => signalled'[n] = signalled[n]
        /\ signalled'[n] => signalled[n] \/ wasLeader[n]
    BY <1>0, <1>5 DEF EndReady
  <2> QED BY <1>0, <1>1, <2>1 DEF LeadNode
<1>6. CASE InstallSnapshot(m)
  <2>1. /\ UNCHANGED <<loop, target, wasLeader, signalled>>
        /\ ~raftLead[m] /\ ~wasLeader[m]
        /\ n # m => applied'[n] = applied[n]
    BY <1>0, <1>6 DEF InstallSnapshot
  <2> QED BY <1>0, <1>1, <2>1 DEF LeadNode
<1> QED BY <1>2, <1>3, <1>4, <1>5, <1>6 DEF LoopStep

(* Every step keeps LeadOK.                                                 *)
LEMMA LeadNext == TypeInv /\ LeadOK /\ [Next]_vars => LeadOK'
<1> SUFFICES ASSUME TypeInv, LeadOK, [Next]_vars, NEW n \in Nodes
             PROVE  LeadNode(n)'
  BY DEF LeadOK, LeadNode
<1>0. LeadNode(n)
  BY LeadNodes
<1>1. ASSUME UNCHANGED <<log, leader, raftLead, base, loop, target, applied,
                         wasLeader, signalled>>
      PROVE  LeadNode(n)'
  BY <1>0, <1>1 DEF LeadNode
<1>2. CASE UNCHANGED vars
  BY <1>1, <1>2 DEF vars, raftVars, loopVars
<1>3. ASSUME NEW m \in Nodes, RaftStep(m) PROVE LeadNode(n)'
  BY <1>3, LeadRaft
<1>4. ASSUME NEW m \in Nodes, LoopStep(m) PROVE LeadNode(n)'
  BY <1>4, LeadLoop
<1>5. ASSUME NEW m \in Nodes,
             WriterStep(m) \/ (\E o \in Objects : BeginTx(m, o)) \/ Cancel(m)
      PROVE  LeadNode(n)'
  BY <1>1, <1>5
  DEF WriterStep, BeginTx, Register, FailTx, CheckLeadership, ProposeRefused,
      ProposeSend, ProposeReturn, ProposeCtxDone, CtxCancel, WaitTriggered,
      WaitCancelled, AbortTx, PublishTx, Cancel, raftVars, loopVars
<1>6. ASSUME NEW m \in Nodes, CrashRestart(m) PROVE LeadNode(n)'
  <2>1. CASE n # m
    <3>1. /\ log' = log /\ base' = base /\ loop'[n] = loop[n]
          /\ target'[n] = target[n] /\ applied'[n] = applied[n]
      BY <1>6, <2>1 DEF CrashRestart, TypeInv, TypeOK, LoopTypeOK
    <3>2. /\ leader' = n => leader = n
          /\ raftLead'[n] = raftLead[n] /\ wasLeader'[n] = wasLeader[n]
          /\ signalled'[n] = signalled[n]
      BY <1>6, <2>1, RaftStoreAssumption DEF CrashRestart, TypeInv, TypeOK, FlagTypeOK
    <3> QED BY <1>0, <3>1, <3>2 DEF LeadNode
  <2>2. CASE n = m
    <3>1. /\ ~raftLead'[n] /\ ~wasLeader'[n] /\ ~signalled'[n]
          /\ leader' # n
      BY <1>6, <2>2, RaftStoreAssumption DEF CrashRestart, TypeInv, TypeOK, FlagTypeOK
    <3> QED BY <3>1 DEF LeadNode
  <2> QED BY <2>1, <2>2
<1> QED BY <1>2, <1>3, <1>4, <1>5, <1>6 DEF Next

-----------------------------------------------------------------------------
(* The places of the entries.                                               *)

(* A leader that has announced itself and proposes the entry of a checked   *)
(* transaction has applied its whole log: the entry comes next to what the  *)
(* transaction has read.                                                    *)
LEMMA ProposeEffect ==
  ASSUME TypeInv, LeadOK, NEW n \in Nodes, LocalOK(n), ProposeSend(n), raftLead[n],
         ~late'
  PROVE  /\ inWait[n] /\ signalled[n] /\ base[n] = applied[n] /\ Len(tail[n]) = 0
         /\ tx[n].entry.read = base[n] /\ tx[n].entry.ver = base[n]
         /\ tail' = [tail EXCEPT ![n] = Append(tail[n], tx[n].entry)]
         /\ Len(tail'[n]) = 1 /\ tail'[n][1] = tx[n].entry
<1>1. inWait[n] /\ signalled[n] /\ tx[n].pc = "checked"
  BY DEF ProposeSend
<1>2. LastIndex(n) = applied[n]
  BY <1>1 DEF LocalOK, AnnouncedOK, Outstanding
<1>3. applied[n] <= base[n]
  BY <1>1 DEF LeadOK
<1>4. base[n] = applied[n] /\ Len(tail[n]) = 0
  BY <1>2, <1>3, Numbers
<1>5. tx[n].entry \in Entry /\ tail[n] \in Seq(Entry) /\ tail \in [Nodes -> Seq(Entry)]
  BY DEF TypeInv, TypeOK, StoreTypeOK, RaftTypeOK, Tx
<1>6. tx[n].entry.read = base[n] /\ tx[n].entry.ver = base[n]
  <2>1. /\ tx[n].entry.read = applied[n] /\ tx[n].entry.ver \in applied[n]..Len(log)
        /\ tx[n].entry.ver <= base[n]
    BY <1>1 DEF LocalOK, ReadOK
  <2> QED BY <1>4, <2>1, Numbers
<1>7. tail' = [tail EXCEPT ![n] = Append(tail[n], tx[n].entry)]
  BY DEF ProposeSend
<1>8. /\ Len(Append(tail[n], tx[n].entry)) = 1
      /\ Append(tail[n], tx[n].entry)[1] = tx[n].entry
  BY <1>4, <1>5, AppendProperties
<1> QED BY <1>1, <1>4, <1>5, <1>6, <1>7, <1>8

(* Every entry stays in its place: an election copies a prefix of a tail    *)
(* that follows the whole log, a commit moves the first entry of one, and a *)
(* proposal of a leader is placed by ProposeEffect.                         *)
LEMMA PlacesNext ==
  ASSUME TypeInv, LeadOK, PlacesOK, \A n \in Nodes : LocalOK(n), [Next]_vars, ~late'
  PROVE  PlacesOK'
<1>1. CASE UNCHANGED <<log, tail, base>>
  BY <1>1 DEF PlacesOK
<1>2. ASSUME NEW n \in Nodes, Elect(n) PROVE PlacesOK'
  <2>1. PICK m \in Nodes : /\ base[m] = Len(log)
                           /\ \E k \in 0..Len(tail[m]) :
                                tail' = [tail EXCEPT ![n] = SubSeq(tail[m], 1, k)]
    BY <1>2 DEF Elect
  <2>2. PICK k \in 0..Len(tail[m]) : tail' = [tail EXCEPT ![n] = SubSeq(tail[m], 1, k)]
    BY <2>1
  <2>3. /\ tail \in [Nodes -> Seq(Entry)] /\ tail[m] \in Seq(Entry)
        /\ base \in [Nodes -> 0..Len(log)] /\ Len(tail[m]) \in Nat
    BY Numbers DEF TypeInv, TypeOK, RaftTypeOK
  <2>4. /\ Len(SubSeq(tail[m], 1, k)) = k
        /\ \A i \in 1..k : SubSeq(tail[m], 1, k)[i] = tail[m][i]
    <3>1. \A i \in 1..k : tail[m][i] \in Entry
      BY <2>3, ElementOfSeq
    <3> QED BY <2>3, <3>1, SubSeqProperties
  <2>5. \A i \in 1..k : Placed(tail[m][i], base[m] + i)
    BY <2>3 DEF PlacesOK
  <2>6. /\ log' = log /\ base' = [base EXCEPT ![n] = Len(log)]
    BY <1>2 DEF Elect
  <2>7. \A i \in 1..Len(tail'[n]) : Placed(tail'[n][i], base'[n] + i)
    BY <2>1, <2>2, <2>3, <2>4, <2>5, <2>6
  <2>8. \A l \in Nodes : l # n => tail'[l] = tail[l] /\ base'[l] = base[l]
    BY <2>2, <2>3, <2>6
  <2> QED BY <2>6, <2>7, <2>8 DEF PlacesOK, Placed
<1>3. ASSUME NEW n \in Nodes, Commit(n) PROVE PlacesOK'
  <2>1. /\ Len(log') = Len(log) + 1
        /\ \A i \in 1..Len(log) : log'[i] = log[i]
        /\ log'[Len(log) + 1] = tail[n][1]
        /\ base'[n] = base[n] + 1
        /\ Len(tail[n]) \in Nat \ {0} /\ Len(tail'[n]) = Len(tail[n]) - 1
        /\ \A i \in 1..Len(tail'[n]) : tail'[n][i] = tail[n][i + 1]
        /\ \A l \in Nodes : l # n => base'[l] = base[l] /\ tail'[l] = tail[l]
    BY <1>3, CommitEffect
  <2>2. base[n] = Len(log) /\ Len(log) \in Nat
    BY <1>3, Numbers DEF Commit, LeadOK
  <2>3. \A i \in 1..Len(tail[n]) : Placed(tail[n][i], base[n] + i)
    BY DEF PlacesOK
  <2>4. \A i \in 1..Len(log') : Placed(log'[i], i)
    <3>1. Placed(tail[n][1], Len(log) + 1)
      BY <2>1, <2>2, <2>3
    <3> QED BY <2>1, <2>2, <3>1 DEF PlacesOK
  <2>5. \A i \in 1..Len(tail'[n]) : Placed(tail'[n][i], base'[n] + i)
    <3>1. ASSUME NEW i \in 1..Len(tail'[n])
          PROVE  Placed(tail'[n][i], base'[n] + i)
      <4>1. i + 1 \in 1..Len(tail[n]) /\ base[n] + (i + 1) = base'[n] + i
        BY <2>1, <2>2
      <4>2. Placed(tail[n][i + 1], base[n] + (i + 1))
        BY <2>3, <4>1
      <4> QED BY <2>1, <4>1, <4>2
    <3> QED BY <3>1
  <2>6. \A l \in Nodes : \A i \in 1..Len(tail'[l]) : Placed(tail'[l][i], base'[l] + i)
    BY <2>1, <2>5 DEF PlacesOK
  <2> QED BY <2>4, <2>6 DEF PlacesOK, Placed
<1>4. ASSUME NEW n \in Nodes, ProposeSend(n), raftLead[n] PROVE PlacesOK'
  <2>1. /\ base[n] = applied[n]
        /\ tx[n].entry.read = base[n] /\ tx[n].entry.ver = base[n]
        /\ tail' = [tail EXCEPT ![n] = Append(tail[n], tx[n].entry)]
        /\ Len(tail'[n]) = 1 /\ tail'[n][1] = tx[n].entry
    BY <1>4, ProposeEffect
  <2>2. log' = log /\ base' = base /\ base[n] \in Nat /\ tail \in [Nodes -> Seq(Entry)]
    BY <1>4, Numbers DEF ProposeSend, TypeInv, TypeOK, RaftTypeOK
  <2>3. \A i \in 1..Len(tail'[n]) : Placed(tail'[n][i], base'[n] + i)
    BY <2>1, <2>2 DEF Placed
  <2>4. \A l \in Nodes : l # n => tail'[l] = tail[l]
    BY <2>1, <2>2
  <2>5. \A l \in Nodes : \A i \in 1..Len(tail'[l]) : Placed(tail'[l][i], base'[l] + i)
    BY <2>2, <2>3, <2>4 DEF PlacesOK
  <2> QED BY <2>2, <2>5 DEF PlacesOK, Placed
<1>5. \/ UNCHANGED <<log, tail, base>>
      \/ \E n \in Nodes : Elect(n) \/ Commit(n) \/ (ProposeSend(n) /\ raftLead[n])
  <2>1. CASE UNCHANGED vars
    BY <2>1 DEF vars, raftVars
  <2>2. ASSUME NEW n \in Nodes, RaftStep(n), ~Elect(n), ~Commit(n)
        PROVE  UNCHANGED <<log, tail, base>>
    BY <2>2 DEF RaftStep, StepDown
  <2>3. ASSUME NEW n \in Nodes,
               WriterStep(n) \/ \E o \in Objects : BeginTx(n, o),
               ~(ProposeSend(n) /\ raftLead[n])
        PROVE  UNCHANGED <<log, tail, base>>
    BY <2>3
    DEF WriterStep, BeginTx, Register, FailTx, CheckLeadership, ProposeRefused,
      ProposeSend, ProposeReturn, ProposeCtxDone, CtxCancel, WaitTriggered,
      WaitCancelled, AbortTx, PublishTx, raftVars
  <2>4. ASSUME NEW n \in Nodes, LoopStep(n) \/ CrashRestart(n) \/ Cancel(n)
        PROVE  UNCHANGED <<log, tail, base>>
    BY <2>4
    DEF LoopStep, TakeReady, CancelAll, TriggerTake, TriggerRun, NoWaiter,
        ApplyStoreActions, EndReady, InstallSnapshot, CrashRestart, Cancel, raftVars
  <2> QED BY <2>1, <2>2, <2>3, <2>4 DEF Next
<1> QED BY <1>1, <1>2, <1>3, <1>4, <1>5

-----------------------------------------------------------------------------
(* The transaction of a node and its Run loop.                              *)

(* A step that leaves a node's part alone, while the log grows and the      *)
(* node's raft instance may lose its leadership.                            *)
LEMMA LocalFrame ==
  ASSUME TypeInv, LeadOK, NEW n \in Nodes, LocalOK(n),
         Len(log') \in Nat, Len(log) <= Len(log'),
         \A i \in 1..Len(log) : log'[i] = log[i],
         tail'[n] = tail[n], base'[n] = base[n], raftLead'[n] => raftLead[n],
         loop'[n] = loop[n], applied'[n] = applied[n],
         signalled'[n] = signalled[n], tx'[n] = tx[n], inWait'[n] = inWait[n]
  PROVE  LocalOK(n)'
<1>1. /\ Len(log) \in Nat /\ base[n] \in 0..Len(log) /\ applied[n] \in 0..Len(log)
      /\ LastIndex(n)' = LastIndex(n)
  BY Numbers DEF LastIndex
<1>2. ReadOK(n)'
  BY <1>1 DEF LocalOK, ReadOK
<1>3. HeardOK(n)'
  BY DEF LocalOK, HeardOK
<1>4. AnnouncedOK(n)'
  <2> SUFFICES ASSUME signalled[n], Outstanding(n) PROVE Outstanding(n)'
    BY <1>1 DEF LocalOK, AnnouncedOK
  <2>1. applied[n] <= base[n]
    BY DEF LeadOK
  <2>2. base[n] # applied[n] => log'[applied[n] + 1] = log[applied[n] + 1]
    <3>1. base[n] # applied[n] => applied[n] + 1 \in 1..Len(log)
      BY <1>1, <2>1
    <3> QED BY <3>1
  <2>3. /\ LastIndex(n) = applied[n] + 1 /\ tx[n].pc \in {"sent", "wait"}
        /\ inWait[n] \/ loop[n] = "trigger"
        /\ base[n] = applied[n] => tail[n][1] = tx[n].entry
        /\ base[n] # applied[n] => log[applied[n] + 1] = tx[n].entry
    BY DEF Outstanding
  <2> QED BY <1>1, <2>2, <2>3 DEF Outstanding
<1> QED BY <1>2, <1>3, <1>4 DEF LocalOK

(* The steps of raft.                                                       *)
LEMMA LocalRaft ==
  ASSUME TypeInv, LeadOK, NEW n \in Nodes, LocalOK(n), NEW m \in Nodes, RaftStep(m)
  PROVE  LocalOK(n)'
<1> USE DEF TypeInv, TypeOK
<1>0. /\ UNCHANGED <<loop, applied, wasLeader, signalled, tx, inWait>>
      /\ raftLead \in [Nodes -> BOOLEAN] /\ base \in [Nodes -> 0..Len(log)]
      /\ tail \in [Nodes -> Seq(Entry)]
  BY DEF RaftStep, Elect, StepDown, Commit, loopVars, writerVars, FlagTypeOK, RaftTypeOK
<1>1. /\ Len(log) \in Nat /\ base[n] \in 0..Len(log) /\ Len(tail[n]) \in Nat
      /\ applied[n] \in 0..Len(log) /\ LastIndex(n) = base[n] + Len(tail[n])
  BY Numbers
<1>2. CASE Elect(m)
  <2>1. /\ log' = log /\ ~wasLeader[m]
        /\ base'[n] = (IF n = m THEN Len(log) ELSE base[n])
        /\ n # m => tail'[n] = tail[n] /\ raftLead'[n] = raftLead[n]
    BY <1>0, <1>2 DEF Elect
  <2>2. CASE n # m
    BY <1>0, <1>1, <2>1, <2>2, LocalFrame
  <2>3. CASE n = m
    <3>1. ~signalled[n]
      BY <2>1, <2>3 DEF LeadOK
    <3>2. ReadOK(n)'
      BY <1>0, <1>1, <2>1, <2>3 DEF LocalOK, ReadOK
    <3>3. HeardOK(n)'
      BY <1>0 DEF LocalOK, HeardOK
    <3>4. AnnouncedOK(n)'
      BY <1>0, <3>1 DEF AnnouncedOK
    <3> QED BY <3>2, <3>3, <3>4 DEF LocalOK
  <2> QED BY <2>2, <2>3
<1>3. CASE StepDown(m)
  <2>1. /\ log' = log /\ base' = base /\ tail' = tail
        /\ raftLead'[n] => raftLead[n]
    BY <1>0, <1>3 DEF StepDown
  <2> QED BY <1>0, <1>1, <2>1, LocalFrame
<1>4. CASE Commit(m)
  <2>1. /\ Len(log') = Len(log) + 1
        /\ \A i \in 1..Len(log) : log'[i] = log[i]
        /\ log'[Len(log) + 1] = tail[m][1]
        /\ base'[m] = base[m] + 1
        /\ Len(tail[m]) \in Nat \ {0} /\ Len(tail'[m]) = Len(tail[m]) - 1
        /\ n # m => base'[n] = base[n] /\ tail'[n] = tail[n]
    BY <1>4, CommitEffect
  <2>2. leader = m /\ base[m] = Len(log) /\ raftLead' = raftLead
    BY <1>4 DEF Commit, LeadOK
  <2>3. CASE n # m
    BY <1>0, <1>1, <2>1, <2>2, <2>3, LocalFrame
  <2>4. CASE n = m
    <3>1. LastIndex(n)' = LastIndex(n)
      <4>1. /\ base'[n] = base[n] + 1 /\ Len(tail'[n]) = Len(tail[n]) - 1
            /\ base[n] \in Nat /\ Len(tail[n]) \in Nat
        BY <1>1, <2>1, <2>4
      <4>2. base'[n] + Len(tail'[n]) = base[n] + Len(tail[n])
        BY <4>1
      <4> QED BY <4>2 DEF LastIndex
    <3>2. ReadOK(n)'
      <4>1. ASSUME tx[n].pc \in {"begun", "registered", "checked"}
            PROVE  /\ tx[n].entry.ver \in applied[n]..Len(log')
                   /\ raftLead[n] => tx[n].entry.ver <= base'[n]
        BY <1>1, <2>1, <2>4, <4>1 DEF LocalOK, ReadOK
      <4> QED BY <1>0, <2>2, <4>1 DEF LocalOK, ReadOK
    <3>3. HeardOK(n)'
      BY <1>0 DEF LocalOK, HeardOK
    <3>4. ASSUME signalled[n], Outstanding(n) PROVE Outstanding(n)'
      <4>1. applied[n] <= base[n] /\ LastIndex(n) = applied[n] + 1
        BY <3>4 DEF LeadOK, Outstanding
      <4>2. base[n] = applied[n]
        BY <1>1, <2>1, <2>4, <4>1
      <4>3. tail[n][1] = tx[n].entry
        BY <3>4, <4>2 DEF Outstanding
      <4>4. base'[n] # applied[n] /\ log'[applied[n] + 1] = tx[n].entry
        BY <1>1, <2>1, <2>2, <2>4, <4>2, <4>3
      <4> QED BY <1>0, <3>1, <3>4, <4>4 DEF Outstanding
    <3>5. AnnouncedOK(n)'
      BY <1>0, <3>1, <3>4 DEF LocalOK, AnnouncedOK
    <3> QED BY <3>2, <3>3, <3>5 DEF LocalOK
  <2> QED BY <2>3, <2>4
<1> QED BY <1>2, <1>3, <1>4 DEF RaftStep

(* A transaction begins with the store as it is, and ends, or goes on to    *)
(* its proposal; a wait that the Run loop is going to answer does not end   *)
(* before.                                                                  *)
LEMMA LocalWriter ==
  ASSUME TypeInv, LeadOK, NEW n \in Nodes, NodeOK(n), LocalOK(n), ~late',
         WriterStep(n) \/ \E o \in Objects : BeginTx(n, o)
  PROVE  LocalOK(n)'
<1> USE DEF TypeInv, TypeOK
<1>0. /\ tx \in [Nodes -> Tx] /\ inWait \in [Nodes -> BOOLEAN]
      /\ tail \in [Nodes -> Seq(Entry)] /\ WaitOK(n) /\ GuardOK(n) /\ CopyOK(n)
      /\ ReadOK(n) /\ HeardOK(n) /\ AnnouncedOK(n)
  BY DEF StoreTypeOK, FlagTypeOK, RaftTypeOK, NodeOK, LocalOK
<1>1. UNCHANGED <<log, base, raftLead, loop, applied, signalled>>
  BY DEF WriterStep, BeginTx, Register, FailTx, CheckLeadership, ProposeRefused,
         ProposeSend, ProposeReturn, ProposeCtxDone, CtxCancel, WaitTriggered,
         WaitCancelled, AbortTx, PublishTx, raftVars, loopVars
<1>2. /\ Len(log) \in Nat /\ base[n] \in 0..Len(log) /\ Len(tail[n]) \in Nat
      /\ applied[n] \in 0..Len(log) /\ LastIndex(n) = base[n] + Len(tail[n])
  BY Numbers
<1>3. ASSUME tail' = tail, tx'[n].pc \in {"failed", "publish", "idle", "begun"},
             ~Outstanding(n)
      PROVE  HeardOK(n)' /\ AnnouncedOK(n)'
  <2>1. LastIndex(n)' = LastIndex(n)
    BY <1>1, <1>3 DEF LastIndex
  <2> QED BY <1>0, <1>1, <1>3, <2>1 DEF HeardOK, AnnouncedOK
<1>4. ASSUME tail' = tail, tx'[n].pc \in {"failed", "publish", "idle"}, ~Outstanding(n)
      PROVE  LocalOK(n)'
  BY <1>3, <1>4 DEF ReadOK, LocalOK
<1>5. ASSUME Outstanding(n)
      PROVE  tx[n].pc \in {"sent", "wait"} /\ tx[n].ctx = "live" /\ tx[n].ch = "open"
  BY <1>0, <1>5 DEF Outstanding, WaitOK
<1>6. CASE FailTx(n) /\ ~Outstanding(n)
  <2>1. tail' = tail /\ tx'[n].pc = "failed"
    BY <1>0, <1>6 DEF FailTx, raftVars, Tx
  <2> QED BY <1>4, <1>6, <2>1
<1>7. CASE \E o \in Objects : BeginTx(n, o)
  <2>1. PICK o \in Objects : BeginTx(n, o)
    BY <1>7
  <2>2. /\ tx[n].pc = "idle" /\ tail' = tail
        /\ tx'[n].pc = "begun" /\ tx'[n].entry = NewEntry(n, o)
    BY <1>0, <2>1 DEF BeginTx, LockFree, raftVars
  <2>3. Len(store[n]) = applied[n]
    <3>1. log \in Seq(Entry) /\ applied[n] \in 0..Len(log) /\ store[n] = SubSeq(log, 1, applied[n])
      BY <1>0, <1>2 DEF CopyOK, Prefix, RaftTypeOK
    <3>2. \A i \in 1..applied[n] : log[i] \in Entry
      BY <1>2, <3>1, ElementOfSeq
    <3>3. Len(SubSeq(log, 1, applied[n])) = applied[n]
      BY <1>2, <3>1, <3>2, SubSeqProperties
    <3> QED BY <3>1, <3>3
  <2>4. RaftCommit(n) \in applied[n]..Len(log) /\ (raftLead[n] => RaftCommit(n) = base[n])
    BY <1>2 DEF RaftCommit, LeadOK
  <2>5. ReadOK(n)'
    <3>1. NewEntry(n, o).read = applied[n] /\ NewEntry(n, o).ver = RaftCommit(n)
      BY <2>3 DEF NewEntry
    <3>2. /\ tx'[n].entry.read = applied[n]
          /\ tx'[n].entry.ver \in applied[n]..Len(log)
          /\ raftLead[n] => tx'[n].entry.ver <= base[n]
      BY <1>2, <2>2, <2>4, <3>1
    <3> QED BY <1>1, <3>2 DEF ReadOK
  <2>6. ~Outstanding(n)
    BY <1>5, <2>2
  <2> QED BY <1>3, <2>2, <2>5, <2>6 DEF LocalOK
<1>8. ASSUME tail' = tail, tx'[n].entry = tx[n].entry, ~Outstanding(n),
             tx[n].pc \in {"begun", "registered"},
             tx'[n].pc \in {"registered", "checked"}, HeardOK(n)'
      PROVE  LocalOK(n)'
  <2>1. LastIndex(n)' = LastIndex(n)
    BY <1>1, <1>8 DEF LastIndex
  <2>2. ReadOK(n)'
    BY <1>0, <1>1, <1>8 DEF ReadOK
  <2>3. AnnouncedOK(n)'
    BY <1>0, <1>1, <1>8, <2>1 DEF AnnouncedOK
  <2> QED BY <1>8, <2>2, <2>3 DEF LocalOK
<1>9. CASE Register(n)
  <2>1. /\ tx[n].pc = "begun" /\ tx'[n].pc = "registered" /\ inWait'[n]
        /\ tx'[n].entry = tx[n].entry /\ tail' = tail
    BY <1>0, <1>9 DEF Register, raftVars, Tx
  <2>2. HeardOK(n)' /\ ~Outstanding(n)
    BY <1>5, <2>1 DEF HeardOK
  <2> QED BY <1>8, <2>1, <2>2
<1>10. CASE CheckLeadership(n)
  <2>1. tx[n].pc = "registered" /\ ~Outstanding(n)
    BY <1>5, <1>10 DEF CheckLeadership
  <2>2. CASE ~signalled[n]
    BY <1>6, <1>10, <2>1, <2>2 DEF CheckLeadership
  <2>3. CASE signalled[n]
    <3>1. tx' = [tx EXCEPT ![n].pc = "checked"] /\ UNCHANGED <<tail, inWait>>
      BY <1>10, <2>3, Zenon DEF CheckLeadership, raftVars
    <3>2. tx'[n] = [tx[n] EXCEPT !.pc = "checked"]
      BY <1>0, <3>1
    <3>3. /\ tx'[n].pc = "checked" /\ tx'[n].entry = tx[n].entry
          /\ tx'[n].ctx = tx[n].ctx /\ tx'[n].ch = tx[n].ch
      BY <1>0, <3>2 DEF Tx
    <3>4. HeardOK(n)'
      BY <1>0, <1>1, <2>1, <2>3, <3>1, <3>3 DEF HeardOK
    <3> QED BY <1>8, <2>1, <3>1, <3>3, <3>4
  <2> QED BY <2>2, <2>3
<1>11. CASE ProposeRefused(n)
  BY <1>5, <1>6, <1>11 DEF ProposeRefused
<1>12. CASE ProposeSend(n)
  <2>1. /\ tx[n].pc = "checked" /\ tx'[n].pc = "sent" /\ inWait' = inWait
        /\ tx'[n].entry = tx[n].entry /\ tx'[n].ctx = tx[n].ctx
        /\ tx'[n].ch = tx[n].ch
    BY <1>0, <1>12 DEF ProposeSend, Tx
  <2>2. ReadOK(n)' /\ HeardOK(n)'
    BY <1>0, <1>1, <2>1 DEF ReadOK, HeardOK
  <2>3. CASE ~raftLead[n]
    <3>1. LastIndex(n)' = LastIndex(n) /\ ~Outstanding(n)
      BY <1>1, <1>5, <1>12, <2>1, <2>3 DEF ProposeSend, LastIndex
    <3>2. AnnouncedOK(n)'
      BY <1>0, <1>1, <3>1 DEF AnnouncedOK
    <3> QED BY <2>2, <3>2 DEF LocalOK
  <2>4. CASE raftLead[n]
    <3>1. /\ inWait[n] /\ base[n] = applied[n] /\ Len(tail'[n]) = 1
          /\ tail'[n][1] = tx[n].entry
      BY <1>12, <2>4, ProposeEffect
    <3>2. LastIndex(n)' = applied[n] + 1
      BY <1>1, <1>2, <3>1 DEF LastIndex
    <3>3. Outstanding(n)'
      BY <1>1, <2>1, <3>1, <3>2 DEF Outstanding
    <3>4. AnnouncedOK(n)'
      BY <1>0, <1>1, <3>3 DEF AnnouncedOK
    <3> QED BY <2>2, <3>4 DEF LocalOK
  <2> QED BY <2>3, <2>4
<1>13. CASE ProposeReturn(n)
  <2>1. /\ tx[n].pc = "sent" /\ tx'[n].pc = "wait" /\ inWait' = inWait
        /\ tx'[n].entry = tx[n].entry /\ tx'[n].ctx = tx[n].ctx
        /\ tx'[n].ch = tx[n].ch /\ tail' = tail
    BY <1>0, <1>13 DEF ProposeReturn, raftVars, Tx
  <2>2. LastIndex(n)' = LastIndex(n)
    BY <1>1, <2>1 DEF LastIndex
  <2>3. ReadOK(n)' /\ HeardOK(n)'
    BY <1>0, <1>1, <2>1 DEF ReadOK, HeardOK
  <2>4. Outstanding(n) => Outstanding(n)'
    BY <1>1, <2>1, <2>2 DEF Outstanding
  <2>5. AnnouncedOK(n)'
    BY <1>0, <1>1, <2>2, <2>4 DEF AnnouncedOK
  <2> QED BY <2>3, <2>5 DEF LocalOK
<1>14. CASE ProposeCtxDone(n)
  BY <1>5, <1>6, <1>14 DEF ProposeCtxDone
<1>15. CASE CtxCancel(n)
  BY <1>0, <1>15 DEF CtxCancel, WaitOK
<1>16. CASE WaitTriggered(n)
  <2>1. tx[n].ch = "value" /\ tail' = tail /\ tx'[n].pc = "publish"
    BY <1>0, <1>16 DEF WaitTriggered, raftVars, Tx
  <2> QED BY <1>4, <1>5, <2>1
<1>17. CASE WaitCancelled(n)
  BY <1>5, <1>6, <1>17 DEF WaitCancelled
<1>18. CASE AbortTx(n) \/ PublishTx(n)
  <2>1. tx[n].pc \in {"failed", "publish"} /\ tail' = tail /\ tx'[n].pc = "idle"
    BY <1>0, <1>18 DEF AbortTx, PublishTx, raftVars, NoTx
  <2> QED BY <1>4, <1>5, <2>1
<1> QED
  BY <1>7, <1>9, <1>10, <1>11, <1>12, <1>13, <1>14, <1>15, <1>16, <1>17, <1>18
  DEF WriterStep

(* The Run loop of a node that has announced its leadership finds only the  *)
(* entries of its own transactions, each with its waiter.                   *)
LEMMA LocalLoop ==
  ASSUME TypeInv, LeadOK, NEW n \in Nodes, NodeOK(n), LocalOK(n), LoopStep(n)
  PROVE  LocalOK(n)'
<1> USE DEF TypeInv, TypeOK
<1>0. /\ tx \in [Nodes -> Tx] /\ inWait \in [Nodes -> BOOLEAN]
      /\ signalled \in [Nodes -> BOOLEAN] /\ WaitOK(n)
      /\ loop \in [Nodes -> {"select", "cancelAll", "apply", "trigger", "lock"}]
      /\ applied \in [Nodes -> 0..Len(log)]
      /\ ReadOK(n) /\ HeardOK(n) /\ AnnouncedOK(n) /\ LeadNode(n)
  BY LeadNodes DEF StoreTypeOK, FlagTypeOK, LoopTypeOK, NodeOK, LocalOK
<1>1. UNCHANGED <<log, tail, base, raftLead>> /\ LastIndex(n)' = LastIndex(n)
  BY DEF LoopStep, TakeReady, CancelAll, TriggerTake, TriggerRun, NoWaiter,
         ApplyStoreActions, EndReady, InstallSnapshot, raftVars, LastIndex
<1>2. /\ Len(log) \in Nat /\ base[n] \in 0..Len(log) /\ Len(tail[n]) \in Nat
      /\ applied[n] \in 0..Len(log) /\ LastIndex(n) = base[n] + Len(tail[n])
      /\ target[n] \in 0..Len(log)
  BY Numbers
<1>3. ASSUME signalled[n], applied[n] < target[n]
      PROVE  /\ LastIndex(n) = applied[n] + 1
             /\ Outstanding(n) /\ NextEntry(n) = tx[n].entry
  <2>1. applied[n] < base[n]
    BY <1>0, <1>2, <1>3 DEF LeadNode
  <2>2. Outstanding(n)
    BY <1>0, <1>2, <1>3, <2>1 DEF AnnouncedOK
  <2> QED BY <1>2, <2>1, <2>2 DEF Outstanding, NextEntry
<1>4. CASE TakeReady(n)
  <2>1. /\ loop[n] = "select" /\ UNCHANGED <<tx, inWait, applied>>
        /\ \/ loop'[n] = "cancelAll" /\ ~signalled'[n]
           \/ loop'[n] = "apply" /\ signalled'[n] = signalled[n]
    <3>1. CASE wasLeader[n] /\ ~raftLead[n]
      BY <1>0, <1>4, <3>1 DEF TakeReady, writerVars
    <3>2. CASE ~(wasLeader[n] /\ ~raftLead[n])
      BY <1>0, <1>4, <3>2 DEF TakeReady, writerVars
    <3> QED BY <3>1, <3>2
  <2>2. ReadOK(n)' /\ HeardOK(n)'
    BY <1>0, <1>1, <2>1 DEF ReadOK, HeardOK
  <2>3. Outstanding(n) => Outstanding(n)'
    BY <1>1, <2>1 DEF Outstanding
  <2>4. AnnouncedOK(n)'
    BY <1>0, <1>1, <2>1, <2>3 DEF AnnouncedOK
  <2> QED BY <2>2, <2>4 DEF LocalOK
<1>5. CASE CancelAll(n) \/ NoWaiter(n)
  <2>1. /\ loop[n] # "trigger" /\ CancelWaits(n) /\ UNCHANGED <<applied, signalled>>
    BY <1>5 DEF CancelAll, NoWaiter
  <2>2. ~signalled[n]
    <3>1. CASE CancelAll(n)
      BY <1>0, <3>1 DEF CancelAll, LeadNode
    <3>2. CASE NoWaiter(n)
      <4>1. /\ applied[n] < target[n] /\ loop[n] = "apply"
            /\ ~(inWait[n] /\ tx[n].entry.id = NextEntry(n).id)
        BY <3>2 DEF NoWaiter
      <4> QED BY <1>3, <4>1 DEF Outstanding
    <3> QED BY <1>5, <3>1, <3>2
  <2>3. /\ tx'[n].pc = tx[n].pc /\ tx'[n].entry = tx[n].entry /\ ~inWait'[n]
        /\ inWait[n] => tx'[n].ctx = "cancelled"
        /\ ~inWait[n] => tx'[n].ctx = tx[n].ctx /\ tx'[n].ch = tx[n].ch
    <3>1. CASE inWait[n]
      <4>1. tx'[n] = [tx[n] EXCEPT !.ctx = "cancelled", !.ch = "closed"]
        BY <1>0, <2>1, <3>1 DEF CancelWaits
      <4> QED BY <1>0, <2>1, <3>1, <4>1 DEF CancelWaits, Tx
    <3>2. CASE ~inWait[n]
      BY <1>0, <2>1, <3>2 DEF CancelWaits
    <3> QED BY <3>1, <3>2
  <2>4. ReadOK(n)'
    BY <1>0, <1>1, <2>1, <2>3 DEF ReadOK
  <2>5. HeardOK(n)'
    BY <1>0, <2>1, <2>3 DEF HeardOK
  <2>6. AnnouncedOK(n)'
    BY <2>1, <2>2 DEF AnnouncedOK
  <2> QED BY <2>4, <2>5, <2>6 DEF LocalOK
<1>6. CASE TriggerTake(n)
  <2>1. /\ inWait[n] /\ ~inWait'[n] /\ loop'[n] = "trigger"
        /\ UNCHANGED <<tx, applied, signalled>>
    BY <1>0, <1>6 DEF TriggerTake
  <2>2. ReadOK(n)' /\ HeardOK(n)'
    BY <1>0, <1>1, <2>1 DEF ReadOK, HeardOK
  <2>3. Outstanding(n) => Outstanding(n)'
    BY <1>1, <2>1 DEF Outstanding
  <2>4. AnnouncedOK(n)'
    BY <1>0, <1>1, <2>1, <2>3 DEF AnnouncedOK
  <2> QED BY <2>2, <2>4 DEF LocalOK
<1>7. CASE TriggerRun(n)
  <2>1. /\ loop[n] = "trigger" /\ tx[n].entry.id = NextEntry(n).id
        /\ tx[n].guard = "there" /\ tx[n].pc \in {"sent", "wait"} /\ ~inWait[n]
    BY <1>0, <1>7 DEF TriggerRun, WaitOK
  <2>2. /\ tx' = [tx EXCEPT ![n] = [@ EXCEPT !.guard = "taken", !.ch = "value"]]
        /\ applied'[n] = applied[n] + 1 /\ loop'[n] = "apply"
        /\ UNCHANGED <<inWait, signalled>>
    BY <1>0, <1>7, <2>1 DEF TriggerRun
  <2>3. tx'[n].pc = tx[n].pc /\ tx'[n].ch = "value"
    BY <1>0, <2>2 DEF Tx
  <2>4. ReadOK(n)' /\ HeardOK(n)'
    BY <2>1, <2>2, <2>3 DEF ReadOK, HeardOK
  <2>5. applied[n] < target[n]
    BY <2>1 DEF LoopOK
  <2>6. AnnouncedOK(n)'
    BY <1>1, <1>3, <2>2, <2>5 DEF AnnouncedOK
  <2> QED BY <2>4, <2>6 DEF LocalOK
<1>8. CASE ApplyStoreActions(n)
  <2>1. loop[n] = "lock" /\ tx[n].pc = "idle" /\ UNCHANGED <<tx, signalled>>
    BY <1>8 DEF ApplyStoreActions, LockFree, writerVars
  <2>2. ~signalled[n]
    BY <1>0, <2>1 DEF AnnouncedOK
  <2> QED BY <2>1, <2>2 DEF LocalOK, ReadOK, HeardOK, AnnouncedOK
<1>9. CASE EndReady(n)
  <2>1. /\ loop[n] = "apply" /\ loop'[n] = "select" /\ UNCHANGED <<tx, inWait, applied>>
        /\ signalled[n] => signalled'[n]
        /\ signalled'[n] => signalled[n] \/ (wasLeader[n] /\ applied[n] >= LastIndex(n))
    BY <1>0, <1>9 DEF EndReady, writerVars, caughtUp
  <2>2. ReadOK(n)' /\ HeardOK(n)'
    BY <1>0, <1>1, <2>1 DEF ReadOK, HeardOK
  <2>3. Outstanding(n) => Outstanding(n)'
    BY <1>1, <2>1 DEF Outstanding
  <2>4. wasLeader[n] /\ applied[n] >= LastIndex(n) => LastIndex(n) = applied[n]
    BY <1>0, <1>2 DEF LeadNode
  <2>5. AnnouncedOK(n)'
    BY <1>0, <1>1, <2>1, <2>3, <2>4 DEF AnnouncedOK
  <2> QED BY <2>2, <2>5 DEF LocalOK
<1>10. CASE InstallSnapshot(n)
  <2>1. ~wasLeader[n] /\ tx[n].pc = "idle" /\ UNCHANGED <<tx, signalled>>
    BY <1>10 DEF InstallSnapshot, LockFree, writerVars
  <2>2. ~signalled[n]
    BY <1>0, <2>1 DEF LeadNode
  <2> QED BY <2>1, <2>2 DEF LocalOK, ReadOK, HeardOK, AnnouncedOK
<1> QED BY <1>4, <1>5, <1>6, <1>7, <1>8, <1>9, <1>10 DEF LoopStep

(* Every step keeps the part of every node.                                 *)
LEMMA LocalNext ==
  ASSUME TypeInv, LeadOK, \A n \in Nodes : NodeOK(n) /\ LocalOK(n),
         [Next]_vars, ~late', NEW n \in Nodes
  PROVE  LocalOK(n)'
<1>0. /\ LocalOK(n) /\ NodeOK(n) /\ Len(log) \in Nat
      /\ tail \in [Nodes -> Seq(Entry)] /\ inWait \in [Nodes -> BOOLEAN]
      /\ signalled \in [Nodes -> BOOLEAN] /\ tx \in [Nodes -> Tx]
      /\ raftLead \in [Nodes -> BOOLEAN]
  BY Numbers DEF TypeInv, TypeOK, RaftTypeOK, FlagTypeOK, StoreTypeOK
<1>1. ASSUME log' = log,
             tail'[n] = tail[n], base'[n] = base[n], raftLead'[n] => raftLead[n],
             loop'[n] = loop[n], applied'[n] = applied[n],
             signalled'[n] = signalled[n], tx'[n] = tx[n], inWait'[n] = inWait[n]
      PROVE  LocalOK(n)'
  BY <1>0, <1>1, LocalFrame
<1>2. CASE UNCHANGED vars
  BY <1>1, <1>2 DEF vars, raftVars, loopVars, writerVars
<1>3. ASSUME NEW m \in Nodes, RaftStep(m) PROVE LocalOK(n)'
  BY <1>0, <1>3, LocalRaft
<1>4. ASSUME NEW m \in Nodes, WriterStep(m) \/ \E o \in Objects : BeginTx(m, o)
      PROVE  LocalOK(n)'
  <2>1. CASE n = m
    BY <1>0, <1>4, <2>1, LocalWriter
  <2>2. CASE n # m
    <3>1. /\ UNCHANGED <<log, loop, applied>>
          /\ tx'[n] = tx[n] /\ inWait'[n] = inWait[n]
      BY <1>4, <2>2, WriterFrame
    <3>2. UNCHANGED <<base, raftLead, signalled>> /\ tail'[n] = tail[n]
      BY <1>0, <1>4, <2>2
      DEF WriterStep, BeginTx, Register, FailTx, CheckLeadership, ProposeRefused,
         ProposeSend, ProposeReturn, ProposeCtxDone, CtxCancel, WaitTriggered,
         WaitCancelled, AbortTx, PublishTx, raftVars, loopVars
    <3> QED BY <1>1, <3>1, <3>2
  <2> QED BY <2>1, <2>2
<1>5. ASSUME NEW m \in Nodes, LoopStep(m) PROVE LocalOK(n)'
  <2>1. CASE n = m
    BY <1>0, <1>5, <2>1, LocalLoop
  <2>2. CASE n # m
    <3>1. /\ log' = log /\ loop'[n] = loop[n] /\ applied'[n] = applied[n]
          /\ tx'[n] = tx[n] /\ inWait'[n] = inWait[n]
      BY <1>5, <2>2, LoopFrame
    <3>2. UNCHANGED <<base, raftLead, tail>> /\ signalled'[n] = signalled[n]
      BY <1>0, <1>5, <2>2
      DEF LoopStep, TakeReady, CancelAll, TriggerTake, TriggerRun, NoWaiter,
          ApplyStoreActions, EndReady, InstallSnapshot, raftVars
    <3> QED BY <1>1, <3>1, <3>2
  <2> QED BY <2>1, <2>2
<1>6. ASSUME NEW m \in Nodes, CrashRestart(m) PROVE LocalOK(n)'
  <2>1. CASE n # m
    <3>1. /\ UNCHANGED <<log, tail, base>> /\ raftLead'[n] = raftLead[n]
          /\ loop'[n] = loop[n] /\ applied'[n] = applied[n]
          /\ signalled'[n] = signalled[n] /\ tx'[n] = tx[n] /\ inWait'[n] = inWait[n]
      BY <1>0, <1>6, <2>1 DEF CrashRestart, TypeInv, TypeOK, LoopTypeOK
    <3> QED BY <1>1, <3>1
  <2>2. CASE n = m
    <3>1. tx'[n].pc = "idle" /\ ~signalled'[n]
      BY <1>0, <1>6, <2>2 DEF CrashRestart, NoTx
    <3> QED BY <3>1 DEF LocalOK, ReadOK, HeardOK, AnnouncedOK
  <2> QED BY <2>1, <2>2
<1>7. ASSUME NEW m \in Nodes, Cancel(m) PROVE LocalOK(n)'
  BY <1>1, <1>7 DEF Cancel, raftVars, loopVars, writerVars
<1> QED BY <1>2, <1>3, <1>4, <1>5, <1>6, <1>7 DEF Next

-----------------------------------------------------------------------------
(* The theorems.                                                            *)

(* The initial state satisfies the invariant.                               *)
LEMMA SerialInit == Init => SerialInv
<1> SUFFICES ASSUME Init PROVE SerialInv
  OBVIOUS
<1>1. StoreInv
  BY StoreInit
<1>2. Len(<<>>) = 0
  BY EmptySeq
<1>3. /\ log = <<>> /\ leader \notin Nodes
      /\ \A n \in Nodes : /\ ~raftLead[n] /\ ~wasLeader[n] /\ ~signalled[n]
                          /\ loop[n] = "select" /\ tail[n] = <<>> /\ tx[n].pc = "idle"
  BY RaftStoreAssumption DEF Init, NoTx
<1>4. LeadOK
  BY <1>3 DEF LeadOK
<1>5. PlacesOK
  BY <1>2, <1>3 DEF PlacesOK
<1>6. \A n \in Nodes : LocalOK(n)
  BY <1>3 DEF LocalOK, ReadOK, HeardOK, AnnouncedOK
<1> QED BY <1>1, <1>4, <1>5, <1>6 DEF SerialInv

(* What has disturbed the order stays: shutdowns are counted and late       *)
(* proposals remembered.                                                    *)
LEMMA StaysDisturbed ==
  ASSUME TypeInv, [Next]_vars, Undisturbed'
  PROVE  Undisturbed
<1>0. cancels \in Nat
  BY DEF TypeInv, TypeOK, CountTypeOK
<1>1. CASE UNCHANGED vars
  BY <1>1 DEF vars, boundVars, Undisturbed
<1>2. ASSUME NEW m \in Nodes, RaftStep(m) PROVE Undisturbed
  BY <1>2 DEF RaftStep, Elect, StepDown, Commit, boundVars, Undisturbed
<1>3. ASSUME NEW m \in Nodes, WriterStep(m) \/ \E o \in Objects : BeginTx(m, o)
      PROVE  Undisturbed
  <2>1. CASE ProposeSend(m)
    <3>1. cancels' = cancels /\ late' = (late \/ (raftLead[m] /\ ~(inWait[m] /\ signalled[m])))
      BY <2>1, Zenon DEF ProposeSend, boundVars
    <3> QED BY <3>1, Zenon DEF Undisturbed
  <2>2. CASE ~ProposeSend(m)
    <3>1. cancels' = cancels /\ late' = late
      BY <1>3, <2>2
      DEF WriterStep, BeginTx, Register, FailTx, CheckLeadership, ProposeRefused,
         ProposeReturn, ProposeCtxDone, CtxCancel, WaitTriggered, WaitCancelled,
         AbortTx, PublishTx, boundVars
    <3> QED BY <3>1, Zenon DEF Undisturbed
  <2> QED BY <2>1, <2>2
<1>4. ASSUME NEW m \in Nodes, LoopStep(m) PROVE Undisturbed
  BY <1>4
  DEF LoopStep, TakeReady, CancelAll, TriggerTake, TriggerRun, NoWaiter,
      ApplyStoreActions, EndReady, InstallSnapshot, boundVars, Undisturbed
<1>5. ASSUME NEW m \in Nodes, CrashRestart(m) \/ Cancel(m) PROVE Undisturbed
  <2>1. CASE CrashRestart(m)
    BY <2>1 DEF CrashRestart, Undisturbed
  <2>2. CASE Cancel(m)
    <3>1. cancels' = cancels + 1 /\ cancels' = 0
      BY <2>2 DEF Cancel, Undisturbed
    <3> QED BY <1>0, <3>1
  <2> QED BY <1>5, <2>1, <2>2
<1> QED BY <1>1, <1>2, <1>3, <1>4, <1>5 DEF Next

(* Every step keeps the invariant.                                          *)
LEMMA SerialNext == SerialInv /\ [Next]_vars => SerialInv'
<1> SUFFICES ASSUME SerialInv, [Next]_vars PROVE SerialInv'
  OBVIOUS
<1>1. TypeInv /\ StoreInv /\ LeadOK
  BY DEF SerialInv, StoreInv
<1>2. StoreInv' /\ LeadOK'
  BY <1>1, StoreNext, LeadNext
<1>3. ASSUME Undisturbed' PROVE PlacesOK' /\ \A n \in Nodes : LocalOK(n)'
  <2>1. Undisturbed
    BY <1>1, <1>3, StaysDisturbed
  <2>2. /\ PlacesOK /\ \A n \in Nodes : LocalOK(n) /\ NodeOK(n)
    BY <1>1, <2>1 DEF SerialInv, StoreInv, Undisturbed
  <2>3. ~late'
    BY <1>3 DEF Undisturbed
  <2>4. PlacesOK'
    BY <1>1, <2>2, <2>3, PlacesNext
  <2>5. \A n \in Nodes : LocalOK(n)'
    BY <1>1, <2>2, <2>3, LocalNext
  <2> QED BY <2>4, <2>5
<1> QED BY <1>2, <1>3 DEF SerialInv

(* The invariant holds in every reachable state.                            *)
LEMMA SerialAlways == Spec => []SerialInv
BY SerialInit, SerialNext, PTL DEF Spec

(* Serializable: until a manager is told to shut down or a proposal slips   *)
(* into a later term than its leadership check, every committed entry was   *)
(* computed from the store that holds exactly the entries before it, and    *)
(* the versions touchMeta stamps on an object grow.                         *)
THEOREM SerialSafe == Spec => []Serializable
<1>1. SerialInv => Serializable
  <2> SUFFICES ASSUME SerialInv, Undisturbed
               PROVE  /\ \A i \in DOMAIN log : log[i].read = i - 1
                      /\ \A i, j \in DOMAIN log :
                           i < j /\ log[i].obj = log[j].obj => log[i].ver < log[j].ver
    BY DEF Serializable, Undisturbed
  <2>1. DOMAIN log = 1..Len(log) /\ Len(log) \in Nat
    BY LenProperties DEF SerialInv, StoreInv, TypeInv, TypeOK, RaftTypeOK
  <2>2. \A i \in 1..Len(log) : log[i].read = i - 1 /\ log[i].ver = i - 1
    BY DEF SerialInv, PlacesOK, Placed
  <2> QED BY <2>1, <2>2
<1> QED BY <1>1, SerialAlways, PTL

(* NoDeadlock: with the same provisos, the Run loop of a manager never      *)
(* waits for updateLock while the transaction that holds it waits for the   *)
(* Run loop.                                                                *)
THEOREM DeadlockFree == Spec => []NoDeadlock
<1>1. SerialInv => NoDeadlock
  <2> SUFFICES ASSUME SerialInv, Undisturbed, NEW n \in Nodes, Deadlocked(n)
               PROVE  FALSE
    BY DEF NoDeadlock, Undisturbed
  <2>1. /\ loop[n] = "lock" /\ tx[n].pc = "wait" /\ tx[n].ch = "open"
        /\ tx[n].ctx = "live"
    BY DEF Deadlocked
  <2>2. HeardOK(n) /\ AnnouncedOK(n)
    BY DEF SerialInv, LocalOK
  <2>3. inWait[n]
    BY <2>1, <2>2 DEF HeardOK
  <2>4. signalled[n]
    BY <2>1, <2>2, <2>3 DEF HeardOK
  <2> QED BY <2>1, <2>2, <2>4 DEF AnnouncedOK
<1> QED BY <1>1, SerialAlways, PTL
=============================================================================
