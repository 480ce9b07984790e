----------------------- MODULE InterviewServiceProofs -----------------------
(***************************************************************************)
(* Proofs about InterviewService, for any number of sessions, transaction  *)
(* slots, retries and crashes, and for transactions that overlap in any    *)
(* way.                                                                    *)
(*                                                                         *)
(* The argument.  Every handler writes from a row it read earlier, so an   *)
(* invariant of the row alone is not inductive: what a snapshot says must  *)
(* be tied to what the row says now.  SnapshotsKeepUp is that tie: the two *)
(* timestamp columns are only ever set, and an interview that has left     *)
(* None, CREATED or the waiting statuses never comes back to them.  With   *)
(* it, a column that the flush leaves out is one that the committed row    *)
(* already has.                                                            *)
(*                                                                         *)
(* The same tie shows what becomes of the status.  A handler decides on    *)
(* what it read, and the row may have moved since.  While the row is live  *)
(* it has moved so little that what LEGAL let the handler do it still lets *)
(* happen; once the row is terminal, writing over it is what overwritten   *)
(* records.  So the row implements InterviewLifecycle, and until the first *)
(* such write an end is final: it is stamped once, and the step that makes *)
(* it is the only one that sets a chain off.                               *)
(***************************************************************************)
EXTENDS InterviewService, TLAPS

Waiting == {None, "CREATED", "INVITED"}

(* What holds of every row, committed or read.                             *)
RowInv(r) ==
  /\ r.status \in TERMINAL => r.completed_at # None
  /\ r.status = "IN_PROGRESS" => r.started_at # None
  /\ r.status \in Waiting => r.started_at = None /\ r.completed_at = None
  /\ r.status = "EXPIRED" => r.started_at = None

(* The committed row is at least as far as one read before it.             *)
KeepsUp(read, now) ==
  /\ read.started_at # None => now.started_at # None
  /\ read.completed_at # None => now.completed_at # None
  /\ read.status # None => now.status # None
  /\ read.status \notin {None, "CREATED"} => now.status \notin {None, "CREATED"}
  /\ read.status \notin Waiting => now.status \notin Waiting

SnapshotsKeepUp ==
  \A t \in Txns : txn[t].op # "idle" =>
    /\ txn[t].read.status # None
    /\ RowInv(txn[t].read)
    /\ KeepsUp(txn[t].read, row)

(* A start that has gone on to the plan passed its own check.              *)
StartsChecked ==
  \A t \in Txns : txn[t].op = "start" /\ txn[t].plan # None
                  => StartAllowed(txn[t].read)

(* A finalize task belongs to a session whose chain has been set off.      *)
FinalizesSetOff ==
  \A t \in Txns : txn[t].op = "finalize" =>
    txn[t].session \in Sessions /\ job[txn[t].session].state # "none"

IInv ==
  /\ TypeOK
  /\ RowInv(row)
  /\ SnapshotsKeepUp
  /\ StartsChecked
  /\ FinalizesSetOff
  /\ FrozenImpliesStarted
  /\ ChainOnlyAfterEnd
-----------------------------------------------------------------------------
(* Facts about the state machine and the flush.                            *)

(* The terminal statuses are the four that LEGAL leaves without a move.    *)
LEMMA TerminalIs ==
  TERMINAL = {"COMPLETED", "ABANDONED", "TERMINATED", "EXPIRED"}
BY DEF TERMINAL, LEGAL, Statuses

(* Going live stamps started_at, becoming terminal stamps completed_at,    *)
(* and nothing else stamps either.                                         *)
LEMMA StampsIs ==
  ASSUME NEW target \in Statuses
  PROVE  /\ stamps("started_at", target) <=> target = "IN_PROGRESS"
         /\ stamps("completed_at", target) <=> target \in TERMINAL
<1>1. DOMAIN TIMESTAMP_COLUMN =
        {"IN_PROGRESS", "COMPLETED", "ABANDONED", "TERMINATED", "EXPIRED"}
  BY DEF TIMESTAMP_COLUMN
<1>2. /\ TIMESTAMP_COLUMN["IN_PROGRESS"] = "started_at"
      /\ TIMESTAMP_COLUMN["COMPLETED"] = "completed_at"
      /\ TIMESTAMP_COLUMN["ABANDONED"] = "completed_at"
      /\ TIMESTAMP_COLUMN["TERMINATED"] = "completed_at"
      /\ TIMESTAMP_COLUMN["EXPIRED"] = "completed_at"
  BY DEF TIMESTAMP_COLUMN
<1> QED
  BY <1>1, <1>2, TerminalIs DEF stamps, Statuses

(* INVITED is the only status LEGAL lets into IN_PROGRESS: a CREATED       *)
(* interview cannot be started.                                            *)
LEMMA OnlyInvitedStarts ==
  ASSUME NEW s \in Statuses, "IN_PROGRESS" \in LEGAL[s]
  PROVE  s = "INVITED"
<1>1. /\ "IN_PROGRESS" \notin LEGAL["CREATED"]
      /\ "IN_PROGRESS" \notin LEGAL["IN_PROGRESS"]
  BY DEF LEGAL
<1>2. /\ LEGAL["COMPLETED"] = {} /\ LEGAL["ABANDONED"] = {}
      /\ LEGAL["TERMINATED"] = {} /\ LEGAL["EXPIRED"] = {}
  BY DEF LEGAL
<1> QED
  BY <1>1, <1>2 DEF Statuses

(* What a handler may turn the row it read into: a row that differs in the *)
(* recording key alone, a start, or an end other than an expiry.           *)
Legit(read, new) ==
  /\ \/ /\ new.status = read.status
        /\ new.started_at = read.started_at
        /\ new.completed_at = read.completed_at
     \/ /\ read.status = "INVITED" /\ new.status = "IN_PROGRESS"
        /\ new.started_at # None
        /\ new.completed_at = read.completed_at
     \/ /\ read.status \notin TERMINAL /\ new.status \in TERMINAL \ {"EXPIRED"}
        /\ new.status \in LEGAL[read.status]
        /\ new.started_at = read.started_at
        /\ new.completed_at = IF read.completed_at = None THEN new.status
                                                          ELSE read.completed_at

(* A row keeps up with itself: steps that leave the row alone make no      *)
(* snapshot stale.                                                         *)
LEMMA KeepsUpRefl == ASSUME NEW r PROVE KeepsUp(r, r)
BY DEF KeepsUp

(* Keeping up is transitive, so a snapshot keeps up with whatever commits  *)
(* after it.                                                               *)
LEMMA KeepsUpTrans ==
  ASSUME NEW a, NEW b, NEW c, KeepsUp(a, b), KeepsUp(b, c)
  PROVE  KeepsUp(a, c)
BY DEF KeepsUp

(* Flushing a legitimate change onto whatever the row has become keeps the *)
(* row's invariant and only moves it forward.                              *)
LEMMA FlushKeeps ==
  ASSUME NEW read \in Row, NEW new \in Row, row \in Row,
         RowInv(read), RowInv(row), KeepsUp(read, row), Legit(read, new),
         row' = Flushed(read, new)
  PROVE  row' \in Row /\ RowInv(row') /\ KeepsUp(row, row')
<1> DEFINE c(k) == IF new[k] # read[k] THEN new[k] ELSE row[k]
<1>1. /\ row'.status = c("status")
      /\ row'.started_at = c("started_at")
      /\ row'.completed_at = c("completed_at")
      /\ row'.recording_key = c("recording_key")
  BY DEF Flushed
<1>2. row' \in Row
  BY DEF Flushed, Row
<1>3. CASE new.status = read.status /\ new.started_at = read.started_at
           /\ new.completed_at = read.completed_at
  BY <1>1, <1>2, <1>3 DEF RowInv, KeepsUp, Row
<1>4. CASE read.status = "INVITED" /\ new.status = "IN_PROGRESS"
           /\ new.started_at # None /\ new.completed_at = read.completed_at
  <2>1. row'.status = "IN_PROGRESS"
    BY <1>1, <1>4
  <2>2. read.started_at = None
    BY <1>4 DEF RowInv, Waiting
  <2>3. row'.started_at # None /\ row'.completed_at = row.completed_at
    BY <1>1, <1>4, <2>2
  <2> QED
    BY <1>2, <2>1, <2>3, TerminalIs DEF RowInv, KeepsUp, Waiting, None
<1>5. CASE /\ read.status \notin TERMINAL /\ new.status \in TERMINAL \ {"EXPIRED"}
           /\ new.started_at = read.started_at
           /\ new.completed_at = IF read.completed_at = None THEN new.status
                                                             ELSE read.completed_at
  <2>1. row'.status = new.status /\ row'.started_at = row.started_at
    BY <1>1, <1>5
  <2>2. row'.completed_at # None
    BY <1>1, <1>5, TerminalIs DEF KeepsUp, None
  <2> QED
    BY <1>2, <1>5, <2>1, <2>2, TerminalIs DEF RowInv, KeepsUp, Waiting, None
<1> QED
  BY <1>2, <1>3, <1>4, <1>5 DEF Legit

(* transition() to a live or terminal status, from a row it accepts.       *)
LEMMA TransitionLegit ==
  ASSUME NEW read \in Row, NEW target \in Statuses \ {"CREATED", "INVITED", "EXPIRED"},
         read.status \in Statuses \ TERMINAL, accepts(read.status, target)
  PROVE  /\ transition(read, target) \in Row
         /\ Legit(read, transition(read, target))
<1> DEFINE new == transition(read, target)
<1>1. CASE read.status = target
  BY <1>1 DEF transition, Legit
<1>2. CASE read.status # target
  <2>1. target \in LEGAL[read.status]
    BY <1>2 DEF accepts, can_transition
  <2>2. new = [read EXCEPT
                 !.status       = target,
                 !.started_at   = IF stamps("started_at", target) /\ @ = None
                                  THEN target ELSE @,
                 !.completed_at = IF stamps("completed_at", target) /\ @ = None
                                  THEN target ELSE @]
    BY <1>2 DEF transition
  <2>3. new \in Row
    BY <2>2 DEF Row, Stamps
  <2>4. CASE target = "IN_PROGRESS"
    <3>1. read.status = "INVITED"
      BY <2>1, <2>4, OnlyInvitedStarts
    <3>2. stamps("started_at", target) /\ ~stamps("completed_at", target)
      BY <2>4, StampsIs, TerminalIs
    <3>3. /\ new.status = target
          /\ new.started_at = IF read.started_at = None THEN target ELSE read.started_at
          /\ new.completed_at = read.completed_at
      BY <2>2, <3>2 DEF Row
    <3> QED
      BY <2>3, <2>4, <3>1, <3>3 DEF Legit, None
  <2>5. CASE target # "IN_PROGRESS"
    <3>1. target \in TERMINAL \ {"EXPIRED"}
      BY <2>5, TerminalIs DEF Statuses
    <3>2. ~stamps("started_at", target) /\ stamps("completed_at", target)
      BY <2>5, <3>1, StampsIs
    <3>3. /\ new.status = target
          /\ new.started_at = read.started_at
          /\ new.completed_at = IF read.completed_at = None THEN target ELSE read.completed_at
      BY <2>2, <3>2 DEF Row
    <3> QED
      BY <2>1, <2>3, <3>1, <3>3 DEF Legit
  <2> QED
    BY <2>4, <2>5
<1> QED
  BY <1>1, <1>2
-----------------------------------------------------------------------------
(* What opening, closing and leaving alone the transactions preserves.     *)

TxnInv == txn \in [Txns -> Txn] /\ SnapshotsKeepUp /\ StartsChecked

(* The empty transaction slot is a transaction record.                     *)
LEMMA IdleTyped == Idle \in Txn
BY DEF Idle, Txn, NoRow, Row, Stamps, PlanShapes

(* Opening a transaction, which reads the row as it is, leaves every       *)
(* snapshot in order.                                                      *)
LEMMA OpenKeeps ==
  ASSUME TypeOK, TxnInv, RowInv(row), UNCHANGED row,
         NEW t \in Txns, NEW op \in Ops, NEW s \in {None} \cup Sessions,
         NEW reason \in {None} \cup Reasons, NEW recorded \in BOOLEAN,
         Open(t, op, s, reason, recorded)
  PROVE  TxnInv'
<1> DEFINE x == [op |-> op, session |-> s, reason |-> reason,
                 recorded |-> recorded, read |-> row, plan |-> None]
<1>1. txn' = [txn EXCEPT ![t] = x]
  BY DEF Open
<1>2. x \in Txn
  BY DEF TypeOK, Txn
<1>3. txn' \in [Txns -> Txn]
  BY <1>1, <1>2 DEF TxnInv
<1>4. \A u \in Txns : txn'[u] = IF u = t THEN x ELSE txn[u]
  BY <1>1 DEF TxnInv
<1>5. row.status # None
  BY DEF Open
<1>6. SnapshotsKeepUp'
  BY <1>4, <1>5, KeepsUpRefl DEF TxnInv, SnapshotsKeepUp, RowInv, KeepsUp
<1>7. StartsChecked'
  BY <1>4 DEF TxnInv, StartsChecked
<1> QED
  BY <1>3, <1>6, <1>7 DEF TxnInv

(* So does closing one, over any row that keeps up with the last.          *)
LEMMA CloseKeeps ==
  ASSUME TxnInv, NEW t \in Txns, Close(t), KeepsUp(row, row')
  PROVE  TxnInv'
<1>1. txn' \in [Txns -> Txn]
  BY IdleTyped DEF TxnInv, Close
<1>2. \A u \in Txns : txn'[u] = IF u = t THEN Idle ELSE txn[u]
  BY DEF TxnInv, Close
<1>3. Idle.op = "idle"
  BY DEF Idle
<1>4. SnapshotsKeepUp'
  <2> SUFFICES ASSUME NEW u \in Txns, txn'[u].op # "idle"
               PROVE  /\ txn'[u].read.status # None
                      /\ RowInv(txn'[u].read)
                      /\ KeepsUp(txn'[u].read, row')
    BY DEF SnapshotsKeepUp, RowInv, KeepsUp
  <2>1. txn'[u] = txn[u]
    BY <1>2, <1>3
  <2> QED
    BY <2>1, KeepsUpTrans DEF TxnInv, SnapshotsKeepUp
<1>5. StartsChecked'
  BY <1>2, <1>3 DEF TxnInv, StartsChecked
<1> QED
  BY <1>1, <1>4, <1>5 DEF TxnInv

(* And so does a step that touches no transaction.                         *)
LEMMA UnchangedKeeps ==
  ASSUME TxnInv, UNCHANGED txn, KeepsUp(row, row')
  PROVE  TxnInv'
<1>1. SnapshotsKeepUp'
  <2> SUFFICES ASSUME NEW u \in Txns, txn'[u].op # "idle"
               PROVE  /\ txn'[u].read.status # None
                      /\ RowInv(txn'[u].read)
                      /\ KeepsUp(txn'[u].read, row')
    BY DEF SnapshotsKeepUp, RowInv, KeepsUp
  <2> QED
    BY KeepsUpTrans DEF TxnInv, SnapshotsKeepUp
<1> QED
  BY <1>1 DEF TxnInv, StartsChecked
-----------------------------------------------------------------------------
(* The step: every action keeps IInv and moves the row forward.            *)

Good == IInv' /\ KeepsUp(row, row')

(* The transactions' part of the invariant.                                *)
LEMMA IInvTxn == IInv => TxnInv
BY DEF IInv, TypeOK, TxnInv

(* A chain that was set off stays set off.                                 *)
JobsStay == \A s \in Sessions : job[s].state # "none" => job'[s].state # "none"

(* A finalize task open after the step was open before, or its chain is    *)
(* one that had been set off.                                              *)
FinalizesStay ==
  \A t \in Txns : txn'[t].op = "finalize" =>
    \/ txn[t].op = "finalize" /\ txn'[t].session = txn[t].session
    \/ txn'[t].session \in Sessions /\ job[txn'[t].session].state # "none"

(* Opening a transaction: a finalize is opened for a chain set off.        *)
LEMMA OpenStays ==
  ASSUME TxnInv, NEW t \in Txns, NEW op, NEW s, NEW reason, NEW recorded,
         Open(t, op, s, reason, recorded),
         op = "finalize" => s \in Sessions /\ job[s].state # "none"
  PROVE  FinalizesStay
<1> DEFINE x == [op |-> op, session |-> s, reason |-> reason,
                 recorded |-> recorded, read |-> row, plan |-> None]
<1>1. \A u \in Txns : txn'[u] = IF u = t THEN x ELSE txn[u]
  BY DEF Open, TxnInv
<1>2. x.op = op /\ x.session = s
  OBVIOUS
<1> QED
  BY <1>1, <1>2 DEF FinalizesStay

(* Closing one opens none.                                                 *)
LEMMA CloseStays ==
  ASSUME TxnInv, NEW t \in Txns, Close(t)
  PROVE  FinalizesStay
<1>1. \A u \in Txns : txn'[u] = IF u = t THEN Idle ELSE txn[u]
  BY DEF TxnInv, Close
<1>2. Idle.op = "idle"
  BY DEF Idle
<1> QED
  BY <1>1, <1>2 DEF FinalizesStay

(* What is left to show of a step once its transactions are accounted for. *)
LEMMA Conclude ==
  ASSUME IInv, TypeOK', TxnInv', RowInv(row'), KeepsUp(row, row'),
         JobsStay, FinalizesStay,
         plan' = "Frozen" => plan = "Frozen" \/ row'.started_at # None,
         \A s \in Sessions : job'[s].state # "none"
            => job[s].state # "none" \/ row'.completed_at # None
  PROVE  Good
<1>1. FrozenImpliesStarted'
  BY DEF IInv, FrozenImpliesStarted, KeepsUp
<1>2. ChainOnlyAfterEnd'
  BY DEF IInv, ChainOnlyAfterEnd, KeepsUp
<1>3. FinalizesSetOff'
  BY DEF IInv, FinalizesSetOff, JobsStay, FinalizesStay
<1> QED
  BY <1>1, <1>2, <1>3 DEF Good, IInv, TxnInv, RowInv

(* Neither the row nor a transaction changes.                              *)
LEMMA QuietStep ==
  ASSUME IInv, TypeOK', UNCHANGED <<row, txn>>, JobsStay,
         plan' = "Frozen" => plan = "Frozen",
         \A s \in Sessions : job'[s].state # "none" => job[s].state # "none"
  PROVE  Good
<1>1. KeepsUp(row, row') /\ RowInv(row')
  BY KeepsUpRefl DEF IInv, RowInv
<1>2. TxnInv'
  BY <1>1, UnchangedKeeps, IInvTxn
<1>3. FinalizesStay
  BY DEF FinalizesStay
<1> QED
  BY <1>1, <1>2, <1>3, Conclude

(* A transaction is opened, and nothing but the bus changes besides.       *)
LEMMA OpenStep ==
  ASSUME IInv, TxnInv', FinalizesStay, bus' \subseteq bus,
         UNCHANGED <<row, plan, sess, job, score, crashes, overwritten>>
  PROVE  Good
<1>1. KeepsUp(row, row') /\ RowInv(row')
  BY KeepsUpRefl DEF IInv, RowInv
<1>2. TypeOK'
  BY DEF IInv, TypeOK, TxnInv
<1>3. JobsStay
  BY DEF JobsStay
<1> QED
  BY <1>1, <1>2, <1>3, Conclude

(* A transaction is closed without a write to the row.                     *)
LEMMA CloseStep ==
  ASSUME IInv, NEW t \in Txns, Close(t), job' \in [Sessions -> Job], score' \in BOOLEAN,
         UNCHANGED <<row, plan, sess, bus, crashes, overwritten>>, JobsStay,
         \A s \in Sessions : job'[s].state # "none" => job[s].state # "none"
  PROVE  Good
<1>1. KeepsUp(row, row') /\ RowInv(row')
  BY KeepsUpRefl DEF IInv, RowInv
<1>2. TxnInv'
  BY <1>1, CloseKeeps, IInvTxn
<1>3. TypeOK'
  BY <1>2 DEF IInv, TypeOK, TxnInv
<1>4. FinalizesStay
  BY CloseStays, IInvTxn
<1> QED
  BY <1>1, <1>2, <1>3, <1>4, Conclude

(* A handler commits a legitimate change of the row it read.               *)
LEMMA CommitStep ==
  ASSUME IInv, NEW t \in Txns, txn[t].op # "idle", NEW new \in Row,
         Legit(txn[t].read, new), Commit(t, new),
         plan' \in PlanShapes, job' \in [Sessions -> Job],
         UNCHANGED <<sess, bus, score, crashes>>, JobsStay,
         plan' = "Frozen" => plan = "Frozen" \/ row'.started_at # None,
         \A s \in Sessions : job'[s].state # "none"
            => job[s].state # "none" \/ row'.completed_at # None
  PROVE  Good
<1>1. txn[t].read \in Row
  BY DEF IInv, TypeOK, Txn
<1>2. row' \in Row /\ RowInv(row') /\ KeepsUp(row, row')
  BY <1>1, FlushKeeps DEF IInv, TypeOK, SnapshotsKeepUp, Commit
<1>3. TxnInv'
  BY <1>2, CloseKeeps, IInvTxn DEF Commit
<1>4. TypeOK'
  <2>1. overwritten' \in BOOLEAN
    BY DEF IInv, TypeOK, Commit, EndedMeanwhile
  <2> QED
    BY <1>2, <1>3, <2>1 DEF IInv, TypeOK, TxnInv
<1>5. FinalizesStay
  BY CloseStays, IInvTxn DEF Commit
<1> QED
  BY <1>2, <1>3, <1>4, <1>5, Conclude
-----------------------------------------------------------------------------
(* One lemma per group of actions, one step per action.                    *)

(* Scheduling, inviting and the expiry reaper keep the invariant.          *)
LEMMA CreationSteps ==
  ASSUME IInv, create_interview \/ create_invite \/ expire_stale
  PROVE  Good
<1>1. UNCHANGED <<plan, sess, bus, txn, job, score, crashes, overwritten>>
  BY DEF create_interview, create_invite, expire_stale
<1>2. row' \in Row /\ RowInv(row') /\ KeepsUp(row, row')
  <2>1. CASE create_interview \/ create_invite
    <3>1. row'.status \in {"CREATED", "INVITED"} /\ row'.started_at = None /\ row' \in Row
      BY <2>1 DEF create_interview, create_invite, NoRow, Row, Stamps, Statuses
    <3>2. row.status = None
      BY <2>1 DEF create_interview, create_invite
    <3>3. row.started_at = None /\ row.completed_at = None
      BY <3>2 DEF IInv, RowInv, Waiting
    <3>4. row'.completed_at = None
      BY <2>1 DEF create_interview, create_invite, NoRow
    <3> QED
      BY <3>1, <3>2, <3>3, <3>4, TerminalIs DEF RowInv, KeepsUp, Waiting, None
  <2>2. CASE expire_stale
    <3>1. /\ row' \in Row
          /\ row'.status = "EXPIRED" /\ row'.completed_at = "EXPIRED"
          /\ row'.started_at = row.started_at
      BY <2>2 DEF expire_stale, IInv, TypeOK, Row, Stamps, Statuses
    <3>2. row.started_at = None
      BY <2>2 DEF expire_stale, IInv, RowInv, Waiting
    <3> QED
      BY <3>1, <3>2, TerminalIs DEF RowInv, KeepsUp, Waiting, None
  <2> QED
    BY <2>1, <2>2
<1>3. TxnInv'
  BY <1>1, <1>2, UnchangedKeeps, IInvTxn
<1>4. TypeOK'
  BY <1>1, <1>2 DEF IInv, TypeOK
<1>5. JobsStay /\ FinalizesStay
  BY <1>1 DEF JobsStay, FinalizesStay
<1> QED
  BY <1>1, <1>2, <1>3, <1>4, <1>5, Conclude

(* So do the plan's writers, the voice sessions and the broker.            *)
LEMMA SessionSteps ==
  ASSUME IInv,
         \/ \E shape \in PlanShapes \ {"Frozen"} : PlanWritten(shape)
         \/ \E s \in Sessions : SessionNext(s) \/ enqueue(s) \/ EnqueueFails(s)
  PROVE  Good
<1>1. ASSUME NEW shape \in PlanShapes \ {"Frozen"}, PlanWritten(shape)
      PROVE  Good
  <2>1. TypeOK'
    BY <1>1 DEF IInv, TypeOK, PlanWritten
  <2> QED
    BY <1>1, <2>1, QuietStep DEF PlanWritten, JobsStay
<1>2. ASSUME NEW s \in Sessions, SessionNext(s)
      PROVE  Good
  <2>1. UNCHANGED <<row, plan, txn, job, score, crashes, overwritten>>
    BY <1>2 DEF SessionNext, offer, OfferFails, SessionStarts, SessionEnds, SessionVanishes
  <2>2. sess' \in [Sessions -> {"none", "offered", "live", "over"}]
    BY <1>2 DEF IInv, TypeOK, SessionNext, offer, OfferFails, SessionStarts, SessionEnds,
                SessionVanishes
  <2>3. bus' \subseteq Event
    <3>1. Started(s) \in Event
      BY DEF Started, Event
    <3>2. \A reason \in Reasons, recorded \in BOOLEAN : Ended(s, reason, recorded) \in Event
      BY DEF Ended, Event
    <3> QED
      BY <1>2, <3>1, <3>2 DEF IInv, TypeOK, SessionNext, offer, OfferFails, SessionStarts,
                              SessionEnds, SessionVanishes
  <2>4. TypeOK'
    BY <2>1, <2>2, <2>3 DEF IInv, TypeOK
  <2> QED
    BY <2>1, <2>4, QuietStep DEF JobsStay
<1>3. ASSUME NEW s \in Sessions, enqueue(s) \/ EnqueueFails(s)
      PROVE  Good
  <2>1. UNCHANGED <<row, plan, sess, bus, txn, score, crashes, overwritten>>
    BY <1>3 DEF enqueue, EnqueueFails
  <2>2. \A u \in Sessions : job'[u].state # "none" <=> job[u].state # "none"
    BY <1>3 DEF enqueue, EnqueueFails, IInv, TypeOK, Job
  <2>3. job' \in [Sessions -> Job]
    BY <1>3 DEF enqueue, EnqueueFails, IInv, TypeOK, Job
  <2>4. TypeOK'
    BY <2>1, <2>3 DEF IInv, TypeOK
  <2> QED
    BY <2>1, <2>2, <2>4, QuietStep DEF JobsStay
<1> QED
  BY <1>1, <1>2, <1>3

(* So does a handler or a task that reads the row.                         *)
LEMMA OpenSteps ==
  ASSUME IInv, NEW t \in Txns,
         \/ \E e \in bus : on_session_started(t, e) \/ on_session_ended(t, e)
         \/ \E s \in Sessions : finalize_reads(t, s)
         \/ terminate_reads(t)
         \/ start_reads_plan(t)
  PROVE  Good
<1>0. TypeOK /\ RowInv(row) /\ TxnInv
  BY IInvTxn DEF IInv
<1>1. ASSUME NEW e \in bus, on_session_started(t, e) \/ on_session_ended(t, e)
      PROVE  Good
  <2>1. e.session \in Sessions /\ e.reason \in {None} \cup Reasons /\ e.recorded \in BOOLEAN
    BY <1>0 DEF TypeOK, Event
  <2>2. UNCHANGED <<row, plan, sess, job, score, crashes, overwritten>> /\ bus' \subseteq bus
    BY <1>1 DEF on_session_started, on_session_ended
  <2>3. PICK op \in {"start", "end"}, reason \in {None} \cup Reasons, recorded \in BOOLEAN :
          Open(t, op, e.session, reason, recorded)
    BY <1>1, <2>1 DEF on_session_started, on_session_ended
  <2>4. TxnInv'
    BY <1>0, <2>1, <2>2, <2>3, OpenKeeps DEF Ops
  <2>5. FinalizesStay
    BY <1>0, <2>3, OpenStays
  <2> QED
    BY <2>2, <2>4, <2>5, OpenStep
<1>2. ASSUME NEW s \in Sessions, finalize_reads(t, s)
      PROVE  Good
  <2>1. /\ Open(t, "finalize", s, None, FALSE) /\ job[s].state # "none"
        /\ UNCHANGED <<row, plan, sess, bus, job, score, crashes, overwritten>>
    BY <1>2 DEF finalize_reads
  <2>2. TxnInv'
    BY <1>0, <2>1, OpenKeeps DEF Ops
  <2>3. FinalizesStay
    BY <1>0, <2>1, OpenStays
  <2> QED
    BY <2>1, <2>2, <2>3, OpenStep
<1>3. CASE terminate_reads(t)
  <2>1. /\ Open(t, "terminate", None, None, FALSE)
        /\ UNCHANGED <<row, plan, sess, bus, job, score, crashes, overwritten>>
    BY <1>3 DEF terminate_reads
  <2>2. TxnInv'
    BY <1>0, <2>1, OpenKeeps DEF Ops
  <2>3. FinalizesStay
    BY <1>0, <2>1, OpenStays
  <2> QED
    BY <2>1, <2>2, <2>3, OpenStep
<1>4. CASE start_reads_plan(t)
  <2>1. /\ StartAllowed(txn[t].read)
        /\ txn' = [txn EXCEPT ![t].plan = plan]
        /\ UNCHANGED <<row, plan, sess, bus, job, score, crashes, overwritten>>
    BY <1>4 DEF start_reads_plan
  <2>2. txn' \in [Txns -> Txn]
    BY <2>1 DEF IInv, TypeOK, Txn
  <2>3. /\ \A u \in Txns \ {t} : txn'[u] = txn[u]
        /\ txn'[t].op = txn[t].op /\ txn'[t].read = txn[t].read
        /\ txn'[t].session = txn[t].session
    BY <2>1 DEF IInv, TypeOK, Txn
  <2>4. SnapshotsKeepUp'
    BY <2>1, <2>3 DEF IInv, SnapshotsKeepUp, RowInv, KeepsUp
  <2>5. StartsChecked'
    BY <2>1, <2>3 DEF IInv, StartsChecked
  <2>6. FinalizesStay
    BY <2>3 DEF FinalizesStay
  <2> QED
    BY <2>1, <2>2, <2>4, <2>5, <2>6, OpenStep DEF TxnInv
<1> QED
  BY <1>1, <1>2, <1>3, <1>4

(* So does one that raises or rolls back, and a finalize task's last step. *)
LEMMA CloseSteps ==
  ASSUME IInv, NEW t \in Txns,
         \/ start_raises(t) \/ end_raises(t) \/ terminate_raises(t)
         \/ finalize_commits(t) \/ finalize_raises(t) \/ RolledBack(t)
  PROVE  Good
<1>1. CASE start_raises(t) \/ end_raises(t) \/ terminate_raises(t) \/ RolledBack(t)
  <2>1. Close(t) /\ UNCHANGED <<row, plan, sess, bus, job, score, crashes, overwritten>>
    BY <1>1 DEF start_raises, end_raises, terminate_raises, RolledBack
  <2> QED
    BY <2>1, CloseStep DEF IInv, TypeOK, JobsStay
<1>2. CASE finalize_commits(t) \/ finalize_raises(t)
  <2> DEFINE s == txn[t].session
  <2>1. /\ Close(t) /\ score' \in BOOLEAN
        /\ UNCHANGED <<row, plan, sess, bus, crashes, overwritten>>
    BY <1>2 DEF finalize_commits, finalize_raises, IInv, TypeOK
  <2>2. s \in Sessions /\ job[s].state # "none"
    BY <1>2 DEF finalize_commits, finalize_raises, IInv, FinalizesSetOff
  <2>3. job \in [Sessions -> Job] /\ MaxRetries \in Nat
    BY ServiceAssumption DEF IInv, TypeOK
  <2>4. \/ job' = [job EXCEPT ![s].state = "done"]
        \/ job' = [job EXCEPT ![s].state = "lost"]
        \/ job[s].tries < MaxRetries /\ job' = [job EXCEPT ![s].tries = @ + 1]
    BY <1>2 DEF finalize_commits, finalize_raises
  <2>5. job' \in [Sessions -> Job]
    BY <2>2, <2>3, <2>4 DEF Job
  <2>6. \A u \in Sessions : job'[u].state # "none" <=> job[u].state # "none"
    BY <2>2, <2>3, <2>4 DEF Job
  <2> QED
    BY <2>1, <2>5, <2>6, CloseStep DEF JobsStay
<1> QED
  BY <1>1, <1>2

(* The three commits that write the row: each writes a legitimate change   *)
(* of the row it read, freezes the plan only if it goes live, and sets a   *)
(* chain off only if it is an end.                                         *)
LEMMA CommitsLegit ==
  ASSUME IInv, NEW t \in Txns,
         start_commits(t) \/ end_commits(t) \/ terminate_commits(t)
  PROVE  /\ txn[t].op # "idle"
         /\ UNCHANGED <<sess, bus, score, crashes>>
         /\ \E new \in Row :
              /\ Legit(txn[t].read, new) /\ Commit(t, new)
              /\ plan' = plan \/ (plan' = "Frozen" /\ new.status = "IN_PROGRESS")
              /\ \/ UNCHANGED job
                 \/ /\ JustEnded(txn[t].read, new)
                    /\ job' = [job EXCEPT ![txn[t].session].state = "sending"]
<1> DEFINE x == txn[t]
<1>1. x \in Txn /\ x.read \in Row /\ x.op \in {"idle"} \cup Ops
  BY DEF IInv, TypeOK, Txn
<1>2. x.op # "idle" => x.read.status \in Statuses
  BY <1>1 DEF IInv, SnapshotsKeepUp, Row
<1>3. CASE start_commits(t)
  <2> DEFINE new == transition(x.read, "IN_PROGRESS")
  <2>1. /\ x.op = "start" /\ x.plan # None /\ Commit(t, new)
        /\ plan' = IF x.plan = "Complete" THEN "Frozen" ELSE plan
        /\ UNCHANGED <<sess, bus, job, score, crashes>>
    BY <1>3 DEF start_commits, PlanShapes, None
  <2>2. ~is_terminal(x.read.status) /\ accepts(x.read.status, "IN_PROGRESS")
    BY <2>1 DEF IInv, StartsChecked, StartAllowed
  <2>3. "IN_PROGRESS" \in Statuses \ {"CREATED", "INVITED", "EXPIRED"}
    BY DEF Statuses
  <2>4. new \in Row /\ Legit(x.read, new)
    BY <1>1, <1>2, <2>1, <2>2, <2>3, TransitionLegit DEF is_terminal
  <2>5. new.status = "IN_PROGRESS"
    BY <1>1 DEF transition, Row
  <2> QED
    BY <2>1, <2>4, <2>5
<1>4. CASE end_commits(t)
  <2> DEFINE fin == finish(x.read, x.reason)
             new == [fin EXCEPT !.recording_key = IF x.recorded THEN x.session ELSE @]
  <2>1. /\ x.op = "end" /\ FinishAllowed(x.read, x.reason) /\ Commit(t, new)
        /\ job' = IF JustEnded(x.read, new)
                  THEN [job EXCEPT ![x.session].state = "sending"] ELSE job
        /\ UNCHANGED <<plan, sess, bus, score, crashes>>
    BY <1>4 DEF end_commits
  <2>2. fin \in Row /\ Legit(x.read, fin)
    <3>1. CASE NothingToFinish(x.read, x.reason)
      BY <1>1, <3>1 DEF finish, Legit
    <3>2. CASE ~NothingToFinish(x.read, x.reason)
      <4>1. END_REASON_STATUS(x.reason) \in Statuses \ {"CREATED", "INVITED", "EXPIRED"}
        BY DEF END_REASON_STATUS, Statuses
      <4>2. x.read.status \in Statuses \ TERMINAL
        BY <1>2, <2>1, <3>2 DEF NothingToFinish, is_terminal
      <4>3. accepts(x.read.status, END_REASON_STATUS(x.reason))
        BY <2>1, <3>2 DEF FinishAllowed
      <4> QED
        BY <1>1, <3>2, <4>1, <4>2, <4>3, TransitionLegit DEF finish
    <3> QED
      BY <3>1, <3>2
  <2>3. /\ new \in Row /\ new.status = fin.status /\ new.started_at = fin.started_at
        /\ new.completed_at = fin.completed_at
    BY <1>1, <2>2 DEF Row, Txn
  <2>4. Legit(x.read, new)
    BY <2>2, <2>3 DEF Legit
  <2>5. \/ UNCHANGED job
        \/ (JustEnded(x.read, new) /\ job' = [job EXCEPT ![x.session].state = "sending"])
    BY <2>1
  <2> QED
    BY <2>1, <2>3, <2>4, <2>5
<1>5. CASE terminate_commits(t)
  <2> DEFINE new == transition(x.read, "TERMINATED")
  <2>1. /\ x.op = "terminate" /\ TerminateAllowed(x.read) /\ Commit(t, new)
        /\ UNCHANGED <<plan, sess, bus, job, score, crashes>>
    BY <1>5 DEF terminate_commits
  <2>2. x.read.status \in Statuses \ TERMINAL /\ accepts(x.read.status, "TERMINATED")
    BY <1>2, <2>1 DEF TerminateAllowed, is_terminal, accepts
  <2>3. new \in Row /\ Legit(x.read, new)
    BY <1>1, <2>2, TransitionLegit DEF Statuses
  <2> QED
    BY <2>1, <2>3
<1> QED
  BY <1>3, <1>4, <1>5

(* So do those commits, the heart of the proof: each writes over whatever  *)
(* was committed since it read.                                            *)
LEMMA CommitSteps ==
  ASSUME IInv, NEW t \in Txns,
         start_commits(t) \/ end_commits(t) \/ terminate_commits(t)
  PROVE  Good
<1> DEFINE x == txn[t]
<1>1. x.op # "idle" /\ UNCHANGED <<sess, bus, score, crashes>>
  BY CommitsLegit
<1>2. PICK new \in Row :
        /\ Legit(x.read, new) /\ Commit(t, new)
        /\ plan' = plan \/ (plan' = "Frozen" /\ new.status = "IN_PROGRESS")
        /\ \/ UNCHANGED job
           \/ (JustEnded(x.read, new) /\ job' = [job EXCEPT ![x.session].state = "sending"])
  BY CommitsLegit
<1>3. KeepsUp(x.read, row) /\ RowInv(x.read) /\ x \in Txn
  BY <1>1 DEF IInv, SnapshotsKeepUp, TypeOK
<1>4. row' = Flushed(x.read, new)
  BY <1>2 DEF Commit
<1>5. new.status = "IN_PROGRESS" => row'.started_at # None
  <2>1. new.status = "IN_PROGRESS" => new.started_at # None
    BY <1>2, <1>3, TerminalIs DEF Legit, RowInv
  <2> QED
    BY <1>3, <1>4, <2>1 DEF Flushed, KeepsUp
<1>6. JustEnded(x.read, new) => row'.completed_at # None
  <2>1. JustEnded(x.read, new) => new.completed_at # None
    BY <1>2, <1>3, TerminalIs DEF Legit, JustEnded, is_terminal, None
  <2> QED
    BY <1>3, <1>4, <2>1 DEF Flushed, KeepsUp
<1>7. plan' \in PlanShapes
  BY <1>2 DEF IInv, TypeOK, PlanShapes
<1>8. x.session \in {None} \cup Sessions
  BY <1>3 DEF Txn
<1>9. job' \in [Sessions -> Job] /\ JobsStay
  BY <1>2, <1>8 DEF IInv, TypeOK, Job, JobsStay
<1>10. \A s \in Sessions : job'[s].state # "none"
         => job[s].state # "none" \/ row'.completed_at # None
  BY <1>2, <1>6
<1> QED
  BY <1>1, <1>2, <1>5, <1>7, <1>9, <1>10, CommitStep

(* So does a crash of the API process.                                     *)
LEMMA CrashStep ==
  ASSUME IInv, ApiCrash
  PROVE  Good
<1>1. UNCHANGED <<row, plan, score, overwritten>> /\ bus' = {}
  BY DEF ApiCrash
<1>2. KeepsUp(row, row') /\ RowInv(row')
  BY <1>1, KeepsUpRefl DEF IInv, RowInv
<1>3. \A u \in Txns : txn'[u] = IF txn[u].op = "finalize" THEN txn[u] ELSE Idle
  BY DEF ApiCrash
<1>4. Idle.op = "idle"
  BY DEF Idle
<1>5. TxnInv'
  <2>1. txn' \in [Txns -> Txn]
    BY IdleTyped DEF ApiCrash, IInv, TypeOK
  <2>2. SnapshotsKeepUp'
    BY <1>1, <1>3, <1>4 DEF IInv, SnapshotsKeepUp, RowInv, KeepsUp
  <2>3. StartsChecked'
    BY <1>3, <1>4 DEF StartsChecked, IInv
  <2> QED
    BY <2>1, <2>2, <2>3 DEF TxnInv
<1>6. FinalizesStay
  BY <1>3, <1>4 DEF FinalizesStay
<1>7. job' \in [Sessions -> Job]
      /\ \A s \in Sessions : job'[s].state # "none" <=> job[s].state # "none"
  BY DEF ApiCrash, IInv, TypeOK, Job
<1>8. sess' \in [Sessions -> {"none", "offered", "live", "over"}]
  BY DEF ApiCrash, IInv, TypeOK
<1>9. crashes' \in 0 .. MaxCrashes
  BY ServiceAssumption DEF ApiCrash, IInv, TypeOK
<1>10. TypeOK'
  BY <1>1, <1>5, <1>7, <1>8, <1>9 DEF IInv, TypeOK, TxnInv
<1> QED
  BY <1>1, <1>2, <1>5, <1>6, <1>7, <1>10, Conclude DEF JobsStay
-----------------------------------------------------------------------------
(* The three facts.                                                        *)

(* The invariant holds before the row exists.                              *)
LEMMA InitIInv == Init => IInv
<1> SUFFICES ASSUME Init PROVE IInv
  OBVIOUS
<1>1. NoRow \in Row /\ RowInv(NoRow)
  BY TerminalIs DEF NoRow, Row, Stamps, RowInv, None
<1>2. Idle.op = "idle"
  BY DEF Idle
<1>3. TypeOK
  <2>1. 0 \in 0 .. MaxRetries /\ 0 \in 0 .. MaxCrashes
    BY ServiceAssumption
  <2>2. [state |-> "none", tries |-> 0] \in Job
    BY <2>1 DEF Job
  <2>3. job \in [Sessions -> Job]
    BY <2>2 DEF Init
  <2>4. row \in Row /\ txn \in [Txns -> Txn]
    BY <1>1, IdleTyped DEF Init
  <2>5. plan \in PlanShapes /\ bus \subseteq Event /\ score \in BOOLEAN
    BY DEF Init, PlanShapes
  <2>6. sess \in [Sessions -> {"none", "offered", "live", "over"}]
    BY DEF Init
  <2>7. crashes \in 0 .. MaxCrashes /\ overwritten \in BOOLEAN
    BY <2>1 DEF Init
  <2> QED
    BY <2>3, <2>4, <2>5, <2>6, <2>7 DEF TypeOK
<1>4. \A s \in Sessions : job[s].state = "none"
  BY DEF Init
<1> QED
  BY <1>1, <1>2, <1>3, <1>4
     DEF Init, IInv, SnapshotsKeepUp, StartsChecked, FinalizesSetOff,
         FrozenImpliesStarted, ChainOnlyAfterEnd

(* Every step keeps the invariant, and the row it leaves keeps up with the *)
(* row it found.                                                           *)
LEMMA NextGood ==
  ASSUME IInv, [Next]_vars
  PROVE  Good
<1>1. CASE Next
  BY <1>1, CreationSteps, SessionSteps, OpenSteps, CloseSteps, CommitSteps, CrashStep
     DEF Next, HandlerNext
<1>2. CASE UNCHANGED vars
  <2>1. UNCHANGED <<row, plan, sess, bus, txn, job, score, crashes, overwritten>>
    BY <1>2 DEF vars
  <2>2. TypeOK'
    BY <2>1 DEF IInv, TypeOK
  <2> QED
    BY <2>1, <2>2, QuietStep DEF JobsStay
<1> QED
  BY <1>1, <1>2

(* IInv is an invariant of the interview service.                          *)
LEMMA Inductive == Spec => []IInv
<1>1. IInv /\ [Next]_vars => IInv'
  BY NextGood DEF Good
<1> QED
  BY InitIInv, <1>1, PTL DEF Spec
-----------------------------------------------------------------------------
(* Every value the service ever stores or holds is of its type, retries    *)
(* and crashes within their limits.                                        *)
THEOREM TypeCorrect == Spec => []TypeOK
<1>1. IInv => TypeOK
  BY DEF IInv
<1> QED
  BY Inductive, <1>1, PTL

(* Overlapping handlers never leave a status without its timestamp: a      *)
(* terminal row has a completed_at, a live one a started_at.               *)
THEOREM StampsAlwaysAgree == Spec => []StampsAgree
<1>1. IInv => StampsAgree
  BY DEF IInv, RowInv, StampsAgree, is_terminal
<1> QED
  BY Inductive, <1>1, PTL

(* The reaper never expires an interview that a session has started, even  *)
(* when the start reads the row before the expiry and commits after it.    *)
THEOREM NoShowsNeverJoined == Spec => []NoShowNeverJoined
<1>1. IInv => NoShowNeverJoined
  BY DEF IInv, RowInv, NoShowNeverJoined
<1> QED
  BY Inductive, <1>1, PTL

(* A frozen plan belongs to an interview that started.                     *)
THEOREM FrozenPlansStarted == Spec => []FrozenImpliesStarted
<1>1. IInv => FrozenImpliesStarted
  BY DEF IInv
<1> QED
  BY Inductive, <1>1, PTL

(* The chain is set off only by a committed end, whatever crashes.         *)
THEOREM ChainsFollowEnds == Spec => []ChainOnlyAfterEnd
<1>1. IInv => ChainOnlyAfterEnd
  BY DEF IInv
<1> QED
  BY Inductive, <1>1, PTL

(* Once joined, an interview is never again as it was before anyone came.  *)
THEOREM NeverUnjoinedAgain == Spec => NeverUnjoined
<1> DEFINE Kept == row.started_at # None => row'.started_at # None
                                            /\ row'.status \notin {"CREATED", "INVITED"}
<1>1. IInv /\ [Next]_vars => [Kept]_vars
  <2> SUFFICES ASSUME IInv, [Next]_vars PROVE Kept
    OBVIOUS
  <2>1. RowInv(row') /\ KeepsUp(row, row')
    BY NextGood DEF Good, IInv, RowInv
  <2> QED
    BY <2>1 DEF KeepsUp, RowInv, Waiting
<1> QED
  BY Inductive, <1>1, PTL DEF Spec, NeverUnjoined
-----------------------------------------------------------------------------
(* What becomes of an end: the state machine, and the first end's finality. *)

(* Nothing has been read of an end yet by those that have not seen one.    *)
ReadsUnended ==
  \A t \in Txns : txn[t].op # "idle" /\ ~is_terminal(txn[t].read.status)
                  => txn[t].read.completed_at = None

ChainsOver == \A s \in Sessions : job[s].state # "none" => is_terminal(row.status)

EndStamped == row.completed_at = IF is_terminal(row.status) THEN row.status ELSE None

EndsInv ==
  /\ ~overwritten => ReadsUnended /\ ChainsOver /\ EndStamped
  /\ ChainOnce
  /\ FinalizeFindsItOver

(* What a step may do to the row ...                                       *)
Moves ==
  \/ /\ row'.status = row.status /\ row'.completed_at = row.completed_at
     /\ overwritten' = overwritten
  \/ /\ row.status = None /\ row'.status \in {"CREATED", "INVITED"}
     /\ row'.completed_at = None /\ overwritten' = overwritten
  \/ /\ row.status \in Statuses /\ row'.status \in LEGAL[row.status]
     /\ ~overwritten => row'.completed_at = IF is_terminal(row'.status) THEN row'.status
                                                                        ELSE row.completed_at
     /\ overwritten' = overwritten
  \/ /\ is_terminal(row.status)
     /\ row'.status \in {"IN_PROGRESS", "COMPLETED", "ABANDONED", "TERMINATED"}
     /\ overwritten' = TRUE

(* ... and to the chains.                                                  *)
ChainSteps ==
  \/ \A s \in Sessions : job'[s].state # "none" => job[s].state # "none"
  \/ /\ overwritten' \/ ~is_terminal(row.status)
     /\ is_terminal(row'.status)
     /\ \E s \in Sessions \cup {None} : \A u \in Sessions :
          job'[u].state # "none" => job[u].state # "none" \/ u = s

(* LEGAL stays among the statuses, and the terminal ones are those without *)
(* a move.                                                                 *)
LEMMA LegalMoves ==
  ASSUME NEW s \in Statuses
  PROVE  /\ LEGAL[s] \subseteq Statuses
         /\ s \in TERMINAL <=> LEGAL[s] = {}
<1>1. /\ LEGAL["CREATED"] = {"INVITED", "EXPIRED", "ABANDONED"}
      /\ LEGAL["INVITED"] = {"IN_PROGRESS", "EXPIRED", "ABANDONED", "TERMINATED"}
      /\ LEGAL["IN_PROGRESS"] = {"COMPLETED", "ABANDONED", "TERMINATED"}
      /\ LEGAL["COMPLETED"] = {} /\ LEGAL["ABANDONED"] = {}
      /\ LEGAL["TERMINATED"] = {} /\ LEGAL["EXPIRED"] = {}
  BY DEF LEGAL
<1> QED
  BY <1>1 DEF Statuses, TERMINAL

(* An end that LEGAL lets a live interview come to is still a legal one    *)
(* wherever the interview has got to meanwhile, as long as it is live.     *)
LEMMA EndsStayLegal ==
  ASSUME NEW read \in Statuses, NEW now \in Statuses \ TERMINAL,
         NEW target \in LEGAL[read] \cap (TERMINAL \ {"EXPIRED"}),
         read # "CREATED" => now # "CREATED",
         read = "IN_PROGRESS" => now = "IN_PROGRESS"
  PROVE  target \in LEGAL[now]
<1>1. /\ LEGAL["CREATED"] = {"INVITED", "EXPIRED", "ABANDONED"}
      /\ LEGAL["INVITED"] = {"IN_PROGRESS", "EXPIRED", "ABANDONED", "TERMINATED"}
      /\ LEGAL["IN_PROGRESS"] = {"COMPLETED", "ABANDONED", "TERMINATED"}
      /\ LEGAL["COMPLETED"] = {} /\ LEGAL["ABANDONED"] = {}
      /\ LEGAL["TERMINATED"] = {} /\ LEGAL["EXPIRED"] = {}
  BY DEF LEGAL
<1> QED
  BY <1>1, TerminalIs DEF Statuses

(* A legitimate change of a row read earlier moves the row along LEGAL, or *)
(* is written over an end, which is recorded.                              *)
LEMMA LegitMoves ==
  ASSUME NEW read \in Row, NEW new \in Row, row \in Row, overwritten \in BOOLEAN,
         read.status # None, RowInv(read), RowInv(row), KeepsUp(read, row),
         Legit(read, new), row' = Flushed(read, new),
         overwritten' = (overwritten \/ EndedMeanwhile(read, new)),
         ~overwritten /\ ~is_terminal(read.status) => read.completed_at = None
  PROVE  Moves
<1>1. /\ row'.status = IF new.status # read.status THEN new.status ELSE row.status
      /\ row'.completed_at = IF new.completed_at # read.completed_at
                             THEN new.completed_at ELSE row.completed_at
  BY DEF Flushed
<1>2. read.status \in Statuses /\ row.status \in Statuses
  BY DEF KeepsUp, Row
<1>3. CASE new.status = read.status /\ new.completed_at = read.completed_at
  <2>1. overwritten' = overwritten
    BY <1>3 DEF EndedMeanwhile
  <2> QED
    BY <1>1, <1>3, <2>1 DEF Moves
<1>4. CASE read.status = "INVITED" /\ new.status = "IN_PROGRESS"
           /\ new.completed_at = read.completed_at
  <2>1. row'.status = "IN_PROGRESS" /\ row'.completed_at = row.completed_at
    BY <1>1, <1>4
  <2>2. CASE is_terminal(row.status)
    <3>1. overwritten' = TRUE
      BY <1>4, <2>2, TerminalIs DEF EndedMeanwhile, is_terminal
    <3> QED
      BY <2>1, <2>2, <3>1 DEF Moves
  <2>3. CASE ~is_terminal(row.status)
    <3>1. overwritten' = overwritten
      BY <2>3 DEF EndedMeanwhile
    <3>2. row.status \in {"INVITED", "IN_PROGRESS"}
      BY <1>2, <1>4, <2>3, TerminalIs DEF KeepsUp, Statuses, None, is_terminal
    <3>3. "IN_PROGRESS" \in LEGAL["INVITED"]
      BY DEF LEGAL
    <3> QED
      BY <1>2, <2>1, <3>1, <3>2, <3>3, TerminalIs DEF Moves, is_terminal
  <2> QED
    BY <2>2, <2>3
<1>5. CASE /\ read.status \notin TERMINAL /\ new.status \in TERMINAL \ {"EXPIRED"}
           /\ new.status \in LEGAL[read.status]
           /\ new.completed_at = IF read.completed_at = None THEN new.status
                                                             ELSE read.completed_at
  <2>1. row'.status = new.status
    BY <1>1, <1>5
  <2>2. CASE is_terminal(row.status)
    <3>1. overwritten' = TRUE
      BY <1>5, <2>2 DEF EndedMeanwhile, is_terminal
    <3> QED
      BY <1>5, <2>1, <2>2, <3>1, TerminalIs DEF Moves
  <2>3. CASE ~is_terminal(row.status)
    <3>1. overwritten' = overwritten
      BY <2>3 DEF EndedMeanwhile
    <3>2. row.status \in Statuses \ TERMINAL
      BY <1>2, <2>3 DEF is_terminal
    <3>3. read.status # "CREATED" => row.status # "CREATED"
      BY DEF KeepsUp
    <3>4. read.status = "IN_PROGRESS" => row.status = "IN_PROGRESS"
      BY <3>2, TerminalIs DEF KeepsUp, Waiting, Statuses, None
    <3>5. row'.status \in LEGAL[row.status]
      BY <1>2, <1>5, <2>1, <3>2, <3>3, <3>4, EndsStayLegal
    <3>6. ~overwritten => row'.completed_at = row'.status
      BY <1>1, <1>5, <2>1, TerminalIs DEF is_terminal, None
    <3> QED
      BY <1>2, <1>5, <2>1, <3>1, <3>5, <3>6 DEF Moves, is_terminal
  <2> QED
    BY <2>2, <2>3
<1> QED
  BY <1>3, <1>4, <1>5 DEF Legit
(* What is left to show of a step once its transactions are accounted for. *)
LEMMA EndsConclude ==
  ASSUME EndsInv, overwritten \in BOOLEAN, Moves, ChainSteps,
         ~overwritten' => ReadsUnended', FinalizeFindsItOver'
  PROVE  EndsInv'
<1>1. overwritten => overwritten'
  BY DEF Moves
<1>2. is_terminal(row.status) => is_terminal(row'.status) \/ overwritten'
  <2>2. CASE row.status \in Statuses
    BY <2>2, LegalMoves, TerminalIs DEF Moves, is_terminal, None
  <2>3. CASE row.status \notin Statuses
    BY <2>3, TerminalIs DEF is_terminal, Statuses
  <2> QED
    BY <2>2, <2>3
<1>3. ~overwritten' => ChainsOver'
  BY <1>1, <1>2 DEF EndsInv, ChainsOver, ChainSteps, is_terminal
<1>4. ~overwritten' => EndStamped'
  <2> SUFFICES ASSUME ~overwritten' PROVE EndStamped'
    OBVIOUS
  <2>1. None \notin TERMINAL /\ "CREATED" \notin TERMINAL /\ "INVITED" \notin TERMINAL
    BY TerminalIs DEF None
  <2>2. EndStamped /\ ~overwritten
    BY <1>1 DEF EndsInv
  <2>3. CASE row.status \in Statuses /\ row'.status \in LEGAL[row.status]
             /\ row'.completed_at = IF is_terminal(row'.status) THEN row'.status
                                                                ELSE row.completed_at
    <3>1. ~is_terminal(row.status)
      BY <2>3, LegalMoves DEF is_terminal
    <3> QED
      BY <2>2, <2>3, <3>1 DEF EndStamped, is_terminal
  <2> QED
    BY <2>1, <2>2, <2>3 DEF EndStamped, Moves, is_terminal
<1>5. ChainOnce'
  <2> SUFFICES ASSUME ~overwritten', NEW s \in Sessions, NEW u \in Sessions,
                      job'[s].state # "none", job'[u].state # "none"
               PROVE  s = u
    BY DEF ChainOnce
  <2>1. ~overwritten
    BY <1>1
  <2>2. CASE \A v \in Sessions : job'[v].state # "none" => job[v].state # "none"
    BY <2>1, <2>2 DEF EndsInv, ChainOnce
  <2>3. CASE /\ ~is_terminal(row.status)
             /\ \E w \in Sessions \cup {None} : \A v \in Sessions :
                  job'[v].state # "none" => job[v].state # "none" \/ v = w
    BY <2>1, <2>3 DEF EndsInv, ChainsOver
  <2> QED
    BY <2>2, <2>3 DEF ChainSteps
<1> QED
  BY <1>3, <1>4, <1>5 DEF EndsInv
-----------------------------------------------------------------------------
(* One lemma per group of actions.                                         *)

(* Steps that leave the row and the transactions alone and set off no      *)
(* chain.                                                                  *)
LEMMA EndsRest ==
  ASSUME IInv, EndsInv, UNCHANGED <<row, txn, overwritten>>,
         \A s \in Sessions : job'[s].state # "none" => job[s].state # "none"
  PROVE  EndsInv' /\ Moves
<1>1. Moves /\ ChainSteps
  BY DEF Moves, ChainSteps
<1>2. FinalizeFindsItOver' /\ (~overwritten' => ReadsUnended')
  BY DEF EndsInv, ReadsUnended, FinalizeFindsItOver
<1> QED
  BY <1>1, <1>2, EndsConclude DEF IInv, TypeOK

(* A transaction that opens has read the row as it is; a finalize finds it *)
(* over.                                                                   *)
LEMMA EndsOpen ==
  ASSUME IInv, EndsInv, NEW t \in Txns, NEW op, NEW s, NEW reason, NEW recorded,
         Open(t, op, s, reason, recorded), UNCHANGED <<row, job, overwritten>>,
         op = "finalize" /\ ~overwritten => is_terminal(row.status)
  PROVE  EndsInv' /\ Moves
<1> DEFINE x == [op |-> op, session |-> s, reason |-> reason,
                 recorded |-> recorded, read |-> row, plan |-> None]
<1>1. \A u \in Txns : txn'[u] = IF u = t THEN x ELSE txn[u]
  BY DEF Open, IInv, TypeOK
<1>2. x.read = row /\ x.op = op
  OBVIOUS
<1>3. ~overwritten' => ReadsUnended'
  BY <1>1, <1>2 DEF EndsInv, ReadsUnended, EndStamped
<1>4. FinalizeFindsItOver'
  BY <1>1, <1>2 DEF EndsInv, FinalizeFindsItOver
<1>5. Moves /\ ChainSteps
  BY DEF Moves, ChainSteps
<1> QED
  BY <1>3, <1>4, <1>5, EndsConclude DEF IInv, TypeOK

(* A transaction that closes leaves the others as they were.               *)
LEMMA EndsClose ==
  ASSUME IInv, EndsInv, NEW t \in Txns, Close(t), Moves, ChainSteps
  PROVE  EndsInv'
<1>1. \A u \in Txns : txn'[u] = IF u = t THEN Idle ELSE txn[u]
  BY DEF Close, IInv, TypeOK
<1>2. Idle.op = "idle"
  BY DEF Idle
<1>3. overwritten => overwritten'
  BY DEF Moves
<1>4. FinalizeFindsItOver' /\ (~overwritten' => ReadsUnended')
  BY <1>1, <1>2, <1>3 DEF EndsInv, ReadsUnended, FinalizeFindsItOver
<1> QED
  BY <1>4, EndsConclude DEF IInv, TypeOK

(* Scheduling and inviting create the row, and the reaper moves it along   *)
(* LEGAL.                                                                  *)
LEMMA EndsCreation ==
  ASSUME IInv, EndsInv, create_interview \/ create_invite \/ expire_stale
  PROVE  EndsInv' /\ Moves
<1>1. UNCHANGED <<txn, job, overwritten>>
  BY DEF create_interview, create_invite, expire_stale
<1>2. FinalizeFindsItOver' /\ (~overwritten' => ReadsUnended')
  BY <1>1 DEF EndsInv, ReadsUnended, FinalizeFindsItOver
<1>3. Moves
  <2>1. CASE create_interview \/ create_invite
    BY <1>1, <2>1 DEF create_interview, create_invite, NoRow, Moves
  <2>2. CASE expire_stale
    <3>1. row'.status = "EXPIRED" /\ row'.completed_at = "EXPIRED"
      BY <2>2 DEF expire_stale, IInv, TypeOK, Row
    <3>2. "EXPIRED" \in LEGAL["CREATED"] /\ "EXPIRED" \in LEGAL["INVITED"]
      BY DEF LEGAL
    <3> QED
      BY <1>1, <2>2, <3>1, <3>2, TerminalIs DEF expire_stale, Moves, Statuses, is_terminal
  <2> QED
    BY <2>1, <2>2
<1>4. ChainSteps
  BY <1>1 DEF ChainSteps
<1> QED
  BY <1>2, <1>3, <1>4, EndsConclude DEF IInv, TypeOK

(* The plan's writers, the voice sessions and the broker set off no chain. *)
LEMMA EndsSessions ==
  ASSUME IInv, EndsInv,
         \/ \E shape \in PlanShapes \ {"Frozen"} : PlanWritten(shape)
         \/ \E s \in Sessions : SessionNext(s) \/ enqueue(s) \/ EnqueueFails(s)
  PROVE  EndsInv' /\ Moves
<1>1. UNCHANGED <<row, txn, overwritten>>
  BY DEF PlanWritten, SessionNext, enqueue, EnqueueFails, offer, OfferFails, SessionStarts,
         SessionEnds, SessionVanishes
<1>2. \A u \in Sessions : job'[u].state # "none" => job[u].state # "none"
  BY DEF PlanWritten, SessionNext, enqueue, EnqueueFails, offer, OfferFails, SessionStarts,
         SessionEnds, SessionVanishes, IInv, TypeOK, Job
<1> QED
  BY <1>1, <1>2, EndsRest

(* A handler or a task that reads the row, or a start that reads the plan. *)
LEMMA EndsOpens ==
  ASSUME IInv, EndsInv, NEW t \in Txns,
         \/ \E e \in bus : on_session_started(t, e) \/ on_session_ended(t, e)
         \/ \E s \in Sessions : finalize_reads(t, s)
         \/ terminate_reads(t)
         \/ start_reads_plan(t)
  PROVE  EndsInv' /\ Moves
<1>1. ASSUME NEW e \in bus, on_session_started(t, e) \/ on_session_ended(t, e)
      PROVE  EndsInv' /\ Moves
  <2>1. PICK op \in {"start", "end"}, reason \in {None, e.reason},
             recorded \in {FALSE, e.recorded} :
          Open(t, op, e.session, reason, recorded)
    BY <1>1 DEF on_session_started, on_session_ended
  <2>2. UNCHANGED <<row, job, overwritten>>
    BY <1>1 DEF on_session_started, on_session_ended
  <2> QED
    BY <2>1, <2>2, EndsOpen
<1>2. ASSUME NEW s \in Sessions, finalize_reads(t, s)
      PROVE  EndsInv' /\ Moves
  BY <1>2, EndsOpen DEF finalize_reads, EndsInv, ChainsOver
<1>3. CASE terminate_reads(t)
  BY <1>3, EndsOpen DEF terminate_reads
<1>4. CASE start_reads_plan(t)
  <2>1. txn' = [txn EXCEPT ![t].plan = plan] /\ UNCHANGED <<row, job, overwritten>>
    BY <1>4 DEF start_reads_plan
  <2>2. \A u \in Txns : txn'[u].op = txn[u].op /\ txn'[u].read = txn[u].read
    BY <2>1 DEF IInv, TypeOK, Txn
  <2>3. FinalizeFindsItOver' /\ (~overwritten' => ReadsUnended')
    BY <2>1, <2>2 DEF EndsInv, ReadsUnended, FinalizeFindsItOver
  <2>4. Moves /\ ChainSteps
    BY <2>1 DEF Moves, ChainSteps
  <2> QED
    BY <2>3, <2>4, EndsConclude DEF IInv, TypeOK
<1> QED
  BY <1>1, <1>2, <1>3, <1>4

(* A handler that raises or rolls back, and a finalize task's last step.   *)
LEMMA EndsCloses ==
  ASSUME IInv, EndsInv, NEW t \in Txns,
         \/ start_raises(t) \/ end_raises(t) \/ terminate_raises(t)
         \/ finalize_commits(t) \/ finalize_raises(t) \/ RolledBack(t)
  PROVE  EndsInv' /\ Moves
<1>1. Close(t) /\ UNCHANGED <<row, overwritten>>
  BY DEF start_raises, end_raises, terminate_raises, finalize_commits, finalize_raises, RolledBack
<1>2. Moves
  BY <1>1 DEF Moves
<1>3. \A u \in Sessions : job'[u].state # "none" => job[u].state # "none"
  <2>1. CASE finalize_commits(t) \/ finalize_raises(t)
    <3> DEFINE s == txn[t].session
    <3>1. s \in Sessions /\ job[s].state # "none"
      BY <2>1 DEF finalize_commits, finalize_raises, IInv, FinalizesSetOff
    <3>2. \/ job' = [job EXCEPT ![s].state = "done"]
          \/ job' = [job EXCEPT ![s].state = "lost"]
          \/ job' = [job EXCEPT ![s].tries = @ + 1]
      BY <2>1 DEF finalize_commits, finalize_raises
    <3>3. job \in [Sessions -> Job]
      BY DEF IInv, TypeOK
    <3> QED
      BY <3>1, <3>2, <3>3 DEF Job
  <2>2. CASE UNCHANGED job
    BY <2>2
  <2> QED
    BY <2>1, <2>2 DEF start_raises, end_raises, terminate_raises, RolledBack
<1>4. ChainSteps
  BY <1>3 DEF ChainSteps
<1> QED
  BY <1>1, <1>2, <1>4, EndsClose

(* A commit moves the row along LEGAL or writes it over an end, and sets   *)
(* off a chain only when it ends an interview that was live or does write  *)
(* over an end.                                                            *)
LEMMA EndsCommits ==
  ASSUME IInv, EndsInv, NEW t \in Txns,
         start_commits(t) \/ end_commits(t) \/ terminate_commits(t)
  PROVE  EndsInv' /\ Moves
<1> DEFINE x == txn[t]
<1>1. x.op # "idle"
  BY CommitsLegit
<1>2. PICK new \in Row :
        /\ Legit(x.read, new) /\ Commit(t, new)
        /\ \/ UNCHANGED job
           \/ (JustEnded(x.read, new) /\ job' = [job EXCEPT ![x.session].state = "sending"])
  BY CommitsLegit
<1>3. /\ x \in Txn /\ row \in Row /\ overwritten \in BOOLEAN /\ job \in [Sessions -> Job]
      /\ RowInv(row)
  BY DEF IInv, TypeOK
<1>4. x.read.status # None /\ RowInv(x.read) /\ KeepsUp(x.read, row) /\ x.read \in Row
  BY <1>1, <1>3 DEF IInv, SnapshotsKeepUp, Txn
<1>5. /\ row' = Flushed(x.read, new)
      /\ overwritten' = (overwritten \/ EndedMeanwhile(x.read, new))
      /\ Close(t)
  BY <1>2 DEF Commit
<1>6. ~overwritten /\ ~is_terminal(x.read.status) => x.read.completed_at = None
  BY <1>1 DEF EndsInv, ReadsUnended
<1>7. Moves
  BY <1>2, <1>3, <1>4, <1>5, <1>6, LegitMoves
<1>8. ChainSteps
  <2>1. CASE UNCHANGED job
    BY <2>1 DEF ChainSteps
  <2>2. CASE JustEnded(x.read, new) /\ job' = [job EXCEPT ![x.session].state = "sending"]
    <3>1. new.status # x.read.status /\ is_terminal(new.status) /\ ~is_terminal(x.read.status)
      BY <2>2 DEF JustEnded
    <3>2. row'.status = new.status
      BY <1>5, <3>1 DEF Flushed
    <3>3. overwritten' \/ ~is_terminal(row.status)
      BY <1>5, <3>1 DEF EndedMeanwhile
    <3>4. x.session \in Sessions \cup {None}
      BY <1>3 DEF Txn
    <3>5. \A u \in Sessions : u # x.session => job'[u] = job[u]
      BY <1>3, <2>2, <3>4
    <3> QED
      BY <3>1, <3>2, <3>3, <3>4, <3>5 DEF ChainSteps
  <2> QED
    BY <1>2, <2>1, <2>2
<1> QED
  BY <1>5, <1>7, <1>8, EndsClose

(* A crash of the API process sets off no chain.                           *)
LEMMA EndsCrash ==
  ASSUME IInv, EndsInv, ApiCrash
  PROVE  EndsInv' /\ Moves
<1>1. UNCHANGED <<row, overwritten>>
  BY DEF ApiCrash
<1>2. \A u \in Txns : txn'[u] = IF txn[u].op = "finalize" THEN txn[u] ELSE Idle
  BY DEF ApiCrash
<1>3. FinalizeFindsItOver' /\ (~overwritten' => ReadsUnended')
  BY <1>1, <1>2 DEF EndsInv, ReadsUnended, FinalizeFindsItOver, Idle
<1>4. \A s \in Sessions : job'[s].state # "none" => job[s].state # "none"
  BY DEF ApiCrash
<1>5. Moves /\ ChainSteps
  BY <1>1, <1>4 DEF Moves, ChainSteps
<1> QED
  BY <1>3, <1>5, EndsConclude DEF IInv, TypeOK

(* Every step keeps EndsInv and moves the row as Moves says.               *)
LEMMA EndsStep ==
  ASSUME IInv, EndsInv, [Next]_vars
  PROVE  EndsInv' /\ Moves
<1>1. CASE Next
  BY <1>1, EndsCreation, EndsSessions, EndsOpens, EndsCloses, EndsCommits, EndsCrash
     DEF Next, HandlerNext
<1>2. CASE UNCHANGED vars
  BY <1>2, EndsRest DEF vars
<1> QED
  BY <1>1, <1>2

(* EndsInv holds before the row exists.                                    *)
LEMMA EndsInit == Init => EndsInv
<1> SUFFICES ASSUME Init PROVE EndsInv
  OBVIOUS
<1>1. \A t \in Txns : txn[t].op = "idle"
  BY DEF Init, Idle
<1>2. \A s \in Sessions : job[s].state = "none"
  BY DEF Init
<1>3. EndStamped
  BY TerminalIs DEF Init, NoRow, EndStamped, is_terminal, None
<1> QED
  BY <1>1, <1>2, <1>3 DEF EndsInv, ReadsUnended, ChainsOver, ChainOnce, FinalizeFindsItOver

(* EndsInv is an invariant of the interview service.                       *)
LEMMA EndsInductive == Spec => []EndsInv
<1>1. IInv /\ EndsInv /\ [Next]_vars => EndsInv'
  BY EndsStep
<1> QED
  BY EndsInit, <1>1, Inductive, PTL DEF Spec
-----------------------------------------------------------------------------
(* However the handlers overlap, the row is created once, moves along the  *)
(* LEGAL of state_machine.py while it is live, and leaves a terminal       *)
(* status only by the write of a handler that had read it live before the  *)
(* end was committed.                                                      *)
THEOREM RowImplementsLifecycle == Spec => ImplementsLifecycle
<1>1. Init => Lifecycle!Init
  BY DEF Init, NoRow, Lifecycle!Init, Lifecycle!None, None
<1>2. IInv /\ EndsInv /\ [Next]_vars => [Lifecycle!Next]_<<row.status, overwritten>>
  <2> SUFFICES ASSUME IInv, EndsInv, [Next]_vars
               PROVE  [Lifecycle!Next]_<<row.status, overwritten>>
    OBVIOUS
  <2>1. Moves
    BY EndsStep
  <2>2. \A status : Lifecycle!is_terminal(status) <=> is_terminal(status)
    BY DEF Lifecycle!is_terminal, is_terminal, Lifecycle!TERMINAL, TERMINAL,
           Lifecycle!Statuses, Statuses, Lifecycle!LEGAL, LEGAL
  <2> QED
    BY <2>1, <2>2 DEF Moves, Lifecycle!Next, Lifecycle!Create, Lifecycle!Move,
                      Lifecycle!Overwrite, Lifecycle!None, None,
                      Lifecycle!Statuses, Statuses, Lifecycle!LEGAL, LEGAL
<1> QED
  BY <1>1, <1>2, Inductive, EndsInductive, PTL DEF Spec, ImplementsLifecycle, Lifecycle!Spec

(* Until such a write, the chain is set off once for all the sessions of   *)
(* the interview together ...                                              *)
THEOREM ChainSetOffOnce == Spec => []ChainOnce
<1>1. EndsInv => ChainOnce
  BY DEF EndsInv
<1> QED
  BY <1>1, EndsInductive, PTL

(* ... completed_at is the moment of the end that the status shows ...     *)
THEOREM EndMomentStands == Spec => []EndMomentIsTheEnd
<1>1. EndsInv => EndMomentIsTheEnd
  BY DEF EndsInv, EndStamped, EndMomentIsTheEnd
<1> QED
  BY <1>1, EndsInductive, PTL

(* ... and finalize never has to wait for the end it was set off by.       *)
THEOREM FinalizeNeverWaits == Spec => []FinalizeFindsItOver
<1>1. EndsInv => FinalizeFindsItOver
  BY DEF EndsInv
<1> QED
  BY <1>1, EndsInductive, PTL
=============================================================================
