------------------------- MODULE OfflineChainProofs -------------------------
(***************************************************************************)
(* Proofs about OfflineChain, for any number of workers, frames, retries,  *)
(* chains and mishaps.                                                     *)
(*                                                                         *)
(* The argument.  Three of the four properties are of a chain that was     *)
(* sent once and whose successors were: then each task has one delivery at *)
(* most, in the queue or with a worker, and the deliveries there are stand *)
(* at one place of the chain (OneDelivery, Staged).  So whatever a task    *)
(* read stays true until it writes: nobody corrects the text while it is   *)
(* being graded, nobody analyses a frame that somebody else has in hand,   *)
(* and the scoring begins when the chord has joined, after the signals     *)
(* were written.  The fourth property holds of every schedule, and needs   *)
(* that the delivery which answers for a row in transit has not done its   *)
(* work yet (Pending).                                                     *)
(***************************************************************************)
EXTENDS OfflineChain, FiniteSetTheorems, SequenceTheorems, TLAPS

Busy(w) == running[w] # Idle

(* A message of a header task names its chord, any other none.             *)
WellAddressed(msg) == msg.task \in Header <=> msg.chord # 0

Addressed ==
  /\ \A msg \in DOMAIN queue : WellAddressed(msg)
  /\ \A w \in Workers : /\ WellAddressed(running[w].msg)
                        /\ running[w].at = "idle" => ~Busy(w)

(* Two deliveries at one place of the chain are of two tasks that run side *)
(* by side.                                                                *)
Apart(t, u) == t # u /\ ({t, u} \subseteq Header \/ {t, u} \subseteq Audience)

OneDelivery ==
  /\ \A m \in DOMAIN queue : queue[m] = 1
  /\ \A m, n \in DOMAIN queue : m # n => Apart(m.task, n.task)
  /\ \A m \in DOMAIN queue, w \in Workers : Busy(w) => Apart(m.task, running[w].msg.task)
  /\ \A v, w \in Workers : Busy(v) /\ Busy(w) /\ v # w =>
       Apart(running[v].msg.task, running[w].msg.task)

HasJoined == Len(chords) = 1 /\ chords[1] = Header

(* Where the chain stands when a task is delivered.                        *)
InStage(task) ==
  /\ task \in {"finalize", "correct_transcript"} => chords = <<>>
  /\ task \in Header => Len(chords) = 1 /\ task \notin chords[1]
  /\ task \in {"score_interview", "finalize_verdict"} \cup Audience => HasJoined

Staged ==
  /\ \A m \in DOMAIN queue : InStage(m.task)
  /\ \A w \in Workers : Busy(w) => InStage(running[w].msg.task)
  /\ Len(chords) <= 1
  /\ sent = 0 => /\ DOMAIN queue = {} /\ chords = <<>>
                 /\ \A w \in Workers : ~Busy(w)

Structure == ~forked => OneDelivery /\ Staged

(* A delivery that has its work before it.                                 *)
Pending(task) ==
  \/ \E m \in DOMAIN queue : m.task = task
  \/ \E w \in Workers : running[w].msg.task = task /\ running[w].at \notin {"idle", "done"}

InTransit ==
  /\ score.status = "SCORING" =>
       rubric /\ (Pending("score_interview") \/ "score_interview" \in uncaught)
  /\ \A a \in Audience : reports[a].status = "RENDERING" => Pending(a) \/ a \in uncaught

(* The rows of a chain that was sent once.                                 *)
ScoreSound ==
  /\ score.status \in {"SCORING", "READY"} \/ score.graded # None => HasJoined
  /\ Len(chords) = 1 /\ "measure_signals" \in chords[1] => "delivery" \in score.signals
  /\ score.status = "READY" => "rubric_coverage" \in score.signals
  /\ score.graded # None => score.graded = text

FramesSound ==
  \A f \in Frames : findings[f] <= 1 /\ (f \notin analysed => findings[f] = 0)

(* What a worker has read still stands.                                    *)
JobSound(x) ==
  /\ x.msg.task = "measure_signals" /\ x.at = "done" => "delivery" \in score.signals
  /\ x.msg.task = "analyze_frames" /\ x.at = "writes" => x.frames \cap analysed = {}
  /\ x.msg.task = "score_interview" /\ x.at \in {"reads", "writes"} => x.text = text
  /\ x.msg.task = "score_interview" /\ x.at = "writes" => "delivery" \in x.signals

RowsSound ==
  ~forked => /\ ScoreSound /\ FramesSound
             /\ \A w \in Workers : JobSound(running[w])

(* TypeOK, by what the messages need and what the rows do.                 *)
BrokerTyped ==
  /\ IsABag(queue) /\ DOMAIN queue \subseteq Message
  /\ running \in [Workers -> Job]
  /\ chords \in Seq(SUBSET Header)
  /\ \A m \in DOMAIN queue : m.chord <= Len(chords)
  /\ \A w \in Workers : running[w].msg.chord <= Len(chords)
  /\ sent \in 0 .. MaxChains /\ mishaps \in 0 .. MaxMishaps
  /\ forked \in BOOLEAN
  /\ caught \subseteq Audience /\ uncaught \subseteq Tasks

RowsTyped ==
  /\ rubric \in BOOLEAN /\ text \in Texts
  /\ analysed \subseteq Frames /\ findings \in [Frames -> Nat]
  /\ score \in Score /\ verdict \in Verdict /\ reports \in [Audience -> Report]

Broker == BrokerTyped /\ Addressed /\ Structure

IInv == TypeOK /\ Addressed /\ Structure /\ InTransit /\ RowsSound
-----------------------------------------------------------------------------
(* The parts of the invariant, before and after a step.                    *)
LEMMA Parts ==
  /\ IInv <=> Broker /\ RowsTyped /\ InTransit /\ RowsSound
  /\ IInv' <=> Broker' /\ RowsTyped' /\ InTransit' /\ RowsSound'
<1>1. TypeOK <=> BrokerTyped /\ RowsTyped
  BY DEF TypeOK, BrokerTyped, RowsTyped
<1>2. TypeOK' <=> BrokerTyped' /\ RowsTyped'
  BY DEF TypeOK, BrokerTyped, RowsTyped
<1> QED
  BY <1>1, <1>2 DEF IInv, Broker

(* One message more in a bag ...                                           *)
LEMMA Added ==
  ASSUME NEW B, IsABag(B), NEW x
  PROVE  /\ IsABag(BagAdd(B, x))
         /\ DOMAIN BagAdd(B, x) = DOMAIN B \cup {x}
         /\ x \notin DOMAIN B => BagAdd(B, x)[x] = 1
         /\ \A y \in DOMAIN B \ {x} : BagAdd(B, x)[y] = B[y]
BY DEF BagAdd, IsABag

(* ... one less ...                                                        *)
LEMMA Removed ==
  ASSUME NEW B, IsABag(B), NEW x \in DOMAIN B
  PROVE  /\ IsABag(BagRemove(B, x))
         /\ DOMAIN BagRemove(B, x) \subseteq DOMAIN B
         /\ DOMAIN B \subseteq DOMAIN BagRemove(B, x) \cup {x}
         /\ B[x] = 1 => x \notin DOMAIN BagRemove(B, x)
         /\ \A y \in DOMAIN BagRemove(B, x) \ {x} : BagRemove(B, x)[y] = B[y]
BY DEF BagRemove, IsABag

(* ... and a set of them more.                                             *)
LEMMA AllAdded ==
  ASSUME NEW B, IsABag(B), NEW S
  PROVE  /\ IsABag(SendAll(B, S))
         /\ DOMAIN SendAll(B, S) = DOMAIN B \cup S
         /\ \A y \in DOMAIN B \ S : SendAll(B, S)[y] = B[y]
         /\ \A y \in S \ DOMAIN B : SendAll(B, S)[y] = 1
BY DEF SendAll, (+), SetToBag, IsABag

(* A new message, of a task and for a chord.                               *)
LEMMA MsgIs ==
  \A t \in Tasks, k \in Nat : /\ Msg(t, k) \in Message
                            /\ Msg(t, k).task = t /\ Msg(t, k).chord = k
<1>1. 0 \in 0 .. MaxRetries
  BY ChainAssumption
<1> QED
  BY <1>1 DEF Msg, Message

(* What a worker makes of a message it takes.                              *)
LEMMA NewJobs ==
  /\ \A m \in Message : /\ Taken(m) \in Job /\ Taken(m).msg = m /\ Taken(m).at = "begin"
                        /\ [Taken(m) EXCEPT !.at = "done"] \in Job
                        /\ [Taken(m) EXCEPT !.at = "done"].msg = m
                        /\ [Taken(m) EXCEPT !.at = "done"].at = "done"
  /\ Idle \in Job /\ Idle.at = "idle" /\ Idle.msg.task = "finalize" /\ Idle.msg.chord = 0
<1>1. NoView \in View
  BY DEF NoView, View, Verdict
<1>2. ASSUME NEW m \in Message
      PROVE  /\ Taken(m) \in Job /\ Taken(m).msg = m /\ Taken(m).at = "begin"
             /\ \A at \in {"idle", "done"} : /\ [Taken(m) EXCEPT !.at = at] \in Job
                                            /\ [Taken(m) EXCEPT !.at = at].msg = m
                                            /\ [Taken(m) EXCEPT !.at = at].at = at
  <2>1. Taken(m) \in Job /\ Taken(m).msg = m /\ Taken(m).at = "begin"
    BY <1>1 DEF Taken, Job, Texts
  <2>2. PICK x \in Job : x = Taken(m)
    BY <2>1
  <2>3. \A at \in {"idle", "done"} : /\ [x EXCEPT !.at = at] \in Job
                                    /\ [x EXCEPT !.at = at].msg = x.msg
                                    /\ [x EXCEPT !.at = at].at = at
    BY DEF Job
  <2> QED
    BY <2>1, <2>2, <2>3
<1>3. "finalize" \in Tasks
  BY DEF Tasks
<1>4. Idle \in Job /\ Idle.at = "idle" /\ Idle.msg.task = "finalize" /\ Idle.msg.chord = 0
  <2>1. PICK m \in Message : m = Msg("finalize", 0) /\ m.task = "finalize" /\ m.chord = 0
    BY <1>3, MsgIs
  <2>2. Idle = [Taken(m) EXCEPT !.at = "idle"]
    BY <2>1 DEF Idle
  <2> QED
    BY <1>2, <2>1, <2>2
<1> QED
  BY <1>2, <1>4

(* Nobody has read anything who is idle or has just begun.                 *)
LEMMA BlankSound ==
  ASSUME NEW x, x.at = "begin" \/ x = Idle
  PROVE  JobSound(x)
BY NewJobs DEF JobSound
-----------------------------------------------------------------------------
(* A worker goes on with its task.                                         *)
LEMMA AdvanceKeeps ==
  ASSUME Broker, NEW w \in Workers, Busy(w), NEW y \in Job,
         y.msg = running[w].msg, y.at # "idle", running' = [running EXCEPT ![w] = y],
         UNCHANGED <<queue, chords, history>>
  PROVE  Broker'
<1>1. \A v \in Workers : running'[v] = IF v = w THEN y ELSE running[v]
  BY DEF Broker, BrokerTyped
<1>2. BrokerTyped'
  BY <1>1 DEF Broker, BrokerTyped, history
<1>3. \A v \in Workers : Busy(v)' <=> Busy(v)
  BY <1>1, NewJobs DEF Busy
<1>4. \A v \in Workers : running'[v].msg = running[v].msg
  BY <1>1
<1>5. Addressed'
  BY <1>1, <1>3, <1>4 DEF Broker, Addressed, WellAddressed
<1>6. Structure'
  BY <1>3, <1>4
     DEF Broker, Structure, OneDelivery, Staged, InStage, HasJoined, history
<1> QED
  BY <1>2, <1>5, <1>6 DEF Broker

(* A worker drops its task and perhaps puts the message back, which may    *)
(* have been tried once more.                                              *)
LEMMA DropKeeps ==
  ASSUME Broker, NEW w \in Workers, Busy(w), running' = [running EXCEPT ![w] = Idle],
         \/ queue' = queue
         \/ \E m \in Message : /\ m.task = running[w].msg.task
                               /\ m.chord = running[w].msg.chord
                               /\ queue' = BagAdd(queue, m),
         mishaps' \in 0 .. MaxMishaps, caught' \subseteq Audience, uncaught' \subseteq Tasks,
         UNCHANGED <<chords, sent, forked>>
  PROVE  Broker'
<1>1. \A v \in Workers : running'[v] = IF v = w THEN Idle ELSE running[v]
  BY DEF Broker, BrokerTyped
<1>2. \A v \in Workers : Busy(v)' <=> Busy(v) /\ v # w
  BY <1>1 DEF Busy
<1>3. running' \in [Workers -> Job] /\ \A v \in Workers : running'[v].msg.chord <= Len(chords)
  <2>1. 0 <= Len(chords)
    BY DEF Broker, BrokerTyped
  <2> QED
    BY <1>1, <2>1, NewJobs DEF Broker, BrokerTyped
<1>4. \A v \in Workers : WellAddressed(running'[v].msg) /\ (running'[v].at = "idle" => ~Busy(v)')
  <2>1. WellAddressed(Idle.msg)
    BY NewJobs DEF WellAddressed, Header
  <2> QED
    BY <1>1, <1>2, <2>1 DEF Broker, Addressed
<1>5. CASE queue' = queue
  <2>1. BrokerTyped' /\ Addressed'
    BY <1>3, <1>4, <1>5 DEF Broker, BrokerTyped, Addressed
  <2>2. Structure'
    BY <1>1, <1>2, <1>5 DEF Broker, Structure, OneDelivery, Staged, InStage, HasJoined
  <2> QED
    BY <2>1, <2>2 DEF Broker
<1>6. ASSUME NEW m \in Message, m.task = running[w].msg.task,
             m.chord = running[w].msg.chord, queue' = BagAdd(queue, m)
      PROVE  Broker'
  <2>1. /\ IsABag(queue') /\ DOMAIN queue' = DOMAIN queue \cup {m}
        /\ m \notin DOMAIN queue => queue'[m] = 1
        /\ \A n \in DOMAIN queue \ {m} : queue'[n] = queue[n]
    BY <1>6, Added DEF Broker, BrokerTyped
  <2>2. BrokerTyped'
    BY <1>3, <1>6, <2>1 DEF Broker, BrokerTyped
  <2>3. Addressed'
    <3>1. WellAddressed(m)
      BY <1>6 DEF Broker, Addressed, WellAddressed
    <3> QED
      BY <1>4, <2>1, <3>1 DEF Broker, Addressed
  <2>4. ASSUME ~forked
        PROVE  OneDelivery' /\ Staged'
    <3>1. OneDelivery /\ Staged
      BY <2>4 DEF Broker, Structure
    <3>2. \A n \in DOMAIN queue : Apart(n.task, m.task) /\ n # m
      BY <1>6, <3>1 DEF OneDelivery, Apart
    <3>3. /\ \A n \in DOMAIN queue' : queue'[n] = 1
          /\ \A n, o \in DOMAIN queue' : n # o => Apart(n.task, o.task)
      BY <2>1, <3>1, <3>2 DEF OneDelivery, Apart
    <3>4. \A n \in DOMAIN queue', v \in Workers :
            Busy(v)' => Apart(n.task, running'[v].msg.task)
      BY <1>1, <1>2, <1>6, <2>1, <3>1 DEF OneDelivery, Apart
    <3>5. \A u, v \in Workers : Busy(u)' /\ Busy(v)' /\ u # v =>
            Apart(running'[u].msg.task, running'[v].msg.task)
      BY <1>1, <1>2, <3>1 DEF OneDelivery
    <3>6. OneDelivery'
      BY <3>3, <3>4, <3>5 DEF OneDelivery
    <3>7. Staged'
      BY <1>1, <1>2, <1>6, <2>1, <3>1 DEF Staged, InStage, HasJoined
    <3> QED
      BY <3>6, <3>7
  <2> QED
    BY <2>2, <2>3, <2>4 DEF Broker, Structure
<1> QED
  BY <1>5, <1>6

(* An idle worker takes a message.                                         *)
LEMMA TakeKeeps ==
  ASSUME Broker, NEW w \in Workers, take(w)
  PROVE  Broker'
<1>1. PICK m \in DOMAIN queue : running' = [running EXCEPT ![w] = Taken(m)]
                               /\ queue' = BagRemove(queue, m)
  BY DEF take, BagToSet
<1>2. m \in Message /\ m.chord <= Len(chords) /\ WellAddressed(m)
  BY DEF Broker, BrokerTyped, Addressed
<1>3. /\ IsABag(queue') /\ DOMAIN queue' \subseteq DOMAIN queue
      /\ queue[m] = 1 => m \notin DOMAIN queue'
      /\ \A n \in DOMAIN queue' \ {m} : queue'[n] = queue[n]
  BY <1>1, Removed DEF Broker, BrokerTyped
<1>4. \A v \in Workers : running'[v] = IF v = w THEN Taken(m) ELSE running[v]
  BY <1>1 DEF Broker, BrokerTyped
<1>5. \A v \in Workers : Busy(v)' <=> Busy(v) \/ v = w
  <2>1. Taken(m) # Idle
    BY <1>2, NewJobs
  <2> QED
    BY <1>4, <2>1 DEF Busy
<1>6. BrokerTyped'
  <2>1. running' \in [Workers -> Job] /\ \A v \in Workers : running'[v].msg.chord <= Len(chords)
    BY <1>1, <1>2, <1>4, NewJobs DEF Broker, BrokerTyped
  <2> QED
    BY <1>3, <2>1 DEF take, history, Broker, BrokerTyped
<1>7. Addressed'
  <2>1. \A v \in Workers : /\ WellAddressed(running'[v].msg)
                           /\ running'[v].at = "idle" => ~Busy(v)'
    <3>1. Taken(m).msg = m /\ Taken(m).at = "begin"
      BY <1>2, NewJobs
    <3> QED
      BY <1>2, <1>4, <1>5, <3>1 DEF Broker, Addressed
  <2> QED
    BY <1>3, <2>1 DEF Broker, Addressed
<1>8. ASSUME ~forked
      PROVE  OneDelivery' /\ Staged'
  <2>1. OneDelivery /\ Staged /\ ~Busy(w)
    BY <1>8 DEF Broker, Structure, take, Busy
  <2>2. m \notin DOMAIN queue'
    BY <1>3, <2>1 DEF OneDelivery
  <2>3. \A v \in Workers : Busy(v)' =>
          \/ v = w /\ running'[v].msg = m
          \/ v # w /\ Busy(v) /\ running'[v].msg = running[v].msg
    BY <1>2, <1>4, <1>5, NewJobs
  <2>4. \A n \in DOMAIN queue' : queue'[n] = 1
    BY <1>3, <2>1, <2>2 DEF OneDelivery
  <2>5. \A n \in DOMAIN queue', v \in Workers :
          Busy(v)' => Apart(n.task, running'[v].msg.task)
    BY <1>3, <2>1, <2>2, <2>3 DEF OneDelivery
  <2>6. \A u, v \in Workers : Busy(u)' /\ Busy(v)' /\ u # v =>
          Apart(running'[u].msg.task, running'[v].msg.task)
    BY <2>1, <2>3 DEF OneDelivery, Apart
  <2>7. OneDelivery'
    BY <1>3, <2>1, <2>4, <2>5, <2>6 DEF OneDelivery
  <2>8. sent # 0
    BY <2>1 DEF Staged
  <2>9. Staged'
    BY <1>3, <2>1, <2>3, <2>8 DEF Staged, InStage, HasJoined, take, history
  <2> QED
    BY <2>7, <2>9
<1>9. forked' = forked
  BY DEF take, history
<1> QED
  BY <1>6, <1>7, <1>8, <1>9 DEF Broker, Structure

(* The chain is sent: the first time there is nothing yet.                 *)
LEMMA EnqueueKeeps ==
  ASSUME Broker, enqueue
  PROVE  Broker'
<1>1. PICK m \in Message : m = Msg("finalize", 0) /\ m.task = "finalize" /\ m.chord = 0
  BY MsgIs DEF Tasks
<1>2. /\ IsABag(queue') /\ DOMAIN queue' = DOMAIN queue \cup {m}
      /\ m \notin DOMAIN queue => queue'[m] = 1
  BY <1>1, Added DEF Broker, BrokerTyped, enqueue
<1>3. BrokerTyped'
  <2>1. sent' \in 0 .. MaxChains /\ forked' \in BOOLEAN
    BY ChainAssumption DEF Broker, BrokerTyped, enqueue
  <2>2. m.chord <= Len(chords)
    BY <1>1 DEF Broker, BrokerTyped
  <2> QED
    BY <1>2, <2>1, <2>2 DEF Broker, BrokerTyped, enqueue
<1>4. Addressed'
  BY <1>1, <1>2 DEF Broker, Addressed, WellAddressed, Busy, Header, enqueue
<1>5. ASSUME ~forked'
      PROVE  OneDelivery' /\ Staged'
  <2>1. ~forked /\ sent = 0 /\ sent' = 1
    <3>1. ~forked /\ ~(sent > 0)
      BY <1>5, Zenon DEF enqueue
    <3>2. sent \in Nat /\ sent' = sent + 1
      BY DEF enqueue, Broker, BrokerTyped
    <3> QED
      BY <3>1, <3>2
  <2>2. Staged
    BY <2>1 DEF Broker, Structure
  <2>3. DOMAIN queue' = {m} /\ queue'[m] = 1 /\ chords' = <<>>
        /\ \A w \in Workers : ~Busy(w)'
    BY <1>2, <2>1, <2>2 DEF Staged, Busy, enqueue
  <2>4. OneDelivery'
    BY <2>3 DEF OneDelivery
  <2>5. InStage(m.task)'
    BY <1>1, <2>3 DEF InStage, Header, Audience
  <2>6. Len(chords') <= 1
    BY <2>3
  <2>7. Staged'
    BY <2>1, <2>3, <2>5, <2>6 DEF Staged
  <2> QED
    BY <2>4, <2>7
<1> QED
  BY <1>3, <1>4, <1>5 DEF Broker, Structure
-----------------------------------------------------------------------------
(* What a return sends, and what it does to the chords.                    *)
Follows(task, msgs) ==
  /\ task = "finalize" => msgs = {Msg("correct_transcript", 0)}
  /\ task = "score_interview" => msgs = {Msg("finalize_verdict", 0)}
  /\ task = "finalize_verdict" => msgs = {Msg(a, 0) : a \in Audience}
  /\ task \in Audience => msgs = {}
  /\ task \notin Header \cup {"correct_transcript"} => chords' = chords
  /\ task = "correct_transcript" =>
       msgs = {Msg(t, Len(chords) + 1) : t \in Header} /\ chords' = Append(chords, {})

Reports(msg, msgs) ==
  /\ msg.chord \in DOMAIN chords
  /\ chords' = [chords EXCEPT ![msg.chord] = chords[msg.chord] \cup {msg.task}]
  /\ msgs = IF /\ chords[msg.chord] # Header
               /\ chords[msg.chord] \cup {msg.task} = Header
            THEN {Msg("score_interview", 0)} ELSE {}

ReturnsWith(w, msgs) ==
  /\ \/ queue' = SendAll(queue, msgs) /\ UNCHANGED <<mishaps, forked>>
     \/ /\ queue' = BagAdd(SendAll(queue, msgs), running[w].msg)
        /\ forked' = TRUE /\ mishaps' \in 0 .. MaxMishaps
  /\ IF running[w].msg.task \in Header THEN Reports(running[w].msg, msgs)
     ELSE Follows(running[w].msg.task, msgs)

(* A return is one of the two: a header task's report, or a link.          *)
LEMMA ReturnIs ==
  ASSUME Broker, NEW w \in Workers, Return(w)
  PROVE  \E msgs : ReturnsWith(w, msgs)
<1> DEFINE msg == running[w].msg
           part == IF msg.chord = 0 THEN {} ELSE chords[msg.chord] \cup {msg.task}
           body == IF msg.chord # 0 /\ Joined(chords[msg.chord], part)
                   THEN {Msg("score_interview", 0)} ELSE {}
           msgs == successors(msg.task) \cup body
           opened == {m.chord : m \in successors(msg.task)} \ {0}
<1>1. /\ msg \in Message /\ msg.chord <= Len(chords) /\ WellAddressed(msg)
      /\ chords \in Seq(SUBSET Header)
  BY DEF Broker, BrokerTyped, Addressed, Job
<1>2. \/ queue' = SendAll(queue, msgs) /\ UNCHANGED <<mishaps, forked>>
      \/ /\ queue' = BagAdd(SendAll(queue, msgs), msg)
         /\ forked' = TRUE /\ mishaps' \in 0 .. MaxMishaps
  <2>1. Mishap => mishaps' \in 0 .. MaxMishaps
    BY ChainAssumption DEF Mishap, Broker, BrokerTyped
  <2> QED
    BY <2>1 DEF Return
<1>3. chords' = IF msg.chord # 0 THEN [chords EXCEPT ![msg.chord] = part]
                ELSE IF opened # {} THEN Append(chords, {}) ELSE chords
  BY DEF Return
<1>4. \A t \in Tasks, k \in Nat : Msg(t, k).chord = k
  BY MsgIs
<1>5. CASE msg.task \in Header
  <2>1. msg.chord # 0 /\ msg.chord \in DOMAIN chords
    BY <1>1, <1>5 DEF WellAddressed, Message
  <2>2. successors(msg.task) = {}
    BY <1>5 DEF successors, Header
  <2>3. msgs = IF /\ chords[msg.chord] # Header
                  /\ chords[msg.chord] \cup {msg.task} = Header
               THEN {Msg("score_interview", 0)} ELSE {}
    BY <2>1, <2>2 DEF Joined
  <2>4. chords' = [chords EXCEPT ![msg.chord] = chords[msg.chord] \cup {msg.task}]
    BY <1>3, <2>1
  <2>5. Reports(msg, msgs)
    BY <2>1, <2>3, <2>4 DEF Reports
  <2> QED
    BY <1>2, <1>5, <2>5 DEF ReturnsWith
<1>6. CASE msg.task = "correct_transcript"
  <2>1. msg.chord = 0 /\ msg.task \notin Header
    BY <1>1, <1>6 DEF WellAddressed, Header
  <2>2. msgs = {Msg(t, Len(chords) + 1) : t \in Header}
    BY <1>6, <2>1 DEF successors, NewChord
  <2>3. Len(chords) + 1 \in opened
    <3>1. PICK n \in Nat : n = Len(chords) + 1
      BY <1>1
    <3>2. /\ Msg("measure_signals", n) \in successors(msg.task)
          /\ Msg("measure_signals", n).chord = n
      BY <1>4, <1>6, <3>1 DEF successors, NewChord, Header, Tasks
    <3>3. n # 0
      BY <1>1, <3>1
    <3> QED
      BY <3>1, <3>2, <3>3
  <2>4. chords' = Append(chords, {})
    BY <1>3, <2>1, <2>3
  <2>5. Follows(msg.task, msgs)
    BY <1>6, <2>1, <2>2, <2>4 DEF Follows, Audience
  <2> QED
    BY <1>2, <2>1, <2>5 DEF ReturnsWith
<1>7. CASE msg.task \notin Header \cup {"correct_transcript"}
  <2>1. msg.chord = 0 /\ body = {}
    BY <1>1, <1>7 DEF WellAddressed
  <2>2. /\ msg.task = "finalize" => msgs = {Msg("correct_transcript", 0)}
        /\ msg.task = "score_interview" => msgs = {Msg("finalize_verdict", 0)}
        /\ msg.task = "finalize_verdict" => msgs = {Msg(a, 0) : a \in Audience}
        /\ msg.task \in Audience => msgs = {}
    BY <2>1 DEF successors, Audience
  <2>3. opened = {}
    <3>1. \A m \in successors(msg.task) : m.chord = 0
      BY <1>1, <1>4, <1>7, <2>1, <2>2
         DEF Message, Tasks, Header, Audience
    <3> QED
      BY <3>1
  <2>4. chords' = chords
    BY <1>3, <2>1, <2>3
  <2>5. Follows(msg.task, msgs)
    BY <1>7, <2>2, <2>4 DEF Follows
  <2> QED
    BY <1>2, <1>7, <2>5 DEF ReturnsWith
<1> QED
  BY <1>5, <1>6, <1>7

(* The messages a return sends are well addressed.                         *)
LEMMA ReturnTyped ==
  ASSUME Broker, NEW w \in Workers, NEW msgs, ReturnsWith(w, msgs)
  PROVE  /\ chords' \in Seq(SUBSET Header) /\ Len(chords) <= Len(chords')
         /\ \A m \in msgs : /\ m \in Message /\ WellAddressed(m)
                            /\ m.chord <= Len(chords')
<1> DEFINE msg == running[w].msg
<1>1. msg \in Message /\ chords \in Seq(SUBSET Header) /\ Len(chords) \in Nat
  BY DEF Broker, BrokerTyped, Job
<1>2. CASE msg.task \in Header
  <2>1. Reports(msg, msgs)
    BY <1>2 DEF ReturnsWith
  <2>2. chords[msg.chord] \cup {msg.task} \in SUBSET Header
    BY <1>1, <1>2, <2>1 DEF Reports
  <2>3. chords' \in Seq(SUBSET Header) /\ Len(chords') = Len(chords)
    BY <1>1, <2>1, <2>2 DEF Reports
  <2>4. \A m \in msgs : m = Msg("score_interview", 0)
    BY <2>1 DEF Reports
  <2>5. /\ Msg("score_interview", 0) \in Message
        /\ Msg("score_interview", 0).task = "score_interview"
        /\ Msg("score_interview", 0).chord = 0
    BY MsgIs DEF Tasks
  <2> QED
    BY <1>1, <2>3, <2>4, <2>5 DEF WellAddressed, Header
<1>3. CASE msg.task = "correct_transcript"
  <2>1. /\ msgs = {Msg(t, Len(chords) + 1) : t \in Header} /\ chords' = Append(chords, {})
    BY <1>3 DEF ReturnsWith, Follows, Header
  <2>2. chords' \in Seq(SUBSET Header) /\ Len(chords') = Len(chords) + 1
    BY <1>1, <2>1
  <2>3. PICK n \in Nat : n = Len(chords) + 1 /\ n # 0
    BY <1>1
  <2>4. \A m \in msgs : m \in Message /\ m.task \in Header /\ m.chord = n
    BY <2>1, <2>3, MsgIs DEF Header, Tasks
  <2> QED
    BY <1>1, <2>2, <2>3, <2>4 DEF WellAddressed
<1>4. CASE msg.task \notin Header \cup {"correct_transcript"}
  <2>1. Follows(msg.task, msgs) /\ chords' = chords
    BY <1>4 DEF ReturnsWith, Follows
  <2>2. \A m \in msgs : \E t \in Tasks \ Header : m = Msg(t, 0)
    BY <1>1, <1>4, <2>1 DEF Follows, Message, Tasks, Header, Audience
  <2>3. \A t \in Tasks \ Header : /\ Msg(t, 0) \in Message /\ Msg(t, 0).task = t
                                 /\ Msg(t, 0).chord = 0
    BY MsgIs
  <2>4. \A m \in msgs : m \in Message /\ m.task \notin Header /\ m.chord = 0
    BY <2>2, <2>3
  <2> QED
    BY <1>1, <2>1, <2>4 DEF WellAddressed
<1> QED
  BY <1>2, <1>3, <1>4

(* A chain that is not forked has one delivery where it returns to one     *)
(* successor, and two where the chord, or the reports, run side by side.   *)
LEMMA ReturnStaged ==
  ASSUME Broker, ~forked, NEW w \in Workers, Busy(w), NEW msgs, ReturnsWith(w, msgs),
         queue' = SendAll(queue, msgs), running' = [running EXCEPT ![w] = Idle],
         UNCHANGED sent
  PROVE  OneDelivery' /\ Staged'
<1> DEFINE task == running[w].msg.task
<1>1. /\ \A v \in Workers : running'[v] = IF v = w THEN Idle ELSE running[v]
      /\ chords \in Seq(SUBSET Header) /\ Len(chords) \in Nat /\ task \in Tasks
  BY DEF Broker, BrokerTyped, Job, Message
<1>2. \A v \in Workers : Busy(v)' <=> Busy(v) /\ v # w
  BY <1>1 DEF Busy
<1>3. /\ DOMAIN queue' = DOMAIN queue \cup msgs
      /\ \A m \in DOMAIN queue \ msgs : queue'[m] = queue[m]
      /\ \A m \in msgs \ DOMAIN queue : queue'[m] = 1
  <2>1. IsABag(queue)
    BY DEF Broker, BrokerTyped
  <2>2. /\ DOMAIN SendAll(queue, msgs) = DOMAIN queue \cup msgs
        /\ \A m \in DOMAIN queue \ msgs : SendAll(queue, msgs)[m] = queue[m]
        /\ \A m \in msgs \ DOMAIN queue : SendAll(queue, msgs)[m] = 1
    BY <2>1, AllAdded
  <2> QED
    BY <2>2
<1>4. OneDelivery /\ Staged
  BY DEF Broker, Structure
<1>5. InStage(task) /\ sent # 0
  BY <1>4 DEF Staged
<1>6. /\ \A m \in DOMAIN queue : Apart(m.task, task)
      /\ \A v \in Workers : Busy(v)' => Apart(running[v].msg.task, task)
  BY <1>2, <1>4 DEF OneDelivery
<1>7. ASSUME msgs = {}, Len(chords') = Len(chords),
             \A t : Apart(t, task) /\ InStage(t) => InStage(t)'
      PROVE  OneDelivery' /\ Staged'
  <2>1. OneDelivery'
    BY <1>1, <1>2, <1>3, <1>4, <1>7 DEF OneDelivery
  <2>2. \A m \in DOMAIN queue' : InStage(m.task)'
    BY <1>3, <1>4, <1>6, <1>7 DEF Staged
  <2>3. \A v \in Workers : Busy(v)' => \E t : t = running'[v].msg.task /\ InStage(t)'
    BY <1>1, <1>2, <1>4, <1>6, <1>7 DEF Staged
  <2> QED
    BY <1>4, <1>5, <1>7, <2>1, <2>2, <2>3 DEF Staged
<1>8. ASSUME DOMAIN queue = {}, \A v \in Workers : ~Busy(v)', Len(chords') <= 1,
             \A m \in msgs : InStage(m.task)',
             \A m, n \in msgs : m # n => Apart(m.task, n.task)
      PROVE  OneDelivery' /\ Staged'
  <2>1. OneDelivery'
    BY <1>3, <1>8 DEF OneDelivery
  <2> QED
    BY <1>3, <1>5, <1>8, <2>1 DEF Staged
<1>9. ASSUME task \notin Header \cup Audience
      PROVE  DOMAIN queue = {} /\ \A v \in Workers : ~Busy(v)'
  BY <1>6, <1>9 DEF Apart
<1>10. \A t \in Tasks, k \in Nat : Msg(t, k).task = t
  BY MsgIs
<1>11. CASE task \in {"finalize", "score_interview"}
  <2>1. PICK t \in Tasks :
          t = IF task = "finalize" THEN "correct_transcript" ELSE "finalize_verdict"
    BY DEF Tasks
  <2>2. msgs = {Msg(t, 0)} /\ Msg(t, 0).task = t /\ chords' = chords
    BY <1>10, <1>11, <2>1 DEF ReturnsWith, Follows, Header
  <2>3. InStage(t)'
    BY <1>5, <1>11, <2>1, <2>2 DEF InStage, HasJoined, Header, Audience
  <2> QED
    BY <1>4, <1>8, <1>9, <1>11, <2>2, <2>3 DEF Staged, Header, Audience
<1>12. CASE task = "correct_transcript"
  <2>1. msgs = {Msg(t, Len(chords) + 1) : t \in Header} /\ chords' = Append(chords, {})
    BY <1>12 DEF ReturnsWith, Follows, Header
  <2>2. Len(chords) = 0
    BY <1>1, <1>5, <1>12 DEF InStage
  <2>3. Len(chords') = 1 /\ chords'[1] = {}
    BY <1>1, <2>1, <2>2
  <2>4. \A t \in Header : InStage(t)'
    BY <2>3 DEF InStage, Header, Audience
  <2>5. /\ \A m \in msgs : m.task \in Header
        /\ \A m, n \in msgs : m # n => m.task # n.task
    <3>1. PICK n \in Nat : n = Len(chords) + 1
      BY <1>1
    <3>2. \A t \in Header : Msg(t, n).task = t
      BY <1>10 DEF Header, Tasks
    <3> QED
      BY <2>1, <3>1, <3>2
  <2>6. \A m, n \in msgs : m # n => Apart(m.task, n.task)
    BY <2>5 DEF Apart
  <2> QED
    BY <1>8, <1>9, <1>12, <2>3, <2>4, <2>5, <2>6 DEF Header, Audience
<1>13. CASE task \in Header
  <2>1. Reports(running[w].msg, msgs) /\ WellAddressed(running[w].msg)
    BY <1>13 DEF ReturnsWith, Broker, Addressed
  <2>2. Len(chords) = 1 /\ task \notin chords[1]
    BY <1>5, <1>13 DEF InStage
  <2>3. DOMAIN chords = {1} /\ running[w].msg.chord = 1
    BY <1>1, <2>1, <2>2 DEF Reports
  <2>4. Len(chords') = 1 /\ chords'[1] = chords[1] \cup {task}
    BY <1>1, <2>1, <2>2, <2>3 DEF Reports
  <2>5. chords[1] # Header
    BY <1>13, <2>2
  <2>6. \A t : Apart(t, task) => t \in Header /\ t # task
    BY <1>13 DEF Apart, Header, Audience
  <2>7. CASE chords[1] \cup {task} = Header
    <3>1. PICK t \in {"score_interview"} : msgs = {Msg(t, 0)} /\ Msg(t, 0).task = t
      BY <1>10, <2>1, <2>3, <2>5, <2>7 DEF Reports, Tasks
    <3>2. InStage(t)'
      BY <2>4, <2>7, <3>1 DEF InStage, HasJoined, Header
    <3>3. \A u : Apart(u, task) => ~InStage(u)
      BY <2>6, <2>7 DEF InStage
    <3>4. DOMAIN queue = {} /\ \A v \in Workers : ~Busy(v)'
      BY <1>2, <1>4, <1>6, <3>3 DEF Staged
    <3> QED
      BY <1>8, <2>4, <3>1, <3>2, <3>4
  <2>8. CASE chords[1] \cup {task} # Header
    <3>1. msgs = {}
      BY <2>1, <2>3, <2>8 DEF Reports
    <3>2. \A t : Apart(t, task) /\ InStage(t) => InStage(t)'
      BY <2>4, <2>6 DEF InStage, Header, Audience
    <3> QED
      BY <1>7, <2>2, <2>4, <3>1, <3>2
  <2> QED
    BY <2>7, <2>8
<1>14. CASE task = "finalize_verdict"
  <2>1. msgs = {Msg(a, 0) : a \in Audience} /\ chords' = chords
    BY <1>14 DEF ReturnsWith, Follows, Header
  <2>2. \A a \in Audience : InStage(a)'
    BY <1>5, <1>14, <2>1 DEF InStage, HasJoined, Header, Audience
  <2>3. /\ \A m \in msgs : m.task \in Audience
        /\ \A m, n \in msgs : m # n => m.task # n.task
    BY <1>10, <2>1 DEF Audience, Tasks
  <2>4. \A m, n \in msgs : m # n => Apart(m.task, n.task)
    BY <2>3 DEF Apart
  <2> QED
    BY <1>4, <1>8, <1>9, <1>14, <2>1, <2>2, <2>3, <2>4 DEF Staged, Header, Audience
<1>15. CASE task \in Audience
  <2>1. msgs = {} /\ chords' = chords
    BY <1>15 DEF ReturnsWith, Follows, Header, Audience
  <2>2. \A t : Apart(t, task) /\ InStage(t) => InStage(t)'
    BY <2>1 DEF InStage, HasJoined
  <2> QED
    BY <1>7, <2>1, <2>2
<1> QED
  BY <1>1, <1>11, <1>12, <1>13, <1>14, <1>15 DEF Tasks

(* So a return keeps the chain in order.                                   *)
LEMMA ReturnKeeps ==
  ASSUME Broker, NEW w \in Workers, Busy(w), Return(w), NEW msgs, ReturnsWith(w, msgs)
  PROVE  Broker'
<1> DEFINE out == SendAll(queue, msgs)
           msg == running[w].msg
<1>1. /\ msg \in Message /\ msg.chord <= Len(chords) /\ WellAddressed(msg)
      /\ chords \in Seq(SUBSET Header)
      /\ \A v \in Workers : running'[v] = IF v = w THEN Idle ELSE running[v]
  BY DEF Broker, BrokerTyped, Job, Return, Addressed
<1>2. /\ chords' \in Seq(SUBSET Header) /\ Len(chords) <= Len(chords')
      /\ \A m \in msgs : m \in Message /\ WellAddressed(m) /\ m.chord <= Len(chords')
  BY ReturnTyped
<1>3. IsABag(out) /\ DOMAIN out = DOMAIN queue \cup msgs
  BY AllAdded DEF Broker, BrokerTyped
<1> HIDE DEF out
<1>4. IsABag(queue') /\ DOMAIN queue' \subseteq DOMAIN queue \cup msgs \cup {msg}
  <2>1. IsABag(BagAdd(out, msg)) /\ DOMAIN BagAdd(out, msg) = DOMAIN out \cup {msg}
    BY <1>3, Added
  <2> QED
    BY <1>3, <2>1 DEF ReturnsWith, out
<1>5. \A m \in DOMAIN queue' : m \in Message /\ WellAddressed(m) /\ m.chord <= Len(chords')
  <2>1. \A m \in DOMAIN queue : m \in Message /\ WellAddressed(m) /\ m.chord <= Len(chords)
    BY DEF Broker, BrokerTyped, Addressed
  <2>2. Len(chords) \in Nat /\ Len(chords') \in Nat
    BY <1>1, <1>2
  <2> QED
    BY <1>1, <1>2, <1>4, <2>1, <2>2 DEF Message
<1>6. \A v \in Workers : /\ running'[v] \in Job /\ running'[v].msg.chord <= Len(chords')
                         /\ WellAddressed(running'[v].msg)
                         /\ running'[v].at = "idle" => ~Busy(v)'
  <2>1. Len(chords) \in Nat /\ Len(chords') \in Nat
    BY <1>1, <1>2
  <2>2. WellAddressed(Idle.msg) /\ Idle \in Job /\ Idle.msg.chord <= Len(chords')
    BY <2>1, NewJobs DEF WellAddressed, Header
  <2>3. \A v \in Workers : /\ running[v] \in Job /\ running[v].msg.chord <= Len(chords)
                           /\ running[v].msg.chord \in Nat
                           /\ WellAddressed(running[v].msg)
                           /\ running[v].at = "idle" => ~Busy(v)
    BY DEF Broker, BrokerTyped, Addressed, Job, Message
  <2> QED
    BY <1>1, <1>2, <2>1, <2>2, <2>3 DEF Busy
<1>7. BrokerTyped' /\ Addressed'
  <2>1. running' \in [Workers -> Job]
    BY <1>6 DEF Broker, BrokerTyped, Return
  <2>2. mishaps' \in 0 .. MaxMishaps /\ forked' \in BOOLEAN
    BY DEF Broker, BrokerTyped, ReturnsWith
  <2> QED
    BY <1>2, <1>4, <1>5, <1>6, <2>1, <2>2 DEF Broker, BrokerTyped, Addressed, Return
<1>8. ASSUME ~forked'
      PROVE  OneDelivery' /\ Staged'
  <2>1. queue' = SendAll(queue, msgs) /\ ~forked
    BY <1>8 DEF ReturnsWith
  <2> QED
    BY <2>1, ReturnStaged DEF Return
<1> QED
  BY <1>7, <1>8 DEF Broker, Structure
-----------------------------------------------------------------------------
(* The deliveries move, and the rows stay as they are, but for a report    *)
(* that fails: a row in transit keeps a delivery with its work to do or    *)
(* its task on record, and the chord does not join before its tasks are    *)
(* done.                                                                   *)
LEMMA MoveKeeps ==
  ASSUME IInv, Broker',
         UNCHANGED <<rubric, text, analysed, findings, score, verdict>>,
         reports' \in [Audience -> Report], uncaught \subseteq uncaught',
         \A v \in Workers : \/ running'[v] \in {running[v], Idle}
                           \/ running'[v].at = "begin",
         Pending("score_interview") =>
           Pending("score_interview")' \/ "score_interview" \in uncaught',
         \A a \in Audience : reports'[a].status = "RENDERING" =>
           /\ reports[a].status = "RENDERING"
           /\ Pending(a) => Pending(a)' \/ a \in uncaught',
         ~forked' => /\ ~forked
                     /\ HasJoined => HasJoined'
                     /\ Len(chords') = 1 /\ "measure_signals" \in chords'[1] =>
                          "delivery" \in score.signals
  PROVE  IInv'
<1>1. RowsTyped'
  BY Parts DEF RowsTyped
<1>2. InTransit'
  BY DEF IInv, InTransit
<1>3. ASSUME ~forked'
      PROVE  ScoreSound' /\ FramesSound' /\ \A v \in Workers : JobSound(running[v])'
  <2>1. /\ ScoreSound /\ FramesSound /\ \A v \in Workers : JobSound(running[v])
    BY <1>3 DEF IInv, RowsSound
  <2>2. ScoreSound'
    BY <1>3, <2>1 DEF ScoreSound
  <2>3. FramesSound'
    BY <2>1 DEF FramesSound
  <2>4. ASSUME NEW v \in Workers
        PROVE  JobSound(running[v])'
    <3>1. PICK x : x = running'[v]
      OBVIOUS
    <3>2. JobSound(x)
      BY <2>1, <3>1, BlankSound
    <3> QED
      BY <3>1, <3>2 DEF JobSound
  <2> QED
    BY <2>2, <2>3, <2>4
<1> QED
  BY <1>1, <1>2, <1>3, Parts DEF RowsSound

(* What is in the queue stays pending, and what other workers have in hand.*)
LEMMA StillPending ==
  ASSUME NEW w \in Workers, NEW task, Pending(task),
         running \in [Workers -> Job], running' = [running EXCEPT ![w] = Idle],
         DOMAIN queue \subseteq DOMAIN queue',
         running[w].msg.task = task /\ running[w].at \notin {"idle", "done"} =>
           \/ \E m \in DOMAIN queue' : m.task = task
           \/ task \in uncaught'
  PROVE  Pending(task)' \/ task \in uncaught'
<1>1. \A v \in Workers : running'[v] = IF v = w THEN Idle ELSE running[v]
  OBVIOUS
<1>2. CASE \E m \in DOMAIN queue : m.task = task
  BY <1>2 DEF Pending
<1>3. CASE \E v \in Workers \ {w} : /\ running[v].msg.task = task
                                   /\ running[v].at \notin {"idle", "done"}
  BY <1>1, <1>3 DEF Pending
<1>4. CASE running[w].msg.task = task /\ running[w].at \notin {"idle", "done"}
  BY <1>4 DEF Pending
<1> QED
  BY <1>2, <1>3, <1>4 DEF Pending

(* A worker drops its task, and what it had to do is in the queue again or *)
(* on record.                                                              *)
LEMMA DropsKeep ==
  ASSUME IInv, NEW w \in Workers, Busy(w), running' = [running EXCEPT ![w] = Idle],
         \/ queue' = queue /\ running[w].msg.task \in caught' \cup uncaught'
         \/ \E m \in Message : /\ m.task = running[w].msg.task
                               /\ m.chord = running[w].msg.chord
                               /\ queue' = BagAdd(queue, m),
         mishaps' \in 0 .. MaxMishaps, caught' \subseteq Audience, uncaught' \subseteq Tasks,
         uncaught \subseteq uncaught', reports' \in [Audience -> Report],
         \A a \in Audience : reports'[a].status = "RENDERING" =>
           /\ reports[a].status = "RENDERING"
           /\ running[w].msg.task = a /\ queue' = queue => a \in uncaught',
         UNCHANGED <<chords, sent, forked, rubric, text, analysed, findings, score, verdict>>
  PROVE  IInv'
<1>1. Broker /\ running \in [Workers -> Job] /\ IsABag(queue)
  BY Parts DEF Broker, BrokerTyped
<1>2. Broker'
  BY <1>1, DropKeeps
<1>3. /\ DOMAIN queue \subseteq DOMAIN queue'
      /\ queue' # queue => \E m \in DOMAIN queue' : m.task = running[w].msg.task
  <2>1. ASSUME NEW m \in Message, m.task = running[w].msg.task, queue' = BagAdd(queue, m)
        PROVE  DOMAIN queue \subseteq DOMAIN queue' /\ m \in DOMAIN queue'
    <3>1. DOMAIN queue' = DOMAIN queue \cup {m}
      BY <1>1, <2>1, Added
    <3> QED
      BY <3>1
  <2> QED
    BY <2>1
<1>4. \A t \in {"score_interview"} \cup Audience :
        Pending(t) /\ (running[w].msg.task = t /\ queue' = queue => t \in uncaught') =>
          Pending(t)' \/ t \in uncaught'
  BY <1>1, <1>3, StillPending
<1>5. queue' = queue /\ running[w].msg.task = "score_interview" => "score_interview" \in uncaught'
  <2>1. ASSUME NEW m \in Message, queue' = BagAdd(queue, m)
        PROVE  queue' # queue
    <3>1. /\ DOMAIN BagAdd(queue, m) = DOMAIN queue \cup {m}
          /\ m \in DOMAIN queue => BagAdd(queue, m)[m] = queue[m] + 1
      BY DEF BagAdd
    <3>2. m \in DOMAIN queue => queue[m] \in Nat
      BY <1>1 DEF IsABag
    <3> QED
      BY <2>1, <3>1, <3>2
  <2> QED
    BY <2>1 DEF Audience
<1>6. ~forked' => /\ ~forked
                  /\ HasJoined => HasJoined'
                  /\ Len(chords') = 1 /\ "measure_signals" \in chords'[1] =>
                       "delivery" \in score.signals
  BY DEF IInv, RowsSound, ScoreSound, HasJoined
<1>7. \A v \in Workers : running'[v] \in {running[v], Idle}
  BY <1>1
<1>8. Pending("score_interview") =>
        Pending("score_interview")' \/ "score_interview" \in uncaught'
  BY <1>4, <1>5
<1>9. \A a \in Audience : reports'[a].status = "RENDERING" =>
        /\ reports[a].status = "RENDERING"
        /\ Pending(a) => Pending(a)' \/ a \in uncaught'
  BY <1>4
<1> QED
  BY <1>2, <1>6, <1>7, <1>8, <1>9, MoveKeeps

(* Workers killed, transactions that fail and time limits.                 *)
LEMMA BusyIs ==
  ASSUME IInv, NEW w \in Workers
  PROVE  /\ running[w].at # "idle" => Busy(w)
         /\ running[w] \in Job /\ running[w].msg \in Message
         /\ running[w].msg.task \in Tasks
         /\ Mishap => mishaps' \in 0 .. MaxMishaps
         /\ caught \subseteq Audience /\ uncaught \subseteq Tasks
         /\ reports \in [Audience -> Report]
<1>1. running[w].at # "idle" => Busy(w)
  BY NewJobs DEF Busy
<1>2. Mishap => mishaps' \in 0 .. MaxMishaps
  BY ChainAssumption DEF Mishap, IInv, TypeOK
<1> QED
  BY <1>1, <1>2 DEF IInv, TypeOK, Job, Message

(* A task raises: it is sent again or has failed for good, on record.      *)
LEMMA RaisesKeep ==
  ASSUME IInv, NEW w \in Workers, NEW handled \in BOOLEAN, raises(w, handled),
         running[w].at # "idle", reports' \in [Audience -> Report],
         handled => running[w].msg.task \in Audience,
         \A a \in Audience : reports'[a].status = "RENDERING" =>
           /\ reports[a].status = "RENDERING"
           /\ handled => a # running[w].msg.task,
         UNCHANGED <<rubric, text, analysed, findings, score, verdict>>
  PROVE  IInv'
<1>1. /\ Busy(w) /\ running[w].msg \in Message /\ running[w].msg.task \in Tasks
      /\ mishaps' \in 0 .. MaxMishaps /\ caught \subseteq Audience /\ uncaught \subseteq Tasks
  BY BusyIs DEF raises
<1>2. CASE Exhausted(running[w].msg)
  <2>1. /\ queue' = queue
        /\ caught' = IF handled THEN caught \cup {running[w].msg.task} ELSE caught
        /\ uncaught' = IF handled THEN uncaught ELSE uncaught \cup {running[w].msg.task}
    BY <1>2 DEF raises
  <2>2. /\ caught' \subseteq Audience /\ uncaught' \subseteq Tasks
        /\ uncaught \subseteq uncaught' /\ running[w].msg.task \in caught' \cup uncaught'
        /\ ~handled => running[w].msg.task \in uncaught'
    <3>1. CASE handled
      BY <1>1, <2>1, <3>1
    <3>2. CASE ~handled
      BY <1>1, <2>1, <3>2
    <3> QED
      BY <3>1, <3>2
  <2>3. \A a \in Audience : reports'[a].status = "RENDERING" =>
          /\ reports[a].status = "RENDERING"
          /\ running[w].msg.task = a /\ queue' = queue => a \in uncaught'
    BY <2>2
  <2>4. running' = [running EXCEPT ![w] = Idle] /\ UNCHANGED <<chords, sent, forked>>
    BY DEF raises
  <2> QED
    BY <1>1, <2>1, <2>2, <2>3, <2>4, DropsKeep
<1>3. CASE ~Exhausted(running[w].msg)
  <2>1. PICK m \in Message : m = running[w].msg
    BY <1>1
  <2>2. PICK n : n = m.tries + 1
    OBVIOUS
  <2>3. n \in 0 .. MaxRetries
    BY <1>3, <2>1, <2>2, ChainAssumption DEF Message, Exhausted
  <2>4. PICK x : x = [m EXCEPT !.tries = n]
    OBVIOUS
  <2>5. x \in Message /\ x.task = m.task /\ x.chord = m.chord
    BY <2>3, <2>4 DEF Message
  <2>6. queue' = BagAdd(queue, x) /\ UNCHANGED <<caught, uncaught>>
    BY <1>3, <2>1, <2>2, <2>4 DEF raises
  <2>7. queue' # queue
    <3>1. /\ DOMAIN BagAdd(queue, x) = DOMAIN queue \cup {x}
          /\ x \in DOMAIN queue => BagAdd(queue, x)[x] = queue[x] + 1
      BY DEF BagAdd
    <3>2. x \in DOMAIN queue => queue[x] \in Nat
      BY DEF IInv, TypeOK, IsABag
    <3> QED
      BY <2>6, <3>1, <3>2
  <2> QED
    BY <1>1, <2>1, <2>5, <2>6, <2>7, DropsKeep DEF raises
<1> QED
  BY <1>2, <1>3

(* Every mishap of a worker that has a task in hand.                       *)
LEMMA FaultsKeep ==
  ASSUME IInv, NEW w \in Workers,
         \/ WorkerLost(w) \/ transaction_raises(w) \/ time_limit(w)
         \/ \E a \in Audience : render_fails(w, a)
  PROVE  IInv'
<1>1. CASE WorkerLost(w)
  <2>1. Busy(w) /\ running[w].msg \in Message
    BY <1>1, BusyIs DEF WorkerLost, Busy
  <2>2. queue' = BagAdd(queue, running[w].msg) /\ queue' # queue
    <3>1. PICK m \in Message : m = running[w].msg
      BY <2>1
    <3>2. /\ DOMAIN BagAdd(queue, m) = DOMAIN queue \cup {m}
          /\ m \in DOMAIN queue => BagAdd(queue, m)[m] = queue[m] + 1
      BY DEF BagAdd
    <3>3. m \in DOMAIN queue => queue[m] \in Nat
      BY DEF IInv, TypeOK, IsABag
    <3> QED
      BY <1>1, <3>1, <3>2, <3>3 DEF WorkerLost, Redelivered
  <2>3. /\ mishaps' \in 0 .. MaxMishaps /\ caught' \subseteq Audience
        /\ uncaught' \subseteq Tasks /\ uncaught \subseteq uncaught'
        /\ reports' \in [Audience -> Report]
    BY <1>1, BusyIs DEF WorkerLost, rows
  <2> QED
    BY <1>1, <2>1, <2>2, <2>3, DropsKeep DEF WorkerLost, rows
<1>2. CASE transaction_raises(w)
  <2>1. reports' \in [Audience -> Report]
    BY <1>2, BusyIs DEF transaction_raises, rows
  <2> QED
    BY <1>2, <2>1, RaisesKeep DEF transaction_raises, rows
<1>3. CASE time_limit(w)
  <2>1. Busy(w) /\ running[w].msg.task \in Tasks /\ running[w].msg.task \in uncaught'
    BY <1>3, BusyIs DEF time_limit
  <2>2. /\ mishaps' \in 0 .. MaxMishaps /\ caught' \subseteq Audience
        /\ uncaught' \subseteq Tasks /\ uncaught \subseteq uncaught'
        /\ reports' \in [Audience -> Report]
    BY <1>3, <2>1, BusyIs DEF time_limit, rows
  <2> QED
    BY <1>3, <2>1, <2>2, DropsKeep DEF time_limit, rows
<1>4. ASSUME NEW a \in Audience, render_fails(w, a)
      PROVE  IInv'
  <2>1. running[w].msg.task = a /\ running[w].at = "writes" /\ raises(w, TRUE)
    BY <1>4 DEF render_fails, In
  <2>2. /\ reports' \in [Audience -> Report] /\ reports'[a].status = "FAILED"
        /\ \A b \in Audience : b # a => reports'[b] = reports[b]
    <3>1. PICK x \in Report : x = reports[a]
      BY BusyIs
    <3>2. PICK y : y = [x EXCEPT !.status = "FAILED"]
      OBVIOUS
    <3>3. y \in Report /\ y.status = "FAILED"
      BY <3>2 DEF Report, ReportStatus
    <3>4. reports' = [reports EXCEPT ![a] = y]
      BY <1>4, <3>1, <3>2 DEF render_fails, mark_failed
    <3> QED
      BY <3>3, <3>4, BusyIs
  <2>3. \A b \in Audience : reports'[b].status = "RENDERING" =>
          reports[b].status = "RENDERING" /\ b # running[w].msg.task
    BY <2>1, <2>2
  <2> QED
    BY <1>4, <2>1, <2>2, <2>3, RaisesKeep DEF render_fails
<1> QED
  BY <1>1, <1>2, <1>3, <1>4
-----------------------------------------------------------------------------
(* The chain is sent, its messages are taken, and its tasks return.        *)
LEMMA TakeMoves ==
  ASSUME IInv, NEW w \in Workers, take(w)
  PROVE  IInv'
<1>1. Broker /\ Broker'
  BY Parts, TakeKeeps
<1>2. PICK m \in DOMAIN queue : /\ running' = [running EXCEPT ![w] = Taken(m)]
                               /\ queue' = BagRemove(queue, m)
  BY DEF take, BagToSet
<1>3. /\ m \in Message /\ Taken(m).msg = m /\ Taken(m).at = "begin"
      /\ running \in [Workers -> Job] /\ IsABag(queue)
  BY <1>1, NewJobs DEF Broker, BrokerTyped
<1>4. \A v \in Workers : running'[v] = IF v = w THEN Taken(m) ELSE running[v]
  BY <1>2, <1>3
<1>5. DOMAIN queue \subseteq DOMAIN queue' \cup {m}
  BY <1>2, <1>3, Removed
<1>6. running[w].at = "idle"
  BY NewJobs DEF take
<1>7. \A t : Pending(t) => Pending(t)'
  <2>1. ASSUME NEW t, NEW n \in DOMAIN queue, n.task = t
        PROVE  Pending(t)'
    <3>1. CASE n = m
      BY <1>3, <1>4, <2>1, <3>1 DEF Pending
    <3>2. CASE n # m
      BY <1>5, <2>1, <3>2 DEF Pending
    <3> QED
      BY <3>1, <3>2
  <2>2. ASSUME NEW t, NEW v \in Workers, running[v].msg.task = t,
               running[v].at \notin {"idle", "done"}
        PROVE  Pending(t)'
    BY <1>4, <1>6, <2>2 DEF Pending
  <2> QED
    BY <2>1, <2>2 DEF Pending
<1>8. /\ reports' \in [Audience -> Report] /\ uncaught' = uncaught /\ forked' = forked
      /\ chords' = chords /\ UNCHANGED rows
  BY BusyIs DEF take, history, rows
<1>9. \A v \in Workers : running'[v] \in {running[v], Idle} \/ running'[v].at = "begin"
  BY <1>3, <1>4
<1>10. ~forked' => /\ ~forked
                   /\ HasJoined => HasJoined'
                   /\ Len(chords') = 1 /\ "measure_signals" \in chords'[1] =>
                        "delivery" \in score.signals
  BY <1>8 DEF IInv, RowsSound, ScoreSound, HasJoined
<1> QED
  BY <1>1, <1>7, <1>8, <1>9, <1>10, MoveKeeps DEF rows

(* The chain is sent once more, and then it is forked.                     *)
LEMMA EnqueueMoves ==
  ASSUME IInv, enqueue
  PROVE  IInv'
<1>1. Broker /\ Broker'
  BY Parts, EnqueueKeeps
<1>2. DOMAIN queue \subseteq DOMAIN queue'
  <2>1. PICK m \in Message : m = Msg("finalize", 0)
    BY MsgIs DEF Tasks
  <2>2. IsABag(queue) /\ queue' = BagAdd(queue, m)
    BY <1>1, <2>1 DEF Broker, BrokerTyped, enqueue
  <2>3. DOMAIN BagAdd(queue, m) = DOMAIN queue \cup {m}
    BY <2>2, Added
  <2> QED
    BY <2>2, <2>3
<1>3. \A t : Pending(t) => Pending(t)'
  BY <1>2 DEF Pending, enqueue
<1>4. /\ reports' \in [Audience -> Report] /\ uncaught' = uncaught
      /\ chords' = chords /\ running' = running /\ UNCHANGED rows
  BY DEF enqueue, rows, IInv, TypeOK
<1>5. ~forked' => ~forked
  BY Zenon DEF enqueue
<1>6. ~forked' => /\ ~forked
                  /\ HasJoined => HasJoined'
                  /\ Len(chords') = 1 /\ "measure_signals" \in chords'[1] =>
                       "delivery" \in score.signals
  BY <1>4, <1>5 DEF IInv, RowsSound, ScoreSound, HasJoined
<1> QED
  BY <1>1, <1>3, <1>4, <1>6, MoveKeeps DEF rows

(* The last task of the header leaves the signals behind when it joins.    *)
LEMMA ReturnMoves ==
  ASSUME IInv, NEW w \in Workers, Return(w)
  PROVE  IInv'
<1> DEFINE msg == running[w].msg
<1>1. PICK msgs : ReturnsWith(w, msgs)
  BY Parts, ReturnIs
<1>2. running[w].at = "done" /\ running' = [running EXCEPT ![w] = Idle] /\ Busy(w)
  BY BusyIs DEF Return
<1>3. Broker /\ Broker'
  BY <1>1, <1>2, Parts, ReturnKeeps
<1>4. /\ running \in [Workers -> Job] /\ IsABag(queue) /\ chords \in Seq(SUBSET Header)
      /\ WellAddressed(msg)
  BY <1>3 DEF Broker, BrokerTyped, Addressed
<1>5. DOMAIN queue \subseteq DOMAIN queue'
  <2>1. PICK out : out = SendAll(queue, msgs)
    OBVIOUS
  <2>2. IsABag(out) /\ DOMAIN out = DOMAIN queue \cup msgs
    BY <1>4, <2>1, AllAdded
  <2>3. DOMAIN BagAdd(out, msg) = DOMAIN out \cup {msg}
    BY <2>2, Added
  <2> QED
    BY <1>1, <2>1, <2>2, <2>3 DEF ReturnsWith
<1>6. /\ reports' \in [Audience -> Report] /\ uncaught' = uncaught /\ UNCHANGED rows
  BY DEF Return, rows, IInv, TypeOK
<1>7. \A t : Pending(t) => Pending(t)' \/ t \in uncaught'
  BY <1>2, <1>4, <1>5, StillPending
<1>8. \A v \in Workers : running'[v] \in {running[v], Idle}
  BY <1>2, <1>4
<1>9. ASSUME ~forked'
      PROVE  /\ ~forked
             /\ HasJoined => HasJoined'
             /\ Len(chords') = 1 /\ "measure_signals" \in chords'[1] =>
                  "delivery" \in score.signals
  <2>1. ~forked
    BY <1>1, <1>9 DEF ReturnsWith
  <2>2. /\ ScoreSound /\ JobSound(running[w]) /\ InStage(msg.task) /\ Len(chords) <= 1
    BY <1>2, <2>1 DEF IInv, RowsSound, Structure, Staged
  <2>3. CASE msg.task \in Header
    <3>1. Reports(msg, msgs)
      BY <1>1, <2>3 DEF ReturnsWith
    <3>2. Len(chords) = 1 /\ msg.task \notin chords[1]
      BY <2>2, <2>3 DEF InStage
    <3>3. msg.chord = 1 /\ chords'[1] = chords[1] \cup {msg.task}
      BY <1>4, <3>1, <3>2 DEF Reports
    <3>4. ~HasJoined
      BY <2>3, <3>2 DEF HasJoined
    <3>5. "measure_signals" \in chords'[1] => "delivery" \in score.signals
      BY <1>2, <2>2, <3>2, <3>3 DEF ScoreSound, JobSound
    <3> QED
      BY <2>1, <3>4, <3>5
  <2>4. CASE msg.task = "correct_transcript"
    <3>1. chords' = Append(chords, {}) /\ chords = <<>>
      BY <1>1, <2>2, <2>4 DEF ReturnsWith, Follows, InStage, Header
    <3>2. chords'[1] = {} /\ ~HasJoined
      BY <3>1 DEF HasJoined
    <3> QED
      BY <2>1, <3>2
  <2>5. CASE msg.task \notin Header \cup {"correct_transcript"}
    <3>1. chords' = chords
      BY <1>1, <2>5 DEF ReturnsWith, Follows
    <3> QED
      BY <2>1, <2>2, <3>1 DEF ScoreSound, HasJoined
  <2> QED
    BY <2>3, <2>4, <2>5
<1> HIDE DEF msg
<1> QED
  BY <1>3, <1>6, <1>7, <1>8, <1>9, MoveKeeps DEF rows
-----------------------------------------------------------------------------
(* A worker takes its task one step further: what the rows must still say, *)
(* and what they must not contradict of what the others have in hand.      *)
LEMMA WorkKeeps ==
  ASSUME IInv, NEW w \in Workers, NEW y \in Job, running[w].at # "idle",
         y.msg = running[w].msg, y.at # "idle", running' = [running EXCEPT ![w] = y],
         Unwritten, RowsTyped',
         score'.status = "SCORING" =>
           /\ rubric
           /\ score.status = "SCORING" \/ y.msg.task = "score_interview"
           /\ y.msg.task = "score_interview" => y.at # "done",
         \A a \in Audience : reports'[a].status = "RENDERING" =>
           /\ reports[a].status = "RENDERING" \/ y.msg.task = a
           /\ y.msg.task = a => y.at # "done",
         ~forked => /\ ScoreSound' /\ FramesSound' /\ JobSound(y)'
                    /\ "delivery" \in score.signals => "delivery" \in score'.signals
                    /\ analysed' = analysed \/ y.msg.task = "analyze_frames"
                    /\ text' = text \/ chords = <<>>
  PROVE  IInv'
<1>1. Broker /\ Busy(w) /\ running \in [Workers -> Job]
  BY Parts, BusyIs DEF Broker, BrokerTyped
<1>2. Broker'
  BY <1>1, AdvanceKeeps DEF Unwritten
<1>3. \A v \in Workers : running'[v] = IF v = w THEN y ELSE running[v]
  BY <1>1
<1>4. \A t : Pending(t) /\ (y.msg.task = t => y.at # "done") => Pending(t)'
  BY <1>3 DEF Pending, Unwritten
<1>5. \A t : y.msg.task = t /\ y.at # "done" => Pending(t)'
  BY <1>3 DEF Pending
<1>6. InTransit'
  <2>1. InTransit /\ uncaught' = uncaught /\ rubric' = rubric
    BY DEF IInv, Unwritten, history
  <2>2. score'.status = "SCORING" => Pending("score_interview")' \/ "score_interview" \in uncaught
    BY <1>4, <1>5, <2>1 DEF InTransit
  <2>3. ASSUME NEW a \in Audience, reports'[a].status = "RENDERING"
        PROVE  Pending(a)' \/ a \in uncaught
    BY <1>4, <1>5, <2>1, <2>3 DEF InTransit
  <2> QED
    BY <2>1, <2>2, <2>3 DEF InTransit
<1>7. ASSUME ~forked, NEW v \in Workers, v # w
      PROVE  JobSound(running[v])'
  <2>1. PICK x \in Job : x = running[v] /\ x = running'[v]
    BY <1>1, <1>3, <1>7
  <2>2. JobSound(x)
    BY <1>7, <2>1 DEF IInv, RowsSound
  <2>3. CASE ~Busy(v)
    <3>1. x.at = "idle"
      BY <2>1, <2>3, NewJobs DEF Busy
    <3>2. JobSound(x)'
      BY <3>1 DEF JobSound
    <3> QED
      BY <2>1, <3>2 DEF JobSound
  <2>4. CASE Busy(v)
    <3>1. InStage(x.msg.task) /\ Apart(x.msg.task, y.msg.task)
      BY <1>1, <1>7, <2>1, <2>4 DEF Broker, Structure, Staged, OneDelivery
    <3>2. x.msg.task = "analyze_frames" => analysed' = analysed
      BY <1>7, <3>1 DEF Apart
    <3>3. x.msg.task = "score_interview" => text' = text
      <4>1. x.msg.task = "score_interview" => chords # <<>>
        BY <3>1 DEF InStage, HasJoined
      <4> QED
        BY <1>7, <4>1
    <3>4. JobSound(x)'
      BY <1>7, <2>2, <3>2, <3>3 DEF JobSound
    <3> QED
      BY <2>1, <3>4 DEF JobSound
  <2> QED
    BY <2>3, <2>4
<1>8. RowsSound'
  <2>1. forked' = forked
    BY DEF Unwritten, history
  <2>2. ASSUME ~forked
        PROVE  JobSound(running[w])'
    BY <1>3, <2>2 DEF JobSound
  <2> QED
    BY <1>7, <2>1, <2>2 DEF RowsSound
<1> QED
  BY <1>2, <1>6, <1>8, Parts

(* The worker's task is done: what it has read is forgotten.               *)
LEMMA DoneIs ==
  ASSUME IInv, NEW w \in Workers, Done(w)
  PROVE  \E y \in Job : /\ y.msg = running[w].msg /\ y.at = "done"
                        /\ running' = [running EXCEPT ![w] = y]
<1>1. PICK m \in Message : m = running[w].msg
  BY BusyIs
<1>2. PICK y \in Job : y = [Taken(m) EXCEPT !.at = "done"] /\ y.msg = m /\ y.at = "done"
  BY NewJobs
<1> QED
  BY <1>1, <1>2 DEF Done, Goes

(* The score's row is there, and is what it was.                           *)
LEMMA EnsureIs ==
  ASSUME score \in Score
  PROVE  /\ ensure_score \in Score
         /\ ensure_score.signals = score.signals /\ ensure_score.graded = score.graded
         /\ ensure_score.status \in {score.status, "PENDING"}
<1>1. PICK x \in Score : x = score
  OBVIOUS
<1>2. PICK s \in ScoringStatus : s = IF x.status = None THEN "PENDING" ELSE x.status
  BY DEF Score, ScoringStatus
<1>3. ensure_score = [x EXCEPT !.status = s]
  BY <1>1, <1>2 DEF ensure_score
<1> QED
  BY <1>1, <1>2, <1>3 DEF Score

(* What is known of the task a worker has in hand.                         *)
LEMMA Standing ==
  ASSUME IInv, NEW w \in Workers, running[w].at # "idle", Unwritten
  PROVE  /\ RowsTyped /\ running[w] \in Job /\ running[w].msg \in Message
         /\ chords' = chords /\ rubric' = rubric
         /\ ~forked => /\ ScoreSound /\ FramesSound /\ JobSound(running[w])
                       /\ InStage(running[w].msg.task)
<1>1. Busy(w) /\ running[w] \in Job /\ running[w].msg \in Message
  BY BusyIs
<1> QED
  BY <1>1, Parts DEF IInv, RowsSound, Structure, Staged, Unwritten

(* The tasks before the scoring, and the signals.                          *)
LEMMA FinalizeKeeps ==
  ASSUME IInv, NEW w \in Workers, finalize(w)
  PROVE  IInv'
<1>1. /\ running[w].at = "begin" /\ running[w].msg.task = "finalize" /\ Unwritten
      /\ score' = ensure_score /\ Done(w)
      /\ UNCHANGED <<text, analysed, findings, verdict, reports>>
  BY DEF finalize, In
<1>2. PICK y \in Job : /\ y.msg = running[w].msg /\ y.at = "done"
                       /\ running' = [running EXCEPT ![w] = y]
  BY <1>1, DoneIs
<1>3. /\ RowsTyped /\ chords' = chords /\ rubric' = rubric
      /\ ~forked => ScoreSound /\ FramesSound
  BY <1>1, Standing
<1>4. /\ score' \in Score /\ score'.signals = score.signals /\ score'.graded = score.graded
      /\ score'.status \in {score.status, "PENDING"}
  BY <1>1, <1>3, EnsureIs DEF RowsTyped
<1>5. RowsTyped'
  BY <1>1, <1>3, <1>4 DEF RowsTyped
<1>6. ~forked => ScoreSound' /\ FramesSound' /\ JobSound(y)'
  BY <1>1, <1>2, <1>3, <1>4 DEF ScoreSound, FramesSound, JobSound, HasJoined
<1>7. score'.status = "SCORING" => rubric /\ score.status = "SCORING"
  BY <1>4 DEF IInv, InTransit
<1> QED
  BY <1>1, <1>2, <1>4, <1>5, <1>6, <1>7, WorkKeeps DEF Audience

(* The text changes where nothing is graded yet: no chord is open.         *)
LEMMA CorrectKeeps ==
  ASSUME IInv, NEW w \in Workers, correct_transcript(w)
  PROVE  IInv'
<1>1. /\ running[w].at = "begin" /\ running[w].msg.task = "correct_transcript" /\ Unwritten
      /\ text' \in {text, "final"} /\ Done(w)
      /\ UNCHANGED <<analysed, findings, score, verdict, reports>>
  BY DEF correct_transcript, In
<1>2. PICK y \in Job : /\ y.msg = running[w].msg /\ y.at = "done"
                       /\ running' = [running EXCEPT ![w] = y]
  BY <1>1, DoneIs
<1>3. /\ RowsTyped /\ chords' = chords /\ rubric' = rubric
      /\ ~forked => ScoreSound /\ FramesSound /\ chords = <<>>
  BY <1>1, Standing DEF InStage
<1>4. RowsTyped'
  BY <1>1, <1>3 DEF RowsTyped, Texts
<1>5. ~forked => ~HasJoined
  BY <1>3 DEF HasJoined
<1>6. ~forked => ScoreSound' /\ FramesSound' /\ JobSound(y)'
  BY <1>1, <1>2, <1>3, <1>5 DEF ScoreSound, FramesSound, JobSound, HasJoined
<1>7. score'.status = "SCORING" => rubric /\ score.status = "SCORING"
  BY <1>1 DEF IInv, InTransit
<1> QED
  BY <1>1, <1>2, <1>3, <1>4, <1>6, <1>7, WorkKeeps DEF Audience

(* What is read of the signals is not needed to stand.                     *)
LEMMA MeasureReadKeeps ==
  ASSUME IInv, NEW w \in Workers, measure_reads(w)
  PROVE  IInv'
<1>1. /\ running[w].at = "begin" /\ running[w].msg.task = "measure_signals" /\ Unwritten
      /\ score' = ensure_score
      /\ running' = [running EXCEPT
           ![w] = [running[w] EXCEPT !.at = "writes", !.signals = score.signals]]
      /\ UNCHANGED <<text, analysed, findings, verdict, reports>>
  BY DEF measure_reads, In, Goes
<1>2. /\ RowsTyped /\ chords' = chords /\ rubric' = rubric /\ running[w] \in Job
      /\ ~forked => ScoreSound /\ FramesSound
  BY <1>1, Standing
<1>3. PICK z \in SUBSET Signals : z = score.signals
  BY <1>2 DEF RowsTyped, Score
<1>4. PICK x \in Job : x = running[w]
  BY <1>2
<1>5. PICK y : y = [x EXCEPT !.at = "writes", !.signals = z]
  OBVIOUS
<1>6. /\ y \in Job /\ y.msg = running[w].msg /\ y.at = "writes"
      /\ running' = [running EXCEPT ![w] = y]
  <2>1. y \in Job /\ y.msg = x.msg /\ y.at = "writes"
    BY <1>5 DEF Job
  <2> QED
    BY <1>1, <1>3, <1>4, <1>5, <2>1
<1>7. /\ score' \in Score /\ score'.signals = score.signals /\ score'.graded = score.graded
      /\ score'.status \in {score.status, "PENDING"}
  BY <1>1, <1>2, EnsureIs DEF RowsTyped
<1>8. RowsTyped'
  BY <1>1, <1>2, <1>7 DEF RowsTyped
<1>9. ~forked => ScoreSound' /\ FramesSound' /\ JobSound(y)'
  BY <1>1, <1>2, <1>6, <1>7 DEF ScoreSound, FramesSound, JobSound, HasJoined
<1>10. score'.status = "SCORING" => rubric /\ score.status = "SCORING"
  BY <1>7 DEF IInv, InTransit
<1> QED
  BY <1>1, <1>6, <1>7, <1>8, <1>9, <1>10, WorkKeeps DEF Audience

(* A stale merge loses no coverage: the score is not there before the join.*)
LEMMA MeasureCommitKeeps ==
  ASSUME IInv, NEW w \in Workers, measure_commits(w)
  PROVE  IInv'
<1>1. /\ running[w].at = "writes" /\ running[w].msg.task = "measure_signals" /\ Unwritten
      /\ score' = [score EXCEPT !.signals = running[w].signals \cup {"delivery"}] /\ Done(w)
      /\ UNCHANGED <<text, analysed, findings, verdict, reports>>
  BY DEF measure_commits, In
<1>2. PICK y \in Job : /\ y.msg = running[w].msg /\ y.at = "done"
                       /\ running' = [running EXCEPT ![w] = y]
  BY <1>1, DoneIs
<1>3. /\ RowsTyped /\ chords' = chords /\ rubric' = rubric /\ running[w] \in Job
      /\ ~forked => ScoreSound /\ FramesSound /\ InStage("measure_signals")
  BY <1>1, Standing
<1>4. PICK z \in SUBSET Signals : z = running[w].signals \cup {"delivery"}
  BY <1>3 DEF Job, Signals
<1>5. PICK x \in Score : x = score
  BY <1>3 DEF RowsTyped
<1>6. /\ score' \in Score /\ score'.signals = z /\ score'.graded = score.graded
      /\ score'.status = score.status
  BY <1>1, <1>4, <1>5 DEF Score
<1>7. RowsTyped'
  BY <1>1, <1>3, <1>6 DEF RowsTyped
<1>8. ~forked => ~HasJoined
  BY <1>3 DEF InStage, HasJoined, Header
<1>9. ~forked => ScoreSound' /\ FramesSound' /\ JobSound(y)'
  <2>1. "delivery" \in score'.signals
    BY <1>4, <1>6
  <2> QED
    BY <1>1, <1>2, <1>3, <1>6, <1>8, <2>1 DEF ScoreSound, FramesSound, JobSound, HasJoined
<1>10. score'.status = "SCORING" => rubric /\ score.status = "SCORING"
  BY <1>6 DEF IInv, InTransit
<1>11. "delivery" \in score'.signals
  BY <1>4, <1>6
<1> QED
  BY <1>1, <1>2, <1>6, <1>7, <1>9, <1>10, <1>11, WorkKeeps DEF Audience
-----------------------------------------------------------------------------
(* The frames.                                                             *)

(* What a worker has in hand after it has chosen its frames.               *)
LEMMA GoesOnIs ==
  ASSUME IInv, NEW w \in Workers, NEW left \in SUBSET Frames, GoesOnWith(w, left)
  PROVE  \E y \in Job : /\ y.msg = running[w].msg /\ y.at \in {"writes", "done"}
                        /\ y.at = "writes" => y.frames = left
                        /\ running' = [running EXCEPT ![w] = y]
<1>1. CASE left = {}
  <2>1. PICK y \in Job : /\ y.msg = running[w].msg /\ y.at = "done"
                         /\ running' = [running EXCEPT ![w] = y]
    BY <1>1, DoneIs DEF GoesOnWith
  <2> QED
    BY <2>1
<1>2. CASE left # {}
  <2>1. PICK x \in Job : x = running[w]
    BY BusyIs
  <2>2. PICK y : y = [x EXCEPT !.at = "writes", !.frames = left]
    OBVIOUS
  <2>3. y \in Job /\ y.msg = x.msg /\ y.at = "writes" /\ y.frames = left
    BY <2>2 DEF Job
  <2>4. running' = [running EXCEPT ![w] = y]
    BY <1>2, <2>1, <2>2 DEF GoesOnWith, Goes
  <2> QED
    BY <2>1, <2>3, <2>4
<1> QED
  BY <1>1, <1>2

(* The frames a pass selects are not flagged.                              *)
LEMMA SelectKeeps ==
  ASSUME IInv, NEW w \in Workers, analyze_selects(w)
  PROVE  IInv'
<1>1. /\ running[w].at = "begin" /\ running[w].msg.task = "analyze_frames" /\ Unwritten
      /\ GoesOnWith(w, Frames \ analysed)
      /\ UNCHANGED <<text, analysed, findings, score, verdict, reports>>
  BY DEF analyze_selects, In
<1>2. PICK left \in SUBSET Frames : left = Frames \ analysed
  OBVIOUS
<1>3. PICK y \in Job : /\ y.msg = running[w].msg /\ y.at \in {"writes", "done"}
                       /\ y.at = "writes" => y.frames = left
                       /\ running' = [running EXCEPT ![w] = y]
  BY <1>1, <1>2, GoesOnIs
<1>4. /\ RowsTyped /\ chords' = chords /\ rubric' = rubric
      /\ ~forked => ScoreSound /\ FramesSound
  BY <1>1, Standing
<1>5. RowsTyped'
  BY <1>1, <1>4 DEF RowsTyped
<1>6. ~forked => ScoreSound' /\ FramesSound' /\ JobSound(y)'
  BY <1>1, <1>2, <1>3, <1>4 DEF ScoreSound, FramesSound, JobSound, HasJoined
<1>7. score'.status = "SCORING" => rubric /\ score.status = "SCORING"
  BY <1>1 DEF IInv, InTransit
<1> QED
  BY <1>1, <1>3, <1>5, <1>6, <1>7, WorkKeeps DEF Audience

(* A frame gets its finding and its flag together, and nobody else has it. *)
LEMMA AnalyzeKeeps ==
  ASSUME IInv, NEW w \in Workers, analyze_frame(w)
  PROVE  IInv'
<1>1. /\ running[w].at = "writes" /\ running[w].msg.task = "analyze_frames" /\ Unwritten
      /\ UNCHANGED <<text, score, verdict, reports>>
  BY DEF analyze_frame, In
<1>2. PICK f \in running[w].frames :
        /\ GoesOnWith(w, running[w].frames \ {f})
        /\ \/ UNCHANGED <<analysed, findings>>
           \/ /\ analysed' = flagged(f)
              /\ findings' \in {findings, [findings EXCEPT ![f] = @ + 1]}
  BY DEF analyze_frame
<1>3. /\ RowsTyped /\ chords' = chords /\ rubric' = rubric /\ running[w] \in Job
      /\ ~forked => ScoreSound /\ FramesSound /\ JobSound(running[w])
  BY <1>1, Standing
<1>4. PICK left \in SUBSET Frames : left = running[w].frames \ {f}
  BY <1>3 DEF Job
<1>5. PICK y \in Job : /\ y.msg = running[w].msg /\ y.at \in {"writes", "done"}
                       /\ y.at = "writes" => y.frames = left
                       /\ running' = [running EXCEPT ![w] = y]
  BY <1>2, <1>4, GoesOnIs
<1>6. f \in Frames /\ findings \in [Frames -> Nat] /\ analysed \subseteq Frames
  BY <1>3 DEF Job, RowsTyped
<1>7. /\ analysed' \in {analysed, analysed \cup {f}} /\ findings' \in [Frames -> Nat]
      /\ \A g \in Frames : g # f => findings'[g] = findings[g]
      /\ \/ findings'[f] = findings[f] /\ analysed \subseteq analysed'
         \/ findings'[f] = findings[f] + 1 /\ f \in analysed'
  BY <1>2, <1>6 DEF flagged
<1>8. RowsTyped'
  BY <1>1, <1>3, <1>6, <1>7 DEF RowsTyped
<1>9. ASSUME ~forked
      PROVE  ScoreSound' /\ FramesSound' /\ JobSound(y)'
  <2>1. ScoreSound'
    BY <1>1, <1>3, <1>9 DEF ScoreSound, HasJoined
  <2>2. running[w].frames \cap analysed = {}
    BY <1>1, <1>3, <1>9 DEF JobSound
  <2>3. FramesSound'
    <3>1. f \notin analysed /\ findings[f] = 0
      BY <1>3, <1>6, <1>9, <2>2 DEF FramesSound
    <3> QED
      BY <1>3, <1>6, <1>7, <1>9, <3>1 DEF FramesSound
  <2>4. JobSound(y)'
    BY <1>1, <1>4, <1>5, <1>7, <2>2 DEF JobSound
  <2> QED
    BY <2>1, <2>3, <2>4
<1>10. score'.status = "SCORING" => rubric /\ score.status = "SCORING"
  BY <1>1 DEF IInv, InTransit
<1> QED
  BY <1>1, <1>5, <1>8, <1>9, <1>10, WorkKeeps DEF Audience
-----------------------------------------------------------------------------
(* The scoring.                                                            *)
LEMMA SkipKeeps ==
  ASSUME IInv, NEW w \in Workers, score_skips(w)
  PROVE  IInv'
<1>1. /\ running[w].at = "begin" /\ running[w].msg.task = "score_interview" /\ Unwritten
      /\ ~rubric /\ Done(w)
      /\ UNCHANGED <<text, analysed, findings, score, verdict, reports>>
  BY DEF score_skips, In
<1>2. PICK y \in Job : /\ y.msg = running[w].msg /\ y.at = "done"
                       /\ running' = [running EXCEPT ![w] = y]
  BY <1>1, DoneIs
<1>3. /\ RowsTyped /\ chords' = chords /\ rubric' = rubric
      /\ ~forked => ScoreSound /\ FramesSound
  BY <1>1, Standing
<1>4. RowsTyped'
  BY <1>1, <1>3 DEF RowsTyped
<1>5. ~forked => ScoreSound' /\ FramesSound' /\ JobSound(y)'
  BY <1>1, <1>2, <1>3 DEF ScoreSound, FramesSound, JobSound, HasJoined
<1>6. score'.status # "SCORING"
  BY <1>1 DEF IInv, InTransit
<1> QED
  BY <1>1, <1>2, <1>4, <1>5, <1>6, WorkKeeps DEF Audience

(* The text that is graded is the text there is.                           *)
LEMMA MarkScoringKeeps ==
  ASSUME IInv, NEW w \in Workers, mark_scoring(w)
  PROVE  IInv'
<1>1. /\ running[w].at = "begin" /\ running[w].msg.task = "score_interview" /\ Unwritten
      /\ rubric /\ score' = [score EXCEPT !.status = "SCORING"]
      /\ running' = [running EXCEPT
           ![w] = [running[w] EXCEPT !.at = "reads", !.text = text]]
      /\ UNCHANGED <<text, analysed, findings, verdict, reports>>
  BY DEF mark_scoring, In, Goes
<1>2. /\ RowsTyped /\ chords' = chords /\ rubric' = rubric /\ running[w] \in Job
      /\ ~forked => ScoreSound /\ FramesSound /\ InStage("score_interview")
  BY <1>1, Standing
<1>3. PICK t \in Texts : t = text
  BY <1>2 DEF RowsTyped
<1>4. PICK x \in Job : x = running[w]
  BY <1>2
<1>5. PICK y : y = [x EXCEPT !.at = "reads", !.text = t]
  OBVIOUS
<1>6. /\ y \in Job /\ y.msg = running[w].msg /\ y.at = "reads" /\ y.text = t
      /\ running' = [running EXCEPT ![w] = y]
  <2>1. y \in Job /\ y.msg = x.msg /\ y.at = "reads" /\ y.text = t
    BY <1>5 DEF Job
  <2> QED
    BY <1>1, <1>3, <1>4, <1>5, <2>1
<1>7. PICK s \in Score : s = score
  BY <1>2 DEF RowsTyped
<1>8. /\ score' \in Score /\ score'.signals = score.signals /\ score'.graded = score.graded
      /\ score'.status = "SCORING"
  BY <1>1, <1>7 DEF Score, ScoringStatus
<1>9. RowsTyped'
  BY <1>1, <1>2, <1>8 DEF RowsTyped
<1>10. ~forked => ScoreSound' /\ FramesSound' /\ JobSound(y)'
  BY <1>1, <1>2, <1>3, <1>6, <1>8
     DEF ScoreSound, FramesSound, JobSound, HasJoined, InStage
<1> QED
  BY <1>1, <1>6, <1>8, <1>9, <1>10, WorkKeeps DEF Audience

(* The signals store() reads hold the delivery: the chord has joined.      *)
LEMMA StoreReadKeeps ==
  ASSUME IInv, NEW w \in Workers, store_reads(w)
  PROVE  IInv'
<1>1. /\ running[w].at = "reads" /\ running[w].msg.task = "score_interview" /\ Unwritten
      /\ running' = [running EXCEPT
           ![w] = [running[w] EXCEPT !.at = "writes", !.signals = score.signals]]
      /\ UNCHANGED <<text, analysed, findings, score, verdict, reports>>
  BY DEF store_reads, In, Goes
<1>2. /\ RowsTyped /\ chords' = chords /\ rubric' = rubric /\ running[w] \in Job
      /\ ~forked => /\ ScoreSound /\ FramesSound /\ InStage("score_interview")
                    /\ JobSound(running[w])
  BY <1>1, Standing
<1>3. PICK z \in SUBSET Signals : z = score.signals
  BY <1>2 DEF RowsTyped, Score
<1>4. PICK x \in Job : x = running[w]
  BY <1>2
<1>5. PICK y : y = [x EXCEPT !.at = "writes", !.signals = z]
  OBVIOUS
<1>6. /\ y \in Job /\ y.msg = running[w].msg /\ y.at = "writes"
      /\ y.text = running[w].text /\ y.signals = score.signals
      /\ running' = [running EXCEPT ![w] = y]
  <2>1. y \in Job /\ y.msg = x.msg /\ y.at = "writes" /\ y.text = x.text /\ y.signals = z
    BY <1>5 DEF Job
  <2> QED
    BY <1>1, <1>3, <1>4, <1>5, <2>1
<1>7. RowsTyped'
  BY <1>1, <1>2 DEF RowsTyped
<1>8. ASSUME ~forked
      PROVE  ScoreSound' /\ FramesSound' /\ JobSound(y)'
  <2>1. "delivery" \in score.signals
    BY <1>2, <1>8 DEF InStage, HasJoined, ScoreSound, Header
  <2>2. y.text = text
    BY <1>1, <1>2, <1>6, <1>8 DEF JobSound
  <2>3. JobSound(y)'
    BY <1>1, <1>6, <2>1, <2>2 DEF JobSound
  <2> QED
    BY <1>1, <1>2, <1>8, <2>3 DEF ScoreSound, FramesSound, HasJoined
<1>9. score'.status = "SCORING" => rubric /\ score.status = "SCORING"
  BY <1>1 DEF IInv, InTransit
<1> QED
  BY <1>1, <1>6, <1>7, <1>8, <1>9, WorkKeeps DEF Audience

(* The row that store() replaces was graded on the text there is.          *)
LEMMA StoreCommitKeeps ==
  ASSUME IInv, NEW w \in Workers, store_commits(w)
  PROVE  IInv'
<1>1. /\ running[w].at = "writes" /\ running[w].msg.task = "score_interview" /\ Unwritten
      /\ score' = [status |-> "READY", graded |-> running[w].text,
                   signals |-> running[w].signals \cup {"rubric_coverage"}]
      /\ Done(w)
      /\ UNCHANGED <<text, analysed, findings, verdict, reports>>
  BY DEF store_commits, In
<1>2. PICK y \in Job : /\ y.msg = running[w].msg /\ y.at = "done"
                       /\ running' = [running EXCEPT ![w] = y]
  BY <1>1, DoneIs
<1>3. /\ RowsTyped /\ chords' = chords /\ rubric' = rubric /\ running[w] \in Job
      /\ ~forked => /\ ScoreSound /\ FramesSound /\ InStage("score_interview")
                    /\ JobSound(running[w])
  BY <1>1, Standing
<1>4. PICK z \in SUBSET Signals : z = running[w].signals \cup {"rubric_coverage"}
  BY <1>3 DEF Job, Signals
<1>5. PICK t \in Texts : t = running[w].text
  BY <1>3 DEF Job
<1>6. /\ score' \in Score /\ score'.signals = z /\ score'.graded = t
      /\ score'.status = "READY"
  BY <1>1, <1>4, <1>5 DEF Score, ScoringStatus
<1>7. RowsTyped'
  BY <1>1, <1>3, <1>6 DEF RowsTyped
<1>8. ASSUME ~forked
      PROVE  ScoreSound' /\ FramesSound' /\ JobSound(y)' /\ "delivery" \in score'.signals
  <2>1. HasJoined /\ t = text /\ "delivery" \in z
    BY <1>1, <1>3, <1>4, <1>5, <1>8 DEF InStage, JobSound
  <2>2. ScoreSound' /\ "delivery" \in score'.signals
    BY <1>1, <1>3, <1>4, <1>6, <2>1 DEF ScoreSound, HasJoined
  <2> QED
    BY <1>1, <1>2, <1>3, <1>8, <2>2 DEF FramesSound, JobSound
<1> QED
  BY <1>1, <1>2, <1>6, <1>7, <1>8, WorkKeeps DEF Audience
-----------------------------------------------------------------------------
(* The verdict and the reports.                                            *)

(* The findings are finitely many.                                         *)
LEMMA ComputeIs ==
  ASSUME findings \in [Frames -> Nat]
  PROVE  compute \in Nat
<1> DEFINE g == [f \in Frames |-> {f} \X (1 .. findings[f])]
           T == {{f} \X (1 .. findings[f]) : f \in Frames}
<1>1. \A f \in Frames : IsFiniteSet({f} \X (1 .. findings[f]))
  <2>1. ASSUME NEW f \in Frames
        PROVE  IsFiniteSet({f} \X (1 .. findings[f]))
    <3>1. IsFiniteSet({f})
      BY FS_Singleton
    <3>2. PICK n \in Nat : n = findings[f]
      OBVIOUS
    <3>3. IsFiniteSet(1 .. n)
      BY FS_Interval
    <3>4. IsFiniteSet({f} \X (1 .. n))
      BY <3>1, <3>3, FS_Product
    <3> QED
      BY <3>2, <3>4
  <2> QED
    BY <2>1
<1>2. g \in [Frames -> T] /\ \A t \in T : \E f \in Frames : g[f] = t
  OBVIOUS
<1>3. \A t \in T : IsFiniteSet(t)
  BY <1>1
<1> HIDE DEF g, T
<1>4. g \in Surjection(Frames, T)
  BY <1>2 DEF Surjection
<1>5. IsFiniteSet(T)
  <2>1. IsFiniteSet(Frames)
    BY ChainAssumption
  <2> QED
    BY <1>4, <2>1, FS_Surjection
<1>6. IsFiniteSet(UNION T)
  BY <1>3, <1>5, FS_UNION
<1>7. Cardinality(UNION T) \in Nat
  BY <1>6, FS_CardinalityType
<1> QED
  BY <1>7 DEF compute, T

(* The verdict is computed from the findings there are.                    *)
LEMMA VerdictReadKeeps ==
  ASSUME IInv, NEW w \in Workers, verdict_reads(w)
  PROVE  IInv'
<1>1. /\ running[w].at = "begin" /\ running[w].msg.task = "finalize_verdict" /\ Unwritten
      /\ running' = [running EXCEPT
           ![w] = [running[w] EXCEPT !.at = "writes", !.view.verdict = compute]]
      /\ UNCHANGED <<text, analysed, findings, score, verdict, reports>>
  BY DEF verdict_reads, In, Goes
<1>2. /\ RowsTyped /\ chords' = chords /\ rubric' = rubric /\ running[w] \in Job
      /\ ~forked => ScoreSound /\ FramesSound
  BY <1>1, Standing
<1>3. PICK n \in Nat : n = compute
  BY <1>2, ComputeIs DEF RowsTyped
<1>4. PICK x \in Job : x = running[w]
  BY <1>2
<1>5. PICK y : y = [x EXCEPT !.at = "writes", !.view.verdict = n]
  OBVIOUS
<1>6. /\ y \in Job /\ y.msg = running[w].msg /\ y.at = "writes"
      /\ running' = [running EXCEPT ![w] = y]
  <2>1. PICK u \in View : u = x.view
    BY DEF Job
  <2>2. [u EXCEPT !.verdict = n] \in View
    BY DEF View, Verdict
  <2>3. y = [x EXCEPT !.at = "writes", !.view = [u EXCEPT !.verdict = n]]
    BY <1>5, <2>1 DEF Job
  <2>4. y \in Job /\ y.msg = x.msg /\ y.at = "writes"
    BY <2>2, <2>3 DEF Job
  <2> QED
    BY <1>1, <1>3, <1>4, <1>5, <2>4
<1>7. RowsTyped'
  BY <1>1, <1>2 DEF RowsTyped
<1>8. ~forked => ScoreSound' /\ FramesSound' /\ JobSound(y)'
  BY <1>1, <1>2, <1>6 DEF ScoreSound, FramesSound, JobSound, HasJoined
<1>9. score'.status = "SCORING" => rubric /\ score.status = "SCORING"
  BY <1>1 DEF IInv, InTransit
<1> QED
  BY <1>1, <1>6, <1>7, <1>8, <1>9, WorkKeeps DEF Audience

(* The verdict row is no concern of the other rows.                        *)
LEMMA VerdictCommitKeeps ==
  ASSUME IInv, NEW w \in Workers, verdict_commits(w)
  PROVE  IInv'
<1>1. /\ running[w].at = "writes" /\ running[w].msg.task = "finalize_verdict" /\ Unwritten
      /\ verdict' = running[w].view.verdict /\ Done(w)
      /\ UNCHANGED <<text, analysed, findings, score, reports>>
  BY DEF verdict_commits, In
<1>2. PICK y \in Job : /\ y.msg = running[w].msg /\ y.at = "done"
                       /\ running' = [running EXCEPT ![w] = y]
  BY <1>1, DoneIs
<1>3. /\ RowsTyped /\ chords' = chords /\ rubric' = rubric /\ running[w] \in Job
      /\ ~forked => ScoreSound /\ FramesSound
  BY <1>1, Standing
<1>4. verdict' \in Verdict
  BY <1>1, <1>3 DEF Job, View
<1>5. RowsTyped'
  BY <1>1, <1>3, <1>4 DEF RowsTyped
<1>6. ~forked => ScoreSound' /\ FramesSound' /\ JobSound(y)'
  BY <1>1, <1>2, <1>3 DEF ScoreSound, FramesSound, JobSound, HasJoined
<1>7. score'.status = "SCORING" => rubric /\ score.status = "SCORING"
  BY <1>1 DEF IInv, InTransit
<1> QED
  BY <1>1, <1>2, <1>5, <1>6, <1>7, WorkKeeps DEF Audience

(* A row goes to RENDERING in the hands of its task.                       *)
LEMMA RenderingKeeps ==
  ASSUME IInv, NEW w \in Workers, NEW a \in Audience, mark_rendering(w, a)
  PROVE  IInv'
<1>1. /\ running[w].at = "begin" /\ running[w].msg.task = a /\ Unwritten
      /\ reports' = [reports EXCEPT ![a].status = "RENDERING"]
      /\ running' = [running EXCEPT ![w] = [running[w] EXCEPT !.at = "writes", !.view = build]]
      /\ UNCHANGED <<text, analysed, findings, score, verdict>>
  BY DEF mark_rendering, In, Goes
<1>2. /\ RowsTyped /\ chords' = chords /\ rubric' = rubric /\ running[w] \in Job
      /\ ~forked => ScoreSound /\ FramesSound
  BY <1>1, Standing
<1>3. PICK u \in View : u = build
  <2>1. (score.graded # None) \in BOOLEAN
    OBVIOUS
  <2>2. PICK assessed \in BOOLEAN : assessed = (score.graded # None)
    BY <2>1, Zenon
  <2>3. [assessed |-> assessed, verdict |-> verdict] \in View
    BY <1>2, <2>2 DEF View, RowsTyped
  <2>4. build = [assessed |-> assessed, verdict |-> verdict]
    BY <2>2, Zenon DEF build
  <2> QED
    BY <2>3, <2>4
<1>4. PICK x \in Job : x = running[w]
  BY <1>2
<1>5. PICK y : y = [x EXCEPT !.at = "writes", !.view = u]
  OBVIOUS
<1>6. /\ y \in Job /\ y.msg = running[w].msg /\ y.at = "writes"
      /\ running' = [running EXCEPT ![w] = y]
  <2>1. y \in Job /\ y.msg = x.msg /\ y.at = "writes"
    BY <1>5 DEF Job
  <2> QED
    BY <1>1, <1>3, <1>4, <1>5, <2>1
<1>7. reports' \in [Audience -> Report] /\ \A b \in Audience : b # a => reports'[b] = reports[b]
  <2>1. PICK r \in Report : r = reports[a]
    BY <1>2 DEF RowsTyped
  <2>2. PICK s \in Report : s = [r EXCEPT !.status = "RENDERING"]
    BY DEF Report, ReportStatus
  <2>3. reports' = [reports EXCEPT ![a] = s]
    BY <1>1, <2>1, <2>2
  <2> QED
    BY <1>2, <2>3 DEF RowsTyped
<1>8. RowsTyped'
  BY <1>1, <1>2, <1>7 DEF RowsTyped
<1>9. ~forked => ScoreSound' /\ FramesSound' /\ JobSound(y)'
  BY <1>1, <1>2, <1>6 DEF ScoreSound, FramesSound, JobSound, HasJoined, Audience
<1>10. score'.status = "SCORING" => rubric /\ score.status = "SCORING"
  BY <1>1 DEF IInv, InTransit
<1>11. score'.status = "SCORING" =>
         /\ rubric
         /\ score.status = "SCORING" \/ y.msg.task = "score_interview"
         /\ y.msg.task = "score_interview" => y.at # "done"
  BY <1>6, <1>10
<1>12. \A b \in Audience : reports'[b].status = "RENDERING" =>
         /\ reports[b].status = "RENDERING" \/ y.msg.task = b
         /\ y.msg.task = b => y.at # "done"
  BY <1>1, <1>6, <1>7
<1> QED
  BY <1>1, <1>6, <1>8, <1>9, <1>11, <1>12, WorkKeeps

(* A row leaves RENDERING before its task is done.                         *)
LEMMA ReadyKeeps ==
  ASSUME IInv, NEW w \in Workers, NEW a \in Audience, mark_ready(w, a)
  PROVE  IInv'
<1>1. /\ running[w].at = "writes" /\ running[w].msg.task = a /\ Unwritten
      /\ reports' = [reports EXCEPT ![a] = [status |-> "READY", pdf |-> running[w].view,
                                           published |-> TRUE]]
      /\ Done(w)
      /\ UNCHANGED <<text, analysed, findings, score, verdict>>
  BY DEF mark_ready, In
<1>2. PICK y \in Job : /\ y.msg = running[w].msg /\ y.at = "done"
                       /\ running' = [running EXCEPT ![w] = y]
  BY <1>1, DoneIs
<1>3. /\ RowsTyped /\ chords' = chords /\ rubric' = rubric /\ running[w] \in Job
      /\ ~forked => ScoreSound /\ FramesSound
  BY <1>1, Standing
<1>4. PICK r \in Report : /\ r = [status |-> "READY", pdf |-> running[w].view, published |-> TRUE]
                          /\ r.status = "READY"
  <2>1. PICK v \in View : v = running[w].view
    BY <1>3 DEF Job
  <2>2. PICK r : r = [status |-> "READY", pdf |-> v, published |-> TRUE]
    OBVIOUS
  <2>3. r \in Report /\ r.status = "READY"
    BY <2>2 DEF Report, ReportStatus
  <2> QED
    BY <2>1, <2>2, <2>3
<1>5. reports' \in [Audience -> Report] /\ reports'[a].status = "READY"
      /\ \A b \in Audience : b # a => reports'[b] = reports[b]
  BY <1>1, <1>3, <1>4 DEF RowsTyped
<1>6. RowsTyped'
  BY <1>1, <1>3, <1>5 DEF RowsTyped
<1>7. ~forked => ScoreSound' /\ FramesSound' /\ JobSound(y)'
  BY <1>1, <1>2, <1>3 DEF ScoreSound, FramesSound, JobSound, HasJoined, Audience
<1>8. score'.status = "SCORING" => rubric /\ score.status = "SCORING"
  BY <1>1 DEF IInv, InTransit
<1>9. score'.status = "SCORING" =>
        /\ rubric
        /\ score.status = "SCORING" \/ y.msg.task = "score_interview"
        /\ y.msg.task = "score_interview" => y.at # "done"
  BY <1>1, <1>2, <1>8 DEF Audience
<1>10. \A b \in Audience : reports'[b].status = "RENDERING" =>
         /\ reports[b].status = "RENDERING" \/ y.msg.task = b
         /\ y.msg.task = b => y.at # "done"
  BY <1>1, <1>2, <1>5
<1> QED
  BY <1>1, <1>2, <1>6, <1>7, <1>9, <1>10, WorkKeeps
-----------------------------------------------------------------------------
(* The invariant holds at the start ...                                    *)
LEMMA InitIInv == Init => IInv
<1> SUFFICES ASSUME Init
             PROVE  IInv
  OBVIOUS
<1>1. /\ queue = EmptyBag /\ running = [w \in Workers |-> Idle] /\ chords = <<>>
      /\ forked = FALSE /\ sent = 0 /\ mishaps = 0 /\ caught = {} /\ uncaught = {}
  BY DEF Init
<1>2. DOMAIN queue = {} /\ IsABag(queue)
  BY <1>1 DEF EmptyBag, SetToBag, IsABag
<1>3. \A w \in Workers : running[w] = Idle /\ ~Busy(w)
  BY <1>1 DEF Busy
<1>4. chords \in Seq(SUBSET Header) /\ Len(chords) = 0
  BY <1>1
<1>5. BrokerTyped
  <2>1. running \in [Workers -> Job]
    BY <1>1, NewJobs
  <2>2. \A w \in Workers : running[w].msg.chord <= Len(chords)
    <3>1. \A w \in Workers : running[w].msg.chord = 0
      BY <1>3, NewJobs
    <3> QED
      BY <1>4, <3>1
  <2>3. sent \in 0 .. MaxChains /\ mishaps \in 0 .. MaxMishaps
    <3>1. MaxChains \in Nat /\ MaxMishaps \in Nat
      BY ChainAssumption
    <3> QED
      BY <1>1, <3>1
  <2>4. forked \in BOOLEAN
    BY <1>1
  <2> QED
    BY <1>1, <1>2, <1>4, <2>1, <2>2, <2>3, <2>4 DEF BrokerTyped
<1>6. Addressed
  BY <1>2, <1>3, NewJobs DEF Addressed, WellAddressed, Header
<1>7. Structure
  BY <1>1, <1>2, <1>3, <1>4 DEF Structure, OneDelivery, Staged
<1>8. RowsTyped
  <2>1. NoView \in View
    BY DEF NoView, View, Verdict
  <2>2. NoReport \in Report
    BY <2>1 DEF NoReport, Report, ReportStatus, None
  <2> QED
    BY <2>2 DEF Init, RowsTyped, Score, ScoringStatus, None, Verdict, Texts
<1>9. InTransit
  BY DEF Init, InTransit, NoReport, None
<1>10. RowsSound
  <2>1. \A w \in Workers : JobSound(running[w])
    BY <1>3, BlankSound
  <2>2. ScoreSound /\ FramesSound
    BY <1>4 DEF Init, ScoreSound, FramesSound, None
  <2> QED
    BY <2>1, <2>2 DEF RowsSound
<1> QED
  BY <1>5, <1>6, <1>7, <1>8, <1>9, <1>10, Parts DEF Broker

(* ... is kept by every step ...                                           *)
LEMMA NextIInv == IInv /\ [Next]_vars => IInv'
<1> SUFFICES ASSUME IInv, [Next]_vars
             PROVE  IInv'
  OBVIOUS
<1>1. CASE enqueue
  BY <1>1, EnqueueMoves
<1>2. ASSUME NEW w \in Workers, take(w)
      PROVE  IInv'
  BY <1>2, TakeMoves
<1>3. ASSUME NEW w \in Workers, work(w)
      PROVE  IInv'
  <2>1. CASE finalize(w) \/ correct_transcript(w)
    BY <2>1, FinalizeKeeps, CorrectKeeps
  <2>2. CASE measure_reads(w) \/ measure_commits(w)
    BY <2>2, MeasureReadKeeps, MeasureCommitKeeps
  <2>3. CASE analyze_selects(w) \/ analyze_frame(w)
    BY <2>3, SelectKeeps, AnalyzeKeeps
  <2>4. CASE score_skips(w) \/ mark_scoring(w) \/ store_reads(w) \/ store_commits(w)
    BY <2>4, SkipKeeps, MarkScoringKeeps, StoreReadKeeps, StoreCommitKeeps
  <2>5. CASE verdict_reads(w) \/ verdict_commits(w)
    BY <2>5, VerdictReadKeeps, VerdictCommitKeeps
  <2>6. CASE \E a \in Audience : mark_rendering(w, a) \/ mark_ready(w, a)
    BY <2>6, RenderingKeeps, ReadyKeeps
  <2>7. CASE Return(w)
    BY <2>7, ReturnMoves
  <2> QED
    BY <1>3, <2>1, <2>2, <2>3, <2>4, <2>5, <2>6, <2>7 DEF work
<1>4. ASSUME NEW w \in Workers,
             \/ WorkerLost(w) \/ transaction_raises(w) \/ time_limit(w)
             \/ \E a \in Audience : render_fails(w, a)
      PROVE  IInv'
  BY <1>4, FaultsKeep
<1>5. CASE UNCHANGED vars
  BY <1>5 DEF vars, broker, rows, history, IInv, TypeOK, Addressed, WellAddressed, Busy,
              Structure, OneDelivery, Staged, InStage, HasJoined, InTransit, Pending,
              RowsSound, ScoreSound, FramesSound, JobSound
<1> QED
  BY <1>1, <1>2, <1>3, <1>4, <1>5 DEF Next

(* ... and so always.                                                      *)
LEMMA Invariance == Spec => []IInv
BY InitIInv, NextIInv, PTL DEF Spec

(* Type correctness: a task is tried MaxRetries times after the first and  *)
(* no more (max_retries of the task decorators), and no message names a    *)
(* chord that was never opened.                                            *)
THEOREM TypeCorrect == Spec => []TypeOK
<1>1. IInv => TypeOK
  BY DEF IInv
<1> QED
  BY <1>1, Invariance, PTL

(* A task killed or retried halfway does not count a frame twice           *)
(* (proctoring_tasks.py:9-11).                                             *)
THEOREM FindingsCountOnce == Spec => []FindingsOnce
<1>1. IInv => FindingsOnce
  BY DEF IInv, RowsSound, FramesSound, FindingsOnce
<1> QED
  BY <1>1, Invariance, PTL

(* The quotes of a stored score were checked against the text that the     *)
(* report shows: nobody corrects it while it is graded, or afterwards      *)
(* (pipeline.py:9-11).                                                     *)
THEOREM GradesStandOnTheText == Spec => []GradedTextStands
<1>1. IInv => GradedTextStands
  BY DEF IInv, RowsSound, ScoreSound, GradedTextStands
<1> QED
  BY <1>1, Invariance, PTL

(* Neither measure_signals nor score_interview loses what the other put    *)
(* into confidence_signals: the chord orders them                          *)
(* (scoring_tasks.py:111-113).                                             *)
THEOREM FinishedScoresAreComplete == Spec => []SignalsComplete
<1>1. ASSUME IInv, ~forked, score.status = "READY"
      PROVE  score.signals = Signals
  <2>1. ScoreSound /\ score.signals \subseteq Signals
    BY <1>1 DEF IInv, TypeOK, Score, RowsSound
  <2>2. {"delivery", "rubric_coverage"} \subseteq score.signals
    BY <1>1, <2>1 DEF ScoreSound, HasJoined, Header
  <2> QED
    BY <2>1, <2>2 DEF Signals
<1>2. IInv => SignalsComplete
  BY <1>1 DEF SignalsComplete
<1> QED
  BY <1>2, Invariance, PTL

(* A row in SCORING or RENDERING has a delivery of its task left, or the   *)
(* task failed outside its own error handling: of any number of chains and *)
(* redeliveries.                                                           *)
THEOREM TransitIsAnswered == Spec => []TransitHasWorker
<1>1. ASSUME IInv, NEW t, Pending(t)
      PROVE  Delivering(t)
  <2>1. CASE \E m \in DOMAIN queue : m.task = t
    BY <2>1 DEF Delivering, BagToSet
  <2>2. ASSUME NEW w \in Workers, running[w].msg.task = t, running[w].at \notin {"idle", "done"}
        PROVE  Delivering(t)
    <3>1. running[w] # Idle
      BY <2>2, NewJobs
    <3> QED
      BY <2>2, <3>1 DEF Delivering
  <2> QED
    BY <1>1, <2>1, <2>2 DEF Pending
<1>2. IInv => TransitHasWorker
  BY <1>1 DEF IInv, InTransit, TransitHasWorker
<1> QED
  BY <1>2, Invariance, PTL
=============================================================================
