------------------------- MODULE VoiceSessionProofs -------------------------
(***************************************************************************)
(* Proofs about VoiceSession, for any calls, check-ins and restarts.       *)
(*                                                                         *)
(* The argument.  That the calls keep the contract needs one fact that no  *)
(* single step shows: a call whose end is announced is over, so that it is *)
(* never announced again, and a call that stops silently has announced     *)
(* nothing (Unannounced).  It holds whatever may go wrong.                 *)
(*                                                                         *)
(* That a running call is the registered one lasts until two start()s meet *)
(* or one goes on before the call it stopped is over (tangled).  Until     *)
(* then it rests on what start() knows at its two awaits (Alone): a rejoin *)
(* that is stopping its predecessor has no other call beside it, and one   *)
(* that builds its own pipeline has none at all.  A shutdown is clean      *)
(* because it begins with no offer being answered and lets none in         *)
(* (Drained).                                                              *)
(***************************************************************************)
EXTENDS VoiceSession, TLAPS

Is(s, phases) == call[s].phase \in phases

(* An announced end is the end.                                            *)
Unannounced == \A s \in Sessions : call[s].announced # None => Is(s, {"over"})

(* A shutdown is the last thing its process does.                          *)
LastWords == drain # "no" => restarts < MaxRestarts

(* One start() is under way at a time, and beside it runs at most the call *)
(* it replaces; the registry names no call that does not run.              *)
Alone ==
  /\ \A s, u \in Sessions : Is(s, InStart) /\ Is(u, InStart) => s = u
  /\ \A s, u \in Sessions : Is(s, {"stopping"}) /\ Is(u, Running) => u = call[s].replaces
  /\ \A s, u \in Sessions : Is(s, {"building"}) => ~Is(u, Running)
  /\ registry # None => Is(registry, Running)

Registered == \A s \in Sessions : Is(s, Running) => registry = s

(* A shutdown waits for the one call that may be running, and has told it. *)
Drained ==
  drain # "no" => \A s \in Sessions : /\ ~Is(s, Starting)
                                      /\ Is(s, Running) => s = drain /\ Is(s, {"ending"})

IInv ==
  /\ TypeOK /\ Unannounced /\ LastWords
  /\ ~tangled => Alone /\ Registered /\ Drained
-----------------------------------------------------------------------------
(* stop() changes the reason of the registered call, and ends it if it is  *)
(* live.                                                                   *)
LEMMA StoppedIs ==
  ASSUME NEW calls \in [Sessions -> Call], NEW reason \in Reasons,
         registry \in {None} \cup Sessions
  PROVE  /\ Stopped(calls, reason) \in [Sessions -> Call]
         /\ \A u \in Sessions :
              LET v == Stopped(calls, reason)[u]
              IN  /\ \/ v.phase = calls[u].phase
                     \/ calls[u].phase = "live" /\ v.phase = "ending"
                  /\ v.announced = calls[u].announced /\ v.replaces = calls[u].replaces
<1>1. CASE registry = None
  BY <1>1 DEF Stopped
<1>2. CASE registry # None
  <2>1. PICK r \in Sessions : r = registry
    BY <1>2
  <2>2. PICK c \in Call : c = calls[r]
    OBVIOUS
  <2>3. PICK phase \in Phases :
          /\ phase = IF c.phase = "live" THEN "ending" ELSE c.phase
          /\ phase = c.phase \/ (c.phase = "live" /\ phase = "ending")
    BY DEF Call, Phases, Running
  <2>4. PICK x : x = [c EXCEPT !.reason = reason, !.phase = phase]
    OBVIOUS
  <2>5. /\ x \in Call /\ x.phase = phase
        /\ x.announced = c.announced /\ x.replaces = c.replaces
    BY <2>4 DEF Call
  <2>6. Stopped(calls, reason) = [calls EXCEPT ![r] = x]
    BY <1>2, <2>1, <2>2, <2>3, <2>4 DEF Stopped
  <2>7. PICK new : new = Stopped(calls, reason) /\ new = [calls EXCEPT ![r] = x]
    BY <2>6
  <2>8. \A u \in Sessions : new[u] = IF u = r THEN x ELSE calls[u]
    BY <2>7
  <2>9. new \in [Sessions -> Call]
    BY <2>5, <2>7
  <2>10. \A u \in Sessions :
           /\ new[u].phase = calls[u].phase \/ (calls[u].phase = "live" /\ new[u].phase = "ending")
           /\ new[u].announced = calls[u].announced /\ new[u].replaces = calls[u].replaces
    BY <2>2, <2>3, <2>5, <2>8
  <2> QED
    BY <2>7, <2>9, <2>10
<1> QED
  BY <1>1, <1>2

(* A step that moves no call from one stage of its life to another.        *)
Quiet ==
  /\ call' \in [Sessions -> Call]
  /\ \A u \in Sessions :
       /\ call'[u].phase = call[u].phase \/ (Is(u, {"live"}) /\ call'[u].phase = "ending")
       /\ call'[u].announced = call[u].announced /\ call'[u].replaces = call[u].replaces
  /\ UNCHANGED <<registry, restarts, tangled>>
  /\ {timer', closed'} \subseteq BOOLEAN

(* A quiet step keeps the invariant.                                       *)
LEMMA QuietKeeps ==
  ASSUME IInv, Quiet, drain' = drain
  PROVE  IInv'
<1>1. TypeOK'
  BY DEF Quiet, IInv, TypeOK
<1>2. Unannounced' /\ LastWords'
  BY DEF Quiet, IInv, Unannounced, LastWords, Is
<1>3. \A u \in Sessions :
        /\ Is(u, Starting)' => Is(u, Starting)
        /\ Is(u, Running)' <=> Is(u, Running)
        /\ Is(u, InStart)' => Is(u, InStart)
        /\ Is(u, {"stopping"})' => Is(u, {"stopping"})
        /\ Is(u, {"building"})' => Is(u, {"building"})
        /\ Is(u, {"ending"}) => Is(u, {"ending"})'
  BY DEF Quiet, Is, Starting, InStart, Running
<1>4. ASSUME ~tangled'
      PROVE  Alone' /\ Registered' /\ Drained'
  <2>1. Alone /\ Registered /\ Drained /\ registry' = registry
    BY <1>4 DEF Quiet, IInv
  <2>2. Alone'
    <3>1. registry' # None => Is(registry, Running)'
      BY <1>3, <2>1 DEF IInv, TypeOK, Alone, Is
    <3> QED
      BY <1>3, <2>1, <3>1 DEF Quiet, Alone, Is
  <2>3. Registered'
    BY <1>3, <2>1 DEF Registered
  <2>4. Drained'
    BY <1>3, <2>1 DEF Drained
  <2> QED
    BY <2>2, <2>3, <2>4
<1> QED
  BY <1>1, <1>2, <1>4 DEF IInv

(* Nor can it be seen from outside.                                        *)
LEMMA StageIs ==
  /\ Stage = [s \in Sessions |-> Stage[s]] /\ Announced = [s \in Sessions |-> Announced[s]]
  /\ \A s \in Sessions :
       /\ Announced[s] = call[s].announced
       /\ Is(s, {"none"}) => Stage[s] = "none"
       /\ Is(s, Starting) => Stage[s] = "offered"
       /\ Is(s, Running \cup {"uploading"}) => Stage[s] = "live"
       /\ Is(s, {"failed", "over", "lost"}) => Stage[s] = "over"
  /\ \A s \in Sessions :
       Is(s, Phases) => \/ Is(s, {"none"}) \/ Is(s, Starting)
                        \/ Is(s, Running \cup {"uploading"}) \/ Is(s, {"failed", "over", "lost"})
<1>1. Stage = [s \in Sessions |-> Stage[s]] /\ Announced = [s \in Sessions |-> Announced[s]]
  BY DEF Stage, Announced
<1>2. ASSUME NEW s \in Sessions
      PROVE  /\ Announced[s] = call[s].announced
             /\ Is(s, {"none"}) => Stage[s] = "none"
             /\ Is(s, Starting) => Stage[s] = "offered"
             /\ Is(s, Running \cup {"uploading"}) => Stage[s] = "live"
             /\ Is(s, {"failed", "over", "lost"}) => Stage[s] = "over"
             /\ Is(s, Phases) =>
                  \/ Is(s, {"none"}) \/ Is(s, Starting)
                  \/ Is(s, Running \cup {"uploading"}) \/ Is(s, {"failed", "over", "lost"})
  BY DEF Stage, Announced, Is, Starting, InStart, Running, Phases
<1> QED
  BY <1>1, <1>2

(* A quiet step is one the contract does not see.                          *)
LEMMA QuietIsUnseen ==
  ASSUME IInv, Quiet
  PROVE  Stage' = Stage /\ Announced' = Announced
<1>1. ASSUME NEW s \in Sessions
      PROVE  Stage[s]' = Stage[s] /\ Announced[s]' = Announced[s]
  BY DEF Quiet, Stage, Announced, Is, Starting, InStart, Running
<1> QED
  BY <1>1 DEF Stage, Announced
-----------------------------------------------------------------------------
(* Timers, the peer and silence: whoever stop() hits, no call changes its  *)
(* stage.                                                                  *)
LEMMA QuietSteps ==
  ASSUME IInv,
         \/ \E s \in Sessions : PeerDrops(s) \/ _on_drop(s) \/ _on_idle(s)
                                \/ FarewellOver(s) \/ _watchdog(s)
         \/ _abandon_after_grace \/ InterviewCloses
  PROVE  Quiet /\ drain' = drain
<1>1. /\ call \in [Sessions -> Call] /\ registry \in {None} \cup Sessions
      /\ {timer, closed} \subseteq BOOLEAN
      /\ {"abandoned", "timed_out"} \subseteq Reasons
  BY DEF IInv, TypeOK, Reasons
<1>2. ASSUME NEW s \in Sessions, PeerDrops(s)
      PROVE  Quiet /\ drain' = drain
  <2>1. PICK c \in Call : c = call[s]
    BY <1>1
  <2>2. PICK x : /\ \E peer \in {"dropped", "gone"} : x = [c EXCEPT !.peer = peer]
                 /\ call' = [call EXCEPT ![s] = x]
    BY <1>2, <2>1 DEF PeerDrops
  <2>3. x \in Call /\ x.phase = c.phase /\ x.announced = c.announced /\ x.replaces = c.replaces
    BY <2>2 DEF Call
  <2> QED
    BY <1>1, <1>2, <2>1, <2>2, <2>3 DEF PeerDrops, Quiet
<1>3. ASSUME NEW s \in Sessions, _on_drop(s)
      PROVE  Quiet /\ drain' = drain
  BY <1>1, <1>3 DEF _on_drop, _schedule_abandon, Quiet
<1>4. ASSUME NEW s \in Sessions, _on_idle(s)
      PROVE  Quiet /\ drain' = drain
  <2>1. PICK c \in Call : c = call[s]
    BY <1>1
  <2>2. PICK x : /\ call' = [call EXCEPT ![s] = x]
                 /\ \/ x = [c EXCEPT !.farewell = TRUE]
                    \/ \E n \in 0 .. MaxNudges : x = [c EXCEPT !.nudges = n]
    <3>1. CASE c.nudges >= MaxNudges
      BY <1>4, <2>1, <3>1 DEF _on_idle
    <3>2. CASE ~(c.nudges >= MaxNudges)
      <4>1. PICK n \in 0 .. MaxNudges : n = c.nudges + 1
        BY <3>2, VoiceAssumption DEF Call
      <4>2. call' = [call EXCEPT ![s] = [c EXCEPT !.nudges = n]]
        BY <1>4, <2>1, <3>2, <4>1 DEF _on_idle
      <4> QED
        BY <4>2
    <3> QED
      BY <3>1, <3>2
  <2>3. x \in Call /\ x.phase = c.phase /\ x.announced = c.announced /\ x.replaces = c.replaces
    BY <2>2 DEF Call
  <2> QED
    BY <1>1, <1>4, <2>1, <2>2, <2>3 DEF _on_idle, Quiet
<1>5. ASSUME NEW s \in Sessions, FarewellOver(s) \/ _watchdog(s)
      PROVE  Quiet /\ drain' = drain
  <2>1. PICK c \in Call : c = call[s]
    BY <1>1
  <2>2. PICK x : /\ x = [c EXCEPT !.farewell = FALSE] \/ x = [c EXCEPT !.watched = FALSE]
                 /\ \E reason \in {"abandoned", "timed_out"} :
                      call' = Stopped([call EXCEPT ![s] = x], reason)
    <3>1. CASE FarewellOver(s)
      <4>1. call' = Stopped([call EXCEPT ![s] = [c EXCEPT !.farewell = FALSE]], "abandoned")
        BY <2>1, <3>1 DEF FarewellOver
      <4> QED
        BY <4>1
    <3>2. CASE _watchdog(s)
      <4>1. call' = Stopped([call EXCEPT ![s] = [c EXCEPT !.watched = FALSE]], "timed_out")
        BY <2>1, <3>2 DEF _watchdog
      <4> QED
        BY <4>1
    <3> QED
      BY <1>5, <3>1, <3>2
  <2>3. x \in Call /\ x.phase = c.phase /\ x.announced = c.announced /\ x.replaces = c.replaces
    BY <2>2 DEF Call
  <2>4. PICK calls :
          /\ calls = [call EXCEPT ![s] = x] /\ calls \in [Sessions -> Call]
          /\ \A u \in Sessions : /\ calls[u].phase = call[u].phase
                                 /\ calls[u].announced = call[u].announced
                                 /\ calls[u].replaces = call[u].replaces
    <3>1. PICK calls : calls = [call EXCEPT ![s] = x]
      OBVIOUS
    <3>2. calls \in [Sessions -> Call] /\ \A u \in Sessions : calls[u] = IF u = s THEN x ELSE call[u]
      BY <1>1, <2>3, <3>1
    <3> QED
      BY <2>1, <2>3, <3>1, <3>2
  <2>5. PICK reason \in Reasons :
          call' = Stopped(calls, reason) /\ calls \in [Sessions -> Call]
    BY <1>1, <2>2, <2>4
  <2>6. /\ call' \in [Sessions -> Call]
        /\ \A u \in Sessions :
             /\ \/ call'[u].phase = calls[u].phase
                \/ calls[u].phase = "live" /\ call'[u].phase = "ending"
             /\ call'[u].announced = calls[u].announced /\ call'[u].replaces = calls[u].replaces
    BY <1>1, <2>5, StoppedIs
  <2> QED
    <3>1. UNCHANGED <<registry, timer, closed, drain, restarts, tangled>>
      BY <1>5, Zenon DEF FarewellOver, _watchdog
    <3>2. \A u \in Sessions :
            /\ call'[u].phase = call[u].phase \/ (Is(u, {"live"}) /\ call'[u].phase = "ending")
            /\ call'[u].announced = call[u].announced /\ call'[u].replaces = call[u].replaces
      BY <2>4, <2>6 DEF Is
    <3> QED
      BY <1>1, <2>6, <3>1, <3>2 DEF Quiet
<1>6. CASE _abandon_after_grace
  <2>1. /\ call' = Stopped(call, "abandoned") /\ timer' = FALSE
        /\ UNCHANGED <<registry, closed, drain, restarts, tangled>>
    BY <1>6 DEF _abandon_after_grace
  <2>2. /\ call' \in [Sessions -> Call]
        /\ \A u \in Sessions :
             /\ \/ call'[u].phase = call[u].phase
                \/ call[u].phase = "live" /\ call'[u].phase = "ending"
             /\ call'[u].announced = call[u].announced /\ call'[u].replaces = call[u].replaces
    BY <1>1, <2>1, StoppedIs
  <2> QED
    BY <1>1, <2>1, <2>2 DEF Quiet, Is
<1>7. CASE InterviewCloses
  BY <1>1, <1>7 DEF InterviewCloses, Quiet
<1> QED
  BY <1>2, <1>3, <1>4, <1>5, <1>6, <1>7

(* A shutdown tells the running call, and it is the only one.              *)
LEMMA StopAllKeeps ==
  ASSUME IInv, stop_all
  PROVE  Quiet /\ IInv'
<1>1. /\ call \in [Sessions -> Call] /\ registry \in {None} \cup Sessions
      /\ {timer, closed} \subseteq BOOLEAN /\ "abandoned" \in Reasons
  BY DEF IInv, TypeOK, Reasons
<1>2. Quiet
  BY <1>1, StoppedIs DEF stop_all, Quiet, Is
<1>3. TypeOK'
  BY <1>1, <1>2 DEF IInv, TypeOK, stop_all, Quiet
<1>4. Unannounced' /\ LastWords'
  BY <1>2 DEF IInv, Unannounced, LastWords, stop_all, Quiet, Is
<1>5. \A u \in Sessions :
        /\ ~Is(u, Starting)'
        /\ Is(u, Running)' <=> Is(u, Running)
        /\ ~Is(u, InStart)' /\ ~Is(u, {"stopping"})' /\ ~Is(u, {"building"})'
  BY <1>2 DEF stop_all, Quiet, Is, InPhase, Starting, InStart, Running
<1>6. ASSUME ~tangled'
      PROVE  Alone' /\ Registered' /\ Drained'
  <2>1. Alone /\ Registered /\ registry' = registry /\ drain' = registry
    BY <1>2, <1>6 DEF IInv, Quiet, stop_all
  <2>2. registry' # None => Is(registry, Running)'
    BY <1>1, <1>5, <2>1 DEF Alone, Is
  <2>3. Alone'
    BY <1>5, <2>2 DEF Alone
  <2>4. Registered'
    BY <1>5, <2>1 DEF Registered
  <2>5. ASSUME NEW u \in Sessions, Is(u, Running)'
        PROVE  u = drain' /\ Is(u, {"ending"})'
    <3>1. Is(u, Running) /\ registry = u /\ registry # None
      BY <1>5, <2>1, <2>5, VoiceAssumption DEF Registered, None
    <3>2. call'[u].phase = IF call[u].phase = "live" THEN "ending" ELSE call[u].phase
      <4>1. PICK c \in Call : c = call[u]
        BY <1>1
      <4>2. PICK phase : phase = IF c.phase = "live" THEN "ending" ELSE c.phase
        OBVIOUS
      <4>3. PICK x : x = [c EXCEPT !.reason = "abandoned", !.phase = phase]
        OBVIOUS
      <4>4. x.phase = phase
        BY <4>3 DEF Call
      <4>5. call' = [call EXCEPT ![u] = x]
        BY <3>1, <4>1, <4>2, <4>3 DEF stop_all, Stopped
      <4> QED
        BY <1>1, <4>1, <4>2, <4>4, <4>5
    <3> QED
      BY <2>1, <3>1, <3>2 DEF Is, Running
  <2>6. Drained'
    BY <1>5, <2>5 DEF Drained
  <2> QED
    BY <2>3, <2>4, <2>6
<1> QED
  BY <1>2, <1>3, <1>4, <1>6 DEF IInv
-----------------------------------------------------------------------------
(* A step that takes one call from phase to phase.                         *)
Moves(s, phase) ==
  /\ call' \in [Sessions -> Call]
  /\ \A u \in Sessions \ {s} : call'[u] = call[u]
  /\ call'[s].phase = phase
  /\ call'[s].replaces = call[s].replaces

(* A call's new phase, and with it a reason or an announcement.            *)
LEMMA MoveIs ==
  ASSUME call \in [Sessions -> Call], NEW s \in Sessions, NEW phase \in Phases,
         NEW reason \in Reasons, NEW announced \in {None} \cup Reasons, NEW x,
         \/ x = [call[s] EXCEPT !.phase = phase] /\ announced = call[s].announced
         \/ x = [call[s] EXCEPT !.phase = phase, !.reason = reason] /\ announced = call[s].announced
         \/ x = [call[s] EXCEPT !.phase = phase, !.announced = announced],
         call' = [call EXCEPT ![s] = x]
  PROVE  Moves(s, phase) /\ call'[s].announced = announced
<1>1. PICK c \in Call : c = call[s]
  OBVIOUS
<1>2. x \in Call /\ x.phase = phase /\ x.replaces = c.replaces /\ x.announced = announced
  BY <1>1 DEF Call
<1>3. call' \in [Sessions -> Call] /\ \A u \in Sessions : call'[u] = IF u = s THEN x ELSE call[u]
  BY <1>2
<1> QED
  BY <1>1, <1>2, <1>3 DEF Moves

(* Which step takes a call where.                                          *)
LEMMA MoveSteps ==
  ASSUME IInv, NEW s \in Sessions
  PROVE  /\ offer(s) => Moves(s, "connecting") /\ call'[s].announced = call[s].announced
         /\ stop_returns(s) => Moves(s, "building") /\ call'[s].announced = call[s].announced
         /\ stop_raises(s) \/ start_raises(s) =>
              Moves(s, "failed") /\ call'[s].announced = call[s].announced
         /\ start_returns(s) => Moves(s, "live") /\ call'[s].announced = call[s].announced
         /\ \A crashed \in BOOLEAN :
              _run(s, crashed) => Moves(s, "uploading") /\ call'[s].announced = call[s].announced
         /\ _finalise(s) => /\ Moves(s, "over")
                            /\ call'[s].announced = IF call[s].reason = SUPERSEDED
                                                    THEN None ELSE call[s].reason
         /\ finalise_raises(s) => Moves(s, "failed") /\ call'[s].announced = call[s].announced
<1>1. call \in [Sessions -> Call] /\ call[s].reason \in Reasons /\ "abandoned" \in Reasons
      /\ call[s].announced \in {None} \cup Reasons
  BY DEF IInv, TypeOK, Call, Reasons
<1>2. {"connecting", "building", "failed", "live", "uploading", "over"} \subseteq Phases
  BY DEF Phases, Starting, InStart, Running
<1>3. ASSUME NEW phase \in {"connecting", "building", "failed", "live"},
             call' = [call EXCEPT ![s].phase = phase]
      PROVE  Moves(s, phase) /\ call'[s].announced = call[s].announced
  <2>1. PICK x : x = [call[s] EXCEPT !.phase = phase] /\ call' = [call EXCEPT ![s] = x]
    BY <1>3
  <2> QED
    BY <1>1, <1>2, <2>1, MoveIs
<1>4. ASSUME NEW crashed \in BOOLEAN, _run(s, crashed)
      PROVE  Moves(s, "uploading") /\ call'[s].announced = call[s].announced
  <2>1. PICK reason \in Reasons : reason = IF crashed THEN "abandoned" ELSE call[s].reason
    BY <1>1
  <2>2. PICK x : /\ x = [call[s] EXCEPT !.phase = "uploading", !.reason = reason]
                 /\ call' = [call EXCEPT ![s] = x]
    BY <1>4, <2>1 DEF _run
  <2> QED
    BY <1>1, <1>2, <2>2, MoveIs
<1>5. ASSUME _finalise(s)
      PROVE  /\ Moves(s, "over")
             /\ call'[s].announced = IF call[s].reason = SUPERSEDED
                                     THEN None ELSE call[s].reason
  <2>1. PICK a \in {None} \cup Reasons :
          a = IF call[s].reason = SUPERSEDED THEN None ELSE call[s].reason
    BY <1>1
  <2>2. PICK x : /\ x = [call[s] EXCEPT !.phase = "over", !.announced = a]
                 /\ call' = [call EXCEPT ![s] = x]
    BY <1>5, <2>1 DEF _finalise
  <2>3. Moves(s, "over") /\ call'[s].announced = a
    BY <1>1, <1>2, <2>2, MoveIs
  <2> QED
    BY <2>1, <2>3
<1> QED
  BY <1>3, <1>4, <1>5
     DEF offer, stop_returns, stop_raises, start_raises, start_returns, finalise_raises
-----------------------------------------------------------------------------
(* The rest of a move of a call that is not starting: it keeps the one     *)
(* invariant of all calls.                                                 *)
LEMMA MoveTyped ==
  ASSUME IInv, NEW s \in Sessions, NEW phase \in Phases, Moves(s, phase),
         call'[s].announced # None => phase = "over",
         registry' \in {None} \cup Sessions, {timer', closed', tangled'} \subseteq BOOLEAN,
         drain' = drain, restarts' = restarts
  PROVE  TypeOK' /\ Unannounced' /\ LastWords'
<1>1. TypeOK'
  BY DEF Moves, IInv, TypeOK
<1>2. Unannounced'
  BY DEF Moves, IInv, Unannounced, Is
<1> QED
  BY <1>1, <1>2 DEF IInv, LastWords

(* start() supersedes the registered call and begins.                      *)
LEMMA StartIs ==
  ASSUME IInv, NEW s \in Sessions, start(s)
  PROVE  /\ call' \in [Sessions -> Call]
         /\ call[s].phase = "connecting"
         /\ call'[s].phase = IF registry = None THEN "building" ELSE "stopping"
         /\ call'[s].replaces = registry
         /\ \A u \in Sessions \ {s} :
              /\ call'[u].phase = call[u].phase \/ (Is(u, {"live"}) /\ call'[u].phase = "ending")
              /\ call'[u].replaces = call[u].replaces
         /\ \A u \in Sessions : call'[u].announced = call[u].announced
         /\ timer' = FALSE /\ tangled' \in BOOLEAN
         /\ ~tangled' => ~tangled /\ \A u \in Sessions : ~Is(u, InStart)
         /\ UNCHANGED <<registry, closed, drain, restarts>>
<1>1. /\ call \in [Sessions -> Call] /\ registry \in {None} \cup Sessions /\ SUPERSEDED \in Reasons
  BY DEF IInv, TypeOK, Reasons
<1>2. PICK calls :
        /\ calls = Stopped(call, SUPERSEDED) /\ calls \in [Sessions -> Call]
        /\ \A u \in Sessions :
             /\ \/ calls[u].phase = call[u].phase
                \/ call[u].phase = "live" /\ calls[u].phase = "ending"
             /\ calls[u].announced = call[u].announced /\ calls[u].replaces = call[u].replaces
  <2>1. PICK calls : calls = Stopped(call, SUPERSEDED)
    OBVIOUS
  <2> QED
    BY <1>1, <2>1, StoppedIs
<1>3. PICK c \in Call : c = calls[s]
  BY <1>2
<1>4. PICK phase \in Phases : phase = IF registry = None THEN "building" ELSE "stopping"
  BY DEF Phases, Starting, InStart
<1>5. PICK x : x = [c EXCEPT !.phase = phase, !.replaces = registry]
  OBVIOUS
<1>6. /\ x \in Call /\ x.phase = phase /\ x.replaces = registry /\ x.announced = c.announced
  BY <1>1, <1>5 DEF Call
<1>7. call' = [calls EXCEPT ![s] = x]
  BY <1>2, <1>3, <1>4, <1>5 DEF start
<1>8. call' \in [Sessions -> Call] /\ \A u \in Sessions : call'[u] = IF u = s THEN x ELSE calls[u]
  BY <1>2, <1>6, <1>7
<1>9. /\ call[s].phase = "connecting" /\ timer' = FALSE
      /\ UNCHANGED <<registry, closed, drain, restarts>>
  BY DEF start, _cancel_pending_abandon
<1>10. tangled' \in BOOLEAN /\ (~tangled' => ~tangled /\ \A u \in Sessions : ~Is(u, InStart))
  BY DEF start, InPhase, Is
<1> QED
  BY <1>2, <1>3, <1>4, <1>6, <1>8, <1>9, <1>10 DEF Is

(* A start() that finds no other under way.                                *)
LEMMA StartKeeps ==
  ASSUME IInv, NEW s \in Sessions, start(s)
  PROVE  IInv'
<1>1. TypeOK'
  BY StartIs DEF IInv, TypeOK
<1>2. Unannounced' /\ LastWords'
  BY StartIs DEF IInv, Unannounced, LastWords, Is
<1>3. \A u \in Sessions \ {s} :
        /\ Is(u, InStart)' <=> Is(u, InStart)
        /\ Is(u, Running)' <=> Is(u, Running)
  BY StartIs DEF Is, InStart, Running
<1>4. /\ Is(s, Starting) /\ ~Is(s, Running)' /\ ~Is(s, Running)
      /\ Is(s, {"stopping"})' => registry # None /\ call'[s].replaces = registry
      /\ Is(s, {"building"})' => registry = None
  BY StartIs DEF Is, Starting, Running
<1>5. ASSUME ~tangled'
      PROVE  Alone' /\ Registered' /\ Drained'
  <2>1. /\ Alone /\ Registered /\ Drained
        /\ \A u \in Sessions \ {s} : ~Is(u, InStart)'
    BY <1>3, <1>5, StartIs DEF IInv
  <2>2. \A u \in Sessions \ {s} : ~Is(u, {"stopping"})' /\ ~Is(u, {"building"})'
    BY <2>1 DEF Is, InStart
  <2>3. \A u \in Sessions : Is(u, Running)' => u = registry /\ registry # None
    BY <1>3, <1>4, <2>1, VoiceAssumption DEF Registered, None
  <2>4. registry' = registry /\ drain' = "no"
    BY <1>4, <2>1, StartIs DEF Drained
  <2>5. registry' # None => Is(registry, Running)'
    BY <1>3, <1>4, <2>1, <2>4 DEF IInv, TypeOK, Alone, Is
  <2>6. \A u, v \in Sessions : Is(u, InStart)' /\ Is(v, InStart)' => u = v
    BY <2>1
  <2>7. \A u, v \in Sessions : Is(u, {"stopping"})' /\ Is(v, Running)' => v = call'[u].replaces
    BY <1>4, <2>2, <2>3
  <2>8. \A u, v \in Sessions : Is(u, {"building"})' => ~Is(v, Running)'
    BY <1>4, <2>2, <2>3
  <2>9. Alone'
    BY <2>5, <2>6, <2>7, <2>8 DEF Alone
  <2>10. Registered' /\ Drained'
    BY <2>3, <2>4 DEF Registered, Drained
  <2> QED
    BY <2>9, <2>10
<1> QED
  BY <1>1, <1>2, <1>5 DEF IInv

(* An offer is taken; start() stops waiting, fails, or registers its call. *)
LEMMA BeginsKeeps ==
  ASSUME IInv, NEW s \in Sessions,
         offer(s) \/ stop_returns(s) \/ stop_raises(s) \/ start_raises(s) \/ start_returns(s)
  PROVE  IInv'
<1>1. PICK phase \in {"connecting", "building", "failed", "live"} :
        /\ Moves(s, phase) /\ call'[s].announced = call[s].announced
        /\ tangled' \in BOOLEAN /\ (~tangled' => ~tangled)
        /\ phase = "connecting" => Is(s, {"none"}) /\ drain = "no" /\ registry' = registry
        /\ phase = "building" =>
             /\ Is(s, {"stopping"}) /\ registry' = registry
             /\ ~tangled' => call[call[s].replaces].phase = "over"
        /\ phase = "failed" => Is(s, Starting) /\ registry' = registry
        /\ phase = "live" => Is(s, {"building"}) /\ registry' = s
  <2>1. tangled \in BOOLEAN
    BY DEF IInv, TypeOK
  <2>2. CASE offer(s)
    BY <2>1, <2>2, MoveSteps DEF offer, Is
  <2>3. CASE stop_returns(s)
    BY <2>1, <2>3, MoveSteps DEF stop_returns, Is
  <2>4. CASE stop_raises(s) \/ start_raises(s)
    BY <2>1, <2>4, MoveSteps DEF stop_raises, start_raises, Is, Starting, InStart
  <2>5. CASE start_returns(s)
    BY <2>1, <2>5, MoveSteps DEF start_returns, Is
  <2> QED
    BY <2>2, <2>3, <2>4, <2>5
<1>2. /\ UNCHANGED <<timer, closed, drain, restarts>>
      /\ ~Is(s, {"over"}) /\ ~Is(s, Running)
      /\ registry' \in {registry, s}
  BY DEF offer, stop_returns, stop_raises, start_raises, start_returns, Is, Running
<1>3. TypeOK' /\ Unannounced' /\ LastWords'
  <2>1. phase \in Phases /\ {timer', closed', tangled'} \subseteq BOOLEAN
        /\ registry' \in {None} \cup Sessions
    BY <1>1, <1>2 DEF Phases, Starting, InStart, Running, IInv, TypeOK
  <2>2. ~(call'[s].announced # None)
    BY <1>1, <1>2 DEF IInv, Unannounced
  <2> QED
    BY <1>1, <1>2, <2>1, <2>2, MoveTyped
<1>4. \A u \in Sessions \ {s} : \A phases : Is(u, phases)' <=> Is(u, phases)
  BY <1>1 DEF Moves, Is
<1>5. \A phases : Is(s, phases)' <=> phase \in phases
  BY <1>1 DEF Moves, Is
<1>6. \A u \in Sessions : call'[u].replaces = call[u].replaces
  BY <1>1 DEF Moves
<1>7. ASSUME ~tangled'
      PROVE  Alone' /\ Registered' /\ Drained'
  <2>1. Alone /\ Registered /\ Drained
    BY <1>1, <1>7 DEF IInv
  <2>2. drain' = "no"
    BY <1>1, <1>2, <2>1 DEF Drained, Is, Starting, InStart
  <2>3. phase \in {"building", "live"} =>
          \A u \in Sessions : ~Is(u, Running) /\ (u # s => ~Is(u, InStart))
    <3>1. phase \in {"building", "live"} => Is(s, InStart)
      BY <1>1 DEF Is, InStart
    <3>2. phase = "building" => \A u \in Sessions : ~Is(u, Running)
      BY <1>1, <1>7, <2>1 DEF Alone, Is, Running
    <3>3. phase = "live" => \A u \in Sessions : ~Is(u, Running)
      BY <1>1, <2>1 DEF Alone
    <3> QED
      BY <2>1, <3>1, <3>2, <3>3 DEF Alone
  <2>4. \A u \in Sessions : Is(u, Running)' => \/ u = s /\ phase = "live"
                                               \/ Is(u, Running) /\ phase \in {"connecting", "failed"}
    BY <1>4, <1>5, <2>3 DEF Running
  <2>5. \A u \in Sessions : Is(u, InStart)' =>
          \/ u = s /\ phase = "building"
          \/ Is(u, InStart) /\ phase \in {"connecting", "failed"}
    BY <1>4, <1>5, <2>3 DEF InStart
  <2>6. \A u \in Sessions :
          /\ Is(u, {"stopping"})' => Is(u, {"stopping"}) /\ phase \in {"connecting", "failed"}
          /\ Is(u, {"building"})' => \/ u = s /\ phase = "building"
                                     \/ Is(u, {"building"}) /\ phase \in {"connecting", "failed"}
    BY <1>4, <1>5, <2>3 DEF Is, InStart
  <2>7. registry' # None => Is(registry, Running)'
    <3>1. CASE phase = "live"
      BY <1>1, <1>5, <3>1 DEF Is, Running
    <3>2. CASE phase # "live"
      <4>1. registry' = registry /\ (registry # None => registry \in Sessions \ {s})
        BY <1>1, <1>2, <2>1, <3>2 DEF IInv, TypeOK, Alone
      <4> QED
        BY <1>1, <2>1, <4>1 DEF Alone, Is, Moves
    <3> QED
      BY <3>1, <3>2
  <2>8. Alone'
    <3>1. \A u, v \in Sessions : Is(u, InStart)' /\ Is(v, InStart)' => u = v
      BY <2>1, <2>5 DEF Alone
    <3>2. \A u, v \in Sessions : Is(u, {"stopping"})' /\ Is(v, Running)' => v = call'[u].replaces
      BY <1>6, <2>1, <2>4, <2>6 DEF Alone
    <3>3. \A u, v \in Sessions : Is(u, {"building"})' => ~Is(v, Running)'
      BY <2>1, <2>4, <2>6 DEF Alone
    <3> QED
      BY <2>7, <3>1, <3>2, <3>3 DEF Alone
  <2>9. Registered'
    BY <1>1, <2>1, <2>4 DEF Registered
  <2>10. Drained'
    BY <2>2 DEF Drained
  <2> QED
    BY <2>8, <2>9, <2>10
<1> QED
  BY <1>3, <1>7 DEF IInv

(* A pipeline returns, and a call ends: where one runs at most, the entry  *)
(* the registry loses is its own.                                          *)
LEMMA EndsKeeps ==
  ASSUME IInv, NEW s \in Sessions,
         \/ \E crashed \in BOOLEAN : _run(s, crashed)
         \/ _finalise(s) \/ finalise_raises(s)
  PROVE  IInv'
<1>1. PICK phase \in {"uploading", "over", "failed"} :
        /\ Moves(s, phase)
        /\ phase # "over" => call'[s].announced = call[s].announced
        /\ phase = "uploading" => Is(s, Running) /\ registry' = None /\ timer' = FALSE
        /\ phase # "uploading" => Is(s, {"uploading"}) /\ registry' = registry /\ timer' = timer
        /\ UNCHANGED <<closed, drain, restarts, tangled>>
  BY MoveSteps DEF _run, _finalise, finalise_raises, Is
<1>2. TypeOK' /\ Unannounced' /\ LastWords'
  <2>1. /\ phase \in Phases /\ {timer', closed', tangled'} \subseteq BOOLEAN
        /\ registry' \in {None} \cup Sessions
    BY <1>1 DEF Phases, Starting, Running, IInv, TypeOK
  <2>2. call'[s].announced # None => phase = "over"
    BY <1>1 DEF IInv, Unannounced, Is, Running
  <2> QED
    BY <1>1, <2>1, <2>2, MoveTyped
<1>3. \A u \in Sessions \ {s} : \A phases : Is(u, phases)' <=> Is(u, phases)
  BY <1>1 DEF Moves, Is
<1>4. /\ ~Is(s, Starting)' /\ ~Is(s, InStart)' /\ ~Is(s, Running)'
      /\ ~Is(s, {"stopping"})' /\ ~Is(s, {"building"})'
  BY <1>1 DEF Moves, Is, Starting, InStart, Running
<1>5. \A u \in Sessions : call'[u].replaces = call[u].replaces
  BY <1>1 DEF Moves
<1>6. ASSUME ~tangled'
      PROVE  Alone' /\ Registered' /\ Drained'
  <2> USE DEF Alone
  <2>1. Alone /\ Registered /\ Drained
    BY <1>1, <1>6 DEF IInv
  <2>2. \A u \in Sessions :
          Is(u, Running)' => registry = u /\ phase # "uploading" /\ Is(u, Running)
    BY <1>1, <1>3, <1>4, <2>1 DEF Registered
  <2>3. registry' # None => Is(registry, Running)'
    <3>1. registry' # None => registry' = registry /\ registry \in Sessions \ {s}
      BY <1>1, <2>1 DEF IInv, TypeOK, Is, Running
    <3> QED
      BY <1>1, <2>1, <3>1 DEF Is, Moves
  <2>4. Alone'
    <3>1. \A u, v \in Sessions : Is(u, InStart)' /\ Is(v, InStart)' => u = v
      BY <1>3, <1>4, <2>1
    <3>2. \A u, v \in Sessions : Is(u, {"stopping"})' /\ Is(v, Running)' => v = call'[u].replaces
      BY <1>3, <1>4, <1>5, <2>1, <2>2
    <3>3. \A u, v \in Sessions : Is(u, {"building"})' => ~Is(v, Running)'
      BY <1>3, <1>4, <2>1, <2>2
    <3> QED
      BY <2>3, <3>1, <3>2, <3>3
  <2>5. Registered'
    BY <1>1, <2>2 DEF Registered
  <2>6. Drained'
    BY <1>1, <1>3, <1>4, <2>1, <2>2 DEF Drained
  <2> QED
    BY <2>4, <2>5, <2>6
<1> QED
  BY <1>2, <1>6 DEF IInv

(* The process is replaced, and every call that was not over is lost.      *)
LEMMA RestartIs ==
  ASSUME IInv, Restarted
  PROVE  /\ call' \in [Sessions -> Call]
         /\ \A u \in Sessions :
              /\ call'[u].announced = call[u].announced
              /\ IF call[u].phase \in Starting \cup Running \cup {"uploading"}
                 THEN call'[u].phase = "lost"
                 ELSE call'[u].phase = call[u].phase
<1> DEFINE
  After(u) == IF call[u].phase \in Starting \cup Running \cup {"uploading"}
              THEN [call[u] EXCEPT !.phase = "lost", !.farewell = FALSE]
              ELSE [call[u] EXCEPT !.farewell = FALSE]
<1>1. call' = [u \in Sessions |-> After(u)]
  BY DEF Restarted
<1>2. ASSUME NEW u \in Sessions
      PROVE  /\ After(u) \in Call /\ After(u).announced = call[u].announced
             /\ IF call[u].phase \in Starting \cup Running \cup {"uploading"}
                THEN After(u).phase = "lost" ELSE After(u).phase = call[u].phase
  <2>1. PICK c \in Call : c = call[u]
    BY DEF IInv, TypeOK
  <2>2. CASE c.phase \in Starting \cup Running \cup {"uploading"}
    <3>1. PICK x : x = [c EXCEPT !.phase = "lost", !.farewell = FALSE]
      OBVIOUS
    <3>2. x \in Call /\ x.phase = "lost" /\ x.announced = c.announced
      BY <3>1 DEF Call, Phases
    <3> QED
      BY <2>1, <2>2, <3>1, <3>2
  <2>3. CASE c.phase \notin Starting \cup Running \cup {"uploading"}
    <3>1. PICK x : x = [c EXCEPT !.farewell = FALSE]
      OBVIOUS
    <3>2. x \in Call /\ x.phase = c.phase /\ x.announced = c.announced
      BY <3>1 DEF Call
    <3> QED
      BY <2>1, <2>3, <3>1, <3>2
  <2> QED
    BY <2>2, <2>3
<1> HIDE DEF After
<1> QED
  BY <1>1, <1>2

(* The process restarts: every call is gone and the registry is empty.     *)
LEMMA RestartKeeps ==
  ASSUME IInv, Restarted, restarts < MaxRestarts
  PROVE  IInv'
<1>1. /\ registry' = None /\ timer' = FALSE /\ drain' = "no"
      /\ restarts' = restarts + 1 /\ UNCHANGED <<closed, tangled>>
  BY DEF Restarted
<1>2. TypeOK'
  <2>1. restarts' \in 0 .. MaxRestarts
    BY <1>1, VoiceAssumption DEF IInv, TypeOK
  <2>2. {timer', closed', tangled'} \subseteq BOOLEAN
    BY <1>1 DEF IInv, TypeOK
  <2> QED
    BY <1>1, <2>1, <2>2, RestartIs DEF TypeOK
<1>3. Unannounced' /\ LastWords'
  BY <1>1, RestartIs DEF IInv, Unannounced, LastWords, Is, Starting, InStart, Running
<1>4. \A u \in Sessions : /\ ~Is(u, Starting)' /\ ~Is(u, InStart)' /\ ~Is(u, Running)'
                          /\ ~Is(u, {"stopping"})' /\ ~Is(u, {"building"})'
  BY RestartIs DEF Is, Starting, InStart, Running
<1>5. Alone' /\ Registered' /\ Drained'
  BY <1>1, <1>4 DEF Alone, Registered, Drained
<1> QED
  BY <1>2, <1>3, <1>5 DEF IInv
-----------------------------------------------------------------------------

(* The invariant holds at the start ...                                    *)
LEMMA InitIInv == Init => IInv
<1> SUFFICES ASSUME Init PROVE IInv
  OBVIOUS
<1>1. /\ NewCall \in Call /\ NewCall.phase = "none" /\ NewCall.announced = None
  BY VoiceAssumption DEF NewCall, Call, Phases, Reasons
<1>2. TypeOK
  <2>1. restarts \in 0 .. MaxRestarts
    BY VoiceAssumption DEF Init
  <2> QED
    BY <1>1, <2>1 DEF Init, TypeOK
<1>3. Unannounced /\ LastWords
  BY <1>1 DEF Init, Unannounced, LastWords
<1>4. \A u \in Sessions : /\ ~Is(u, InStart) /\ ~Is(u, Running)
                          /\ ~Is(u, {"stopping"}) /\ ~Is(u, {"building"})
  BY <1>1 DEF Init, Is, InStart, Running
<1>5. Alone /\ Registered /\ Drained
  BY <1>4 DEF Init, Alone, Registered, Drained
<1> QED
  BY <1>2, <1>3, <1>5 DEF IInv

(* ... is kept by every step ...                                           *)
LEMMA NextIInv == IInv /\ [Next]_vars => IInv'
<1> SUFFICES ASSUME IInv, [Next]_vars PROVE IInv'
  OBVIOUS
<1>1. ASSUME NEW s \in Sessions, CallNext(s)
      PROVE  IInv'
  <2>1. CASE start(s)
    BY <2>1, StartKeeps
  <2>2. CASE \/ offer(s) \/ stop_returns(s) \/ stop_raises(s)
             \/ start_raises(s) \/ start_returns(s)
    BY <2>2, BeginsKeeps
  <2>3. CASE PeerDrops(s) \/ _on_drop(s) \/ _on_idle(s) \/ FarewellOver(s) \/ _watchdog(s)
    BY <2>3, QuietSteps, QuietKeeps
  <2>4. CASE \/ \E crashed \in BOOLEAN : _run(s, crashed)
             \/ _finalise(s) \/ finalise_raises(s)
    BY <2>4, EndsKeeps
  <2> QED
    BY <1>1, <2>1, <2>2, <2>3, <2>4 DEF CallNext
<1>2. CASE _abandon_after_grace \/ InterviewCloses
  BY <1>2, QuietSteps, QuietKeeps
<1>3. CASE stop_all
  BY <1>3, StopAllKeeps
<1>4. CASE Exit \/ ApiCrash
  BY <1>4, RestartKeeps DEF Exit, ApiCrash, IInv, LastWords
<1>5. CASE UNCHANGED vars
  <2>1. Quiet /\ drain' = drain
    BY <1>5 DEF vars, Quiet, IInv, TypeOK
  <2> QED
    BY <2>1, QuietKeeps
<1> QED
  BY <1>1, <1>2, <1>3, <1>4, <1>5 DEF Next

(* ... and so always.                                                      *)
LEMMA Invariance == Spec => []IInv
BY InitIInv, NextIInv, PTL DEF Spec
-----------------------------------------------------------------------------
(* What a step looks like from outside: a call that moves is offered, goes *)
(* live, ends or vanishes, and the others stay.                            *)
LEMMA SeenAs ==
  ASSUME NEW s \in Sessions, NEW stage, Stage'[s] = stage,
         \A u \in Sessions \ {s} : Stage'[u] = Stage[u]
  PROVE  Stage' = [Stage EXCEPT ![s] = stage]
<1>1. \A u \in Sessions : Stage'[u] = [Stage EXCEPT ![s] = stage][u]
  BY DEF Stage
<1> QED
  BY <1>1 DEF Stage

(* Calls that vanish unannounced, as the contract allows.                  *)
LEMMA VanishIs ==
  ASSUME NEW lost \in SUBSET Sessions,
         \A u \in lost : Stage[u] \in {"offered", "live"} /\ Stage'[u] = "over",
         \A u \in Sessions \ lost : Stage'[u] = Stage[u],
         Announced' = Announced
  PROVE  Contract!Next
<1>1. Stage' = [u \in Sessions |-> IF u \in lost THEN "over" ELSE Stage[u]]
  <2>1. \A u \in Sessions : Stage'[u] = IF u \in lost THEN "over" ELSE Stage[u]
    OBVIOUS
  <2> QED
    BY <2>1 DEF Stage
<1>2. Contract!Vanish(lost)
  BY <1>1 DEF Contract!Vanish
<1> QED
  BY <1>2 DEF Contract!Next

(* One call vanishes.                                                      *)
LEMMA OneVanishes ==
  ASSUME NEW s \in Sessions, Stage[s] \in {"offered", "live"}, Stage'[s] = "over",
         \A u \in Sessions \ {s} : Stage'[u] = Stage[u],
         Announced' = Announced
  PROVE  Contract!Next
<1>1. PICK lost \in SUBSET Sessions : lost = {s}
  OBVIOUS
<1> QED
  BY <1>1, VanishIs

(* The stage a call that has moved is in, and that the others have kept.   *)
LEMMA MovedStage ==
  ASSUME NEW s \in Sessions, NEW phase \in Phases, Moves(s, phase)
  PROVE  /\ \A u \in Sessions \ {s} : Stage'[u] = Stage[u] /\ Announced'[u] = Announced[u]
         /\ Announced'[s] = call'[s].announced
         /\ phase \in Starting => Stage'[s] = "offered"
         /\ phase \in Running \cup {"uploading"} => Stage'[s] = "live"
         /\ phase \in {"failed", "over", "lost"} => Stage'[s] = "over"
BY DEF Moves, Stage, Announced, Starting, InStart, Running, Phases

(* What was announced is a function of the calls.                          *)
LEMMA SameAnnounced ==
  ASSUME \A u \in Sessions : Announced'[u] = Announced[u]
  PROVE  Announced' = Announced
BY DEF Announced

(* Every step of the calls is a step of the contract, or is not seen.      *)
LEMMA StepImplements ==
  ASSUME IInv, [Next]_vars
  PROVE  [Contract!Next]_<<Stage, Announced>>
<1>1. ASSUME NEW s \in Sessions, offer(s)
      PROVE  Contract!Next
  <2>1. Moves(s, "connecting") /\ call'[s].announced = call[s].announced
    BY <1>1, MoveSteps
  <2>2. Stage[s] = "none" /\ "connecting" \in Phases /\ "connecting" \in Starting
    BY <1>1 DEF offer, Stage, Starting, InStart, Running, Phases
  <2>3. Announced' = Announced
    BY <2>1, <2>2, MovedStage, StageIs, SameAnnounced
  <2>4. Contract!Offer(s)
    BY <2>1, <2>2, <2>3, MovedStage, SeenAs DEF Contract!Offer
  <2> QED
    BY <2>4 DEF Contract!Next
<1>10. ASSUME NEW s \in Sessions, start(s)
      PROVE  Stage' = Stage /\ Announced' = Announced
  <2>1. call[s].phase \in Starting /\ call'[s].phase \in Starting
    BY <1>10, StartIs DEF Starting, InStart
  <2>2. Stage'[s] = Stage[s]
    BY <2>1 DEF Stage, Starting, InStart, Running
  <2>3. \A u \in Sessions \ {s} : Stage'[u] = Stage[u]
    BY <1>10, StartIs DEF Stage, Is, Starting, InStart, Running
  <2>4. \A u \in Sessions : Announced'[u] = Announced[u]
    BY <1>10, StartIs DEF Announced
  <2> QED
    BY <2>2, <2>3, <2>4 DEF Stage, Announced
<1>2. ASSUME NEW s \in Sessions, stop_returns(s)
      PROVE  Stage' = Stage /\ Announced' = Announced
  <2>1. Moves(s, "building") /\ call'[s].announced = call[s].announced
    BY <1>2, MoveSteps
  <2>2. Stage[s] = "offered" /\ "building" \in Phases /\ "building" \in Starting
    <3>1. call[s].phase = "stopping"
      BY <1>2 DEF stop_returns
    <3> QED
      BY <3>1 DEF Stage, Starting, InStart, Running, Phases
  <2>3. \A u \in Sessions : Stage'[u] = Stage[u] /\ Announced'[u] = Announced[u]
    BY <2>1, <2>2, MovedStage, StageIs
  <2> QED
    BY <2>3 DEF Stage, Announced
<1>3. ASSUME NEW s \in Sessions, stop_raises(s) \/ start_raises(s)
      PROVE  Contract!Next
  <2>1. Moves(s, "failed") /\ call'[s].announced = call[s].announced
    BY <1>3, MoveSteps
  <2>2. Stage[s] = "offered" /\ "failed" \in Phases
    <3>1. call[s].phase \in Starting
      BY <1>3 DEF stop_raises, start_raises, Starting, InStart
    <3> QED
      BY <3>1 DEF Stage, Starting, InStart, Running, Phases
  <2>3. Announced' = Announced
    BY <2>1, <2>2, MovedStage, StageIs, SameAnnounced
  <2> QED
    BY <2>1, <2>2, <2>3, MovedStage, OneVanishes
<1>4. ASSUME NEW s \in Sessions, start_returns(s)
      PROVE  Contract!Next
  <2>1. Moves(s, "live") /\ call'[s].announced = call[s].announced
    BY <1>4, MoveSteps
  <2>2. Stage[s] = "offered" /\ "live" \in Phases /\ "live" \in Running
    BY <1>4 DEF start_returns, Stage, Starting, InStart, Running, Phases
  <2>3. Announced' = Announced
    BY <2>1, <2>2, MovedStage, StageIs, SameAnnounced
  <2>4. Contract!GoLive(s)
    BY <2>1, <2>2, <2>3, MovedStage, SeenAs DEF Contract!GoLive
  <2> QED
    BY <2>4 DEF Contract!Next
<1>5. ASSUME NEW s \in Sessions, NEW crashed \in BOOLEAN, _run(s, crashed)
      PROVE  Stage' = Stage /\ Announced' = Announced
  <2>1. Moves(s, "uploading") /\ call'[s].announced = call[s].announced
    BY <1>5, MoveSteps
  <2>2. Stage[s] = "live" /\ "uploading" \in Phases
    BY <1>5 DEF _run, Stage, Starting, InStart, Running, Phases
  <2>3. \A u \in Sessions : Stage'[u] = Stage[u] /\ Announced'[u] = Announced[u]
    BY <2>1, <2>2, MovedStage, StageIs
  <2> QED
    BY <2>3 DEF Stage, Announced
<1>6. ASSUME NEW s \in Sessions, _finalise(s) \/ finalise_raises(s)
      PROVE  Contract!Next
  <2>1. PICK phase \in {"over", "failed"} :
          /\ Moves(s, phase)
          /\ call'[s].announced # call[s].announced => _finalise(s)
    BY <1>6, MoveSteps
  <2>2. Stage[s] = "live" /\ phase \in Phases /\ call[s].announced = None
    <3>1. Stage[s] = "live" /\ phase \in Phases
      BY <1>6 DEF _finalise, finalise_raises, Stage, Starting, InStart, Running, Phases
    <3> QED
      BY <1>6, <3>1 DEF _finalise, finalise_raises, IInv, Unannounced, Is
  <2>3. /\ Stage'[s] = "over" /\ Announced'[s] = call'[s].announced
        /\ \A u \in Sessions \ {s} : Stage'[u] = Stage[u] /\ Announced'[u] = Announced[u]
    BY <2>1, <2>2, MovedStage
  <2>4. CASE call'[s].announced = None
    <3>1. Announced' = Announced
      BY <2>2, <2>3, <2>4, StageIs, SameAnnounced
    <3> QED
      BY <2>2, <2>3, <3>1, OneVanishes
  <2>5. CASE call'[s].announced # None
    <3>1. PICK reason \in Contract!PublishedReasons : call'[s].announced = reason
      <4>1. call'[s].announced = call[s].reason /\ call[s].reason # SUPERSEDED
        BY <2>1, <2>2, <2>5, MoveSteps
      <4> QED
        BY <4>1 DEF IInv, TypeOK, Call, Reasons, Contract!PublishedReasons
    <3>2. Announced' = [Announced EXCEPT ![s] = reason]
      <4>1. \A u \in Sessions : Announced'[u] = [Announced EXCEPT ![s] = reason][u]
        BY <2>3, <3>1 DEF Announced
      <4> QED
        BY <4>1 DEF Announced
    <3>3. Stage' = [Stage EXCEPT ![s] = "over"]
      BY <2>3, SeenAs
    <3>4. Contract!End(s)
      BY <2>2, <3>2, <3>3 DEF Contract!End
    <3> QED
      BY <3>4 DEF Contract!Next
  <2> QED
    BY <2>4, <2>5
<1>7. CASE Exit \/ ApiCrash
  <2>1. Restarted
    BY <1>7 DEF Exit, ApiCrash
  <2>2. Announced' = Announced
    BY <2>1, RestartIs DEF Announced
  <2>3. PICK lost \in SUBSET Sessions :
          lost = {u \in Sessions : call[u].phase \in Starting \cup Running \cup {"uploading"}}
    OBVIOUS
  <2>4. \A u \in lost : Stage[u] \in {"offered", "live"} /\ Stage'[u] = "over"
    BY <2>1, <2>3, RestartIs DEF Stage, Starting, InStart, Running
  <2>5. \A u \in Sessions \ lost : Stage'[u] = Stage[u]
    BY <2>1, <2>3, RestartIs DEF Stage, Starting, InStart, Running
  <2> QED
    BY <2>2, <2>4, <2>5, VanishIs
<1>8. CASE \/ \E s \in Sessions : PeerDrops(s) \/ _on_drop(s) \/ _on_idle(s)
                                  \/ FarewellOver(s) \/ _watchdog(s)
           \/ _abandon_after_grace \/ InterviewCloses \/ stop_all
  BY <1>8, QuietSteps, StopAllKeeps, QuietIsUnseen
<1>9. CASE UNCHANGED vars
  BY <1>9 DEF vars, Stage, Announced
<1> QED
  BY <1>1, <1>2, <1>3, <1>4, <1>5, <1>6, <1>7, <1>8, <1>9, <1>10 DEF Next, CallNext
-----------------------------------------------------------------------------
(* Every field of every call, the registry and the shutdown are what their *)
(* types say: the check-ins stay within voice_max_idle_nudges.             *)
THEOREM TypeCorrect == Spec => []TypeOK
<1>1. IInv => TypeOK
  BY DEF IInv
<1> QED
  BY <1>1, Invariance, PTL

(* However offers, timers, drops, crashes and shutdowns race, the voice    *)
(* module publishes an end only for a call that went live, once, and with  *)
(* a reason that the interview service knows.                              *)
THEOREM CallsKeepTheContract == Spec => ImplementsContract
<1>1. Init => Contract!Init
  <2>1. ASSUME Init, NEW s \in Sessions
        PROVE  Stage[s] = "none" /\ Announced[s] = Contract!None
    <3>1. call[s].phase = "none" /\ call[s].announced = None
      BY <2>1 DEF Init, NewCall
    <3> QED
      BY <3>1 DEF Stage, Starting, InStart, Running, Announced, None, Contract!None
  <2> QED
    BY <2>1 DEF Stage, Announced, Contract!Init
<1>2. IInv /\ [Next]_vars => [Contract!Next]_<<Stage, Announced>>
  BY StepImplements
<1> QED
  BY <1>1, <1>2, Invariance, PTL DEF Spec, ImplementsContract, Contract!Spec

(* Until two start()s have met, or one has gone on before the call it      *)
(* stopped was over, the registry names the running call: what only knows  *)
(* the interview reaches it.                                               *)
THEOREM RunningIsRegistered == Spec => []LiveIsRegistered
<1>1. IInv => LiveIsRegistered
  BY DEF IInv, Registered, LiveIsRegistered, InPhase, Is
<1> QED
  BY <1>1, Invariance, PTL

(* When the process exits of a shutdown, no call is being started, and one *)
(* that still runs is the one stop_all has told to end and waited for.     *)
THEOREM ExitIsClean == Spec => CleanExit
<1>1. ASSUME IInv, Exit, ~tangled, NEW s \in InPhase(Starting \cup Running)
      PROVE  s = drain /\ call[s].phase = "ending"
  <2>1. Drained /\ drain # "no"
    BY <1>1 DEF IInv, Exit
  <2>2. s \in Sessions /\ (Is(s, Starting) \/ Is(s, Running))
    BY <1>1 DEF InPhase, Is
  <2> QED
    BY <2>1, <2>2 DEF Drained, Is
<1>2. IInv /\ [Next]_vars =>
        [Exit /\ ~tangled =>
           \A s \in InPhase(Starting \cup Running) :
             s = drain /\ call[s].phase = "ending"]_vars
  BY <1>1
<1> QED
  BY <1>2, Invariance, PTL DEF Spec, CleanExit
=============================================================================
