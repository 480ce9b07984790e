---------------------------- MODULE VoiceSession ----------------------------
(***************************************************************************)
(* The voice calls of one interview: app/modules/voice/session_manager.py. *)
(*                                                                         *)
(* One asyncio loop runs everything, so a step is what happens between two *)
(* awaits.  What makes it hard is that every timer and callback names the  *)
(* interview and not the call: stop() acts on whatever call the registry   *)
(* holds by the time it runs, and _finalise() pops that entry whichever    *)
(* call it belongs to.                                                     *)
(*                                                                         *)
(* Time is left out: a timer that is set may fire at any later moment.     *)
(* The peer connection, the pipeline and uvicorn are external; a step says *)
(* so where it stands for one of them.                                     *)
(***************************************************************************)
EXTENDS Naturals

CONSTANTS
  Sessions,           \* the calls: one per offer the candidate makes
  MaxNudges,          \* voice_max_idle_nudges
  MaxRestarts         \* bound: deploys and crashes of the API process

ASSUME VoiceAssumption ==
  /\ MaxNudges \in Nat
  /\ MaxRestarts \in Nat
  /\ {"None", "no"} \cap Sessions = {}     \* no call is named like the want of one

VARIABLES
  call,         \* the VoiceSession object of each call
  registry,     \* _sessions: the call the interview is registered with
  timer,        \* _pending_abandon: is the grace timer running?
  closed,       \* is the interview terminal in the database?
  drain,        \* "no", or shutting down and waiting for this call (None: for none)
  restarts,     \* how often the process was replaced
  tangled       \* history: two start()s at once, or one that went on before
                \* the call it stopped was over

vars == <<call, registry, timer, closed, drain, restarts, tangled>>
-----------------------------------------------------------------------------
None == "None"

SUPERSEDED == "superseded"

Reasons == {"completed", "abandoned", "timed_out", SUPERSEDED}

(* "connecting" is the offer route before start(), "stopping" and          *)
(* "building" are the two halves of start(); "ending" is a pipeline that   *)
(* has been cancelled and not yet returned, "uploading" the rest of        *)
(* _finalise(); "failed" is a start() or a _finalise() that raised, and    *)
(* "lost" went down with its process.                                      *)
InStart  == {"stopping", "building"}
Starting == {"connecting"} \cup InStart
Running  == {"live", "ending"}
Phases   == {"none", "failed", "uploading", "over", "lost"} \cup Starting \cup Running

Call == [phase : Phases, reason : Reasons,
         peer : {"up", "dropped", "gone"},   \* "gone": dropped before anyone listened
         replaces : {None} \cup Sessions,    \* the call start() stopped for this one
         nudges : 0 .. MaxNudges,            \* _idle_nudges
         farewell : BOOLEAN,                 \* saying goodbye before hanging up
         watched : BOOLEAN,                  \* has the watchdog still to fire?
         announced : {None} \cup Reasons]    \* the reason in its SessionEnded

NewCall == [phase |-> "none", reason |-> "completed", peer |-> "up", replaces |-> None,
            nudges |-> 0, farewell |-> FALSE, watched |-> TRUE,
            announced |-> None]

Init ==
  /\ call = [s \in Sessions |-> NewCall]
  /\ registry = None
  /\ timer = FALSE
  /\ closed = FALSE
  /\ drain = "no"
  /\ restarts = 0
  /\ tangled = FALSE

InPhase(phases) == {s \in Sessions : call[s].phase \in phases}
-----------------------------------------------------------------------------
(* stop(): whatever call is registered now gets the reason and is told to  *)
(* end.  calls is what the caller has already made of the call objects.    *)
Stopped(calls, reason) ==
  IF registry = None THEN calls
  ELSE [calls EXCEPT ![registry].reason = reason,
                     ![registry].phase = IF @ = "live" THEN "ending" ELSE @]
-----------------------------------------------------------------------------
(* start().                                                                *)

(* One timer per interview.                                                *)
_schedule_abandon == ~timer /\ timer' = TRUE

_cancel_pending_abandon == timer' = FALSE

(* Mutant: an offer that arrives during shutdown is taken.                 *)
offer_while_draining(s) ==
  /\ call[s].phase = "none"
  /\ ~closed
  /\ call' = [call EXCEPT ![s].phase = "connecting"]
  /\ UNCHANGED <<registry, timer, closed, drain, restarts, tangled>>

(* The offer route: its checks, then the connection is initialised.        *)
offer(s) ==
  /\ call[s].phase = "none"
  /\ drain = "no" /\ ~closed
  /\ call' = [call EXCEPT ![s].phase = "connecting"]
  /\ UNCHANGED <<registry, timer, closed, drain, restarts, tangled>>

(* The first half of start(): the grace timer is called off and the        *)
(* registered call superseded.  No lock keeps another start() out.         *)
start(s) ==
  /\ call[s].phase = "connecting"
  /\ _cancel_pending_abandon
  /\ call' = [Stopped(call, SUPERSEDED) EXCEPT
                ![s].phase = IF registry = None THEN "building" ELSE "stopping",
                ![s].replaces = registry]
  /\ tangled' = (tangled \/ InPhase(InStart) # {})
  /\ UNCHANGED <<registry, closed, drain, restarts>>

(* Mutant: start() does not wait for the call it stopped.                  *)
stop_returns_at_once(s) ==
  /\ call[s].phase = "stopping"
  /\ call' = [call EXCEPT ![s].phase = "building"]
  /\ UNCHANGED <<registry, timer, closed, drain, restarts, tangled>>

(* stop() returns once the old call is over, or after ten seconds ...      *)
stop_returns(s) ==
  /\ call[s].phase = "stopping"
  /\ call[call[s].replaces].phase # "failed"
  /\ call' = [call EXCEPT ![s].phase = "building"]
  /\ tangled' = (tangled \/ call[call[s].replaces].phase # "over")
  /\ UNCHANGED <<registry, timer, closed, drain, restarts>>

(* ... and passes on what the old call's _finalise() has raised.           *)
stop_raises(s) ==
  /\ call[s].phase = "stopping"
  /\ call[call[s].replaces].phase = "failed"
  /\ call' = [call EXCEPT ![s].phase = "failed"]
  /\ UNCHANGED <<registry, timer, closed, drain, restarts, tangled>>

(* The connection, the context, the checkpoint or the voice raised.        *)
start_raises(s) ==
  /\ call[s].phase \in {"connecting", "building"}
  /\ call' = [call EXCEPT ![s].phase = "failed"]
  /\ UNCHANGED <<registry, timer, closed, drain, restarts, tangled>>

(* Registered and announced in one step.                                   *)
start_returns(s) ==
  /\ call[s].phase = "building"
  /\ call' = [call EXCEPT ![s].phase = "live"]
  /\ registry' = s
  /\ UNCHANGED <<timer, closed, drain, restarts, tangled>>
-----------------------------------------------------------------------------
(* The connection.                                                         *)

(* External: the peer goes away, for good (a rejoin is a new offer).  The  *)
(* handlers are only attached as the call goes live.                       *)
PeerDrops(s) ==
  /\ call[s].peer = "up"
  /\ call[s].phase \in Starting \cup {"live"}
  /\ call' = [call EXCEPT ![s].peer = IF call[s].phase = "live" THEN "dropped" ELSE "gone"]
  /\ UNCHANGED <<registry, timer, closed, drain, restarts, tangled>>

(* _on_drop: a dropped peer fires it up to three times, the teardown of a  *)
(* call once more.                                                         *)
_on_drop(s) ==
  /\ call[s].phase \in Running
  /\ call[s].peer = "dropped" \/ call[s].phase = "ending"
  /\ call[s].reason = "completed"
  /\ _schedule_abandon
  /\ UNCHANGED <<call, registry, closed, drain, restarts, tangled>>

_abandon_after_grace ==
  /\ timer
  /\ timer' = FALSE
  /\ call' = Stopped(call, "abandoned")
  /\ UNCHANGED <<registry, closed, drain, restarts, tangled>>
-----------------------------------------------------------------------------
(* Silence and the time limit.                                             *)

(* on_idle_timeout: a check-in, or the farewell once those are used up.    *)
(* Nothing in the session changes when the candidate speaks.               *)
_on_idle(s) ==
  /\ call[s].phase = "live" /\ ~call[s].farewell
  /\ call' = IF call[s].nudges >= MaxNudges
             THEN [call EXCEPT ![s].farewell = TRUE]
             ELSE [call EXCEPT ![s].nudges = @ + 1]
  /\ UNCHANGED <<registry, timer, closed, drain, restarts, tangled>>

(* The farewell has played for its six seconds.                            *)
FarewellOver(s) ==
  /\ call[s].farewell
  /\ call' = Stopped([call EXCEPT ![s].farewell = FALSE], "abandoned")
  /\ UNCHANGED <<registry, timer, closed, drain, restarts, tangled>>

(* Mutant: the limit is only enforced on a candidate who is still there.   *)
watchdog_if_connected(s) ==
  /\ call[s].phase \in Running /\ call[s].watched
  /\ call[s].peer = "up"
  /\ call' = Stopped([call EXCEPT ![s].watched = FALSE], "timed_out")
  /\ UNCHANGED <<registry, timer, closed, drain, restarts, tangled>>

(* The cap is reached while the pipeline runs.                             *)
_watchdog(s) ==
  /\ call[s].phase \in Running /\ call[s].watched
  /\ call' = Stopped([call EXCEPT ![s].watched = FALSE], "timed_out")
  /\ UNCHANGED <<registry, timer, closed, drain, restarts, tangled>>
-----------------------------------------------------------------------------
(* _run() and _finalise().                                                 *)

(* The pipeline returns: cancelled, or by itself, or with an exception,    *)
(* which is abandonment.  The registry loses its entry, whose ever it is.  *)
_run(s, crashed) ==
  /\ call[s].phase \in Running
  /\ call' = [call EXCEPT ![s].phase = "uploading",
                          ![s].reason = IF crashed THEN "abandoned" ELSE @]
  /\ registry' = None
  /\ timer' = FALSE
  /\ UNCHANGED <<closed, drain, restarts, tangled>>

(* Mutant: every end is announced.                                         *)
finalise_always_announces(s) ==
  /\ call[s].phase = "uploading"
  /\ call' = [call EXCEPT ![s].phase = "over", ![s].announced = call[s].reason]
  /\ UNCHANGED <<registry, timer, closed, drain, restarts, tangled>>

(* Mutant: only a clean end is announced.                                  *)
finalise_announces_clean_ends(s) ==
  /\ call[s].phase = "uploading"
  /\ call' = [call EXCEPT ![s].phase = "over",
                          ![s].announced = IF call[s].reason = "completed"
                                           THEN "completed" ELSE None]
  /\ UNCHANGED <<registry, timer, closed, drain, restarts, tangled>>

(* The upload never raises; a superseded call keeps its checkpoint and is  *)
(* not announced.                                                          *)
_finalise(s) ==
  /\ call[s].phase = "uploading"
  /\ call' = [call EXCEPT ![s].phase = "over",
                          ![s].announced = IF call[s].reason = SUPERSEDED
                                           THEN None ELSE call[s].reason]
  /\ UNCHANGED <<registry, timer, closed, drain, restarts, tangled>>

(* Clearing the checkpoint raises, before the end is announced.            *)
finalise_raises(s) ==
  /\ call[s].phase = "uploading" /\ call[s].reason # SUPERSEDED
  /\ call' = [call EXCEPT ![s].phase = "failed"]
  /\ UNCHANGED <<registry, timer, closed, drain, restarts, tangled>>
-----------------------------------------------------------------------------
(* The interview and the process.                                          *)

(* The interview becomes terminal: an announced end was handled, or a      *)
(* recruiter terminated it.  The calls are not told.                       *)
InterviewCloses ==
  /\ ~closed
  /\ closed' = TRUE
  /\ UNCHANGED <<call, registry, timer, drain, restarts, tangled>>

(* The lifespan's shutdown: uvicorn (external) lets requests finish first, *)
(* then the flag is set and every registered call stopped.                 *)
stop_all ==
  /\ drain = "no" /\ restarts < MaxRestarts
  /\ InPhase(Starting) = {}
  /\ drain' = registry
  /\ call' = Stopped(call, "abandoned")
  /\ UNCHANGED <<registry, timer, closed, restarts, tangled>>

(* The process is gone and with it every call it was serving.              *)
Restarted ==
  /\ call' = [s \in Sessions |->
                IF call[s].phase \in Starting \cup Running \cup {"uploading"}
                THEN [call[s] EXCEPT !.phase = "lost", !.farewell = FALSE]
                ELSE [call[s] EXCEPT !.farewell = FALSE]]
  /\ registry' = None
  /\ timer' = FALSE
  /\ drain' = "no"
  /\ restarts' = restarts + 1
  /\ UNCHANGED <<closed, tangled>>

(* stop_all has returned, because the call it told to end is over or its   *)
(* ten seconds are, and the process exits.                                 *)
Exit == drain # "no" /\ Restarted

ApiCrash == restarts < MaxRestarts /\ Restarted
-----------------------------------------------------------------------------
CallNext(s) ==
  \/ offer(s) \/ start(s) \/ stop_returns(s) \/ stop_raises(s)
  \/ start_raises(s) \/ start_returns(s)
  \/ PeerDrops(s) \/ _on_drop(s)
  \/ _on_idle(s) \/ FarewellOver(s) \/ _watchdog(s)
  \/ \E crashed \in BOOLEAN : _run(s, crashed)
  \/ _finalise(s) \/ finalise_raises(s)

Next ==
  \/ \E s \in Sessions : CallNext(s)
  \/ _abandon_after_grace \/ InterviewCloses \/ stop_all \/ Exit \/ ApiCrash

(* The loop runs what is due: awaited work completes, set timers fire, and *)
(* a cancelled pipeline returns.  Nothing obliges a candidate to speak or  *)
(* to rejoin, a pipeline to end by itself, or a process to restart.        *)
LoopFairness ==
  /\ WF_vars(_abandon_after_grace)
  /\ \A s \in Sessions :
       /\ WF_vars(start(s) \/ start_raises(s))
       /\ WF_vars(stop_returns(s) \/ stop_raises(s))
       /\ WF_vars(start_returns(s) \/ start_raises(s))
       /\ WF_vars(_on_drop(s))
       /\ WF_vars(call[s].phase = "ending" /\ \E crashed \in BOOLEAN : _run(s, crashed))
       /\ WF_vars(_finalise(s) \/ finalise_raises(s))

Spec == Init /\ [][Next]_vars

FairSpec == Spec /\ LoopFairness

(* The watchdog of every call fires at the 45-minute cap.  It is assumed   *)
(* only where a property says so.                                          *)
Watchdogs == \A s \in Sessions : WF_vars(_watchdog(s))
-----------------------------------------------------------------------------
TypeOK ==
  /\ call \in [Sessions -> Call]
  /\ registry \in {None} \cup Sessions
  /\ {timer, closed, tangled} \subseteq BOOLEAN
  /\ drain \in {"no", None} \cup Sessions
  /\ restarts \in 0 .. MaxRestarts
-----------------------------------------------------------------------------
(* Properties of any mix of offers, slow teardowns and failures.           *)

(* What of a call can be seen from outside the voice module.               *)
Stage == [s \in Sessions |->
            CASE call[s].phase = "none" -> "none"
              [] call[s].phase \in Starting -> "offered"
              [] call[s].phase \in Running \cup {"uploading"} -> "live"
              [] OTHER -> "over"]

Announced == [s \in Sessions |-> call[s].announced]

Contract == INSTANCE SessionContract WITH sess <- Stage, announced <- Announced

(* The calls keep the contract the interview service relies on: an end is  *)
(* announced once, only of a call that went live, and never with a reason  *)
(* the service would have to guess at.                                     *)
ImplementsContract == Contract!Spec

-----------------------------------------------------------------------------
(* Properties of calls that start one after the other.                     *)

(* A running call is the registered one: the watchdog, the grace timer and *)
(* a shutdown, which only know the interview, reach it.  It rests on       *)
(* start() finding no other start() under way, and on the call it stopped  *)
(* being over before it goes on.                                           *)
LiveIsRegistered == ~tangled => \A s \in InPhase(Running) : registry = s

(* The process exits with no call being started and none untold: the one   *)
(* that may still be running is the one the shutdown has told to end and   *)
(* has waited for.                                                         *)
CleanExit ==
  [][Exit /\ ~tangled =>
       \A s \in InPhase(Starting \cup Running) :
         s = drain /\ call[s].phase = "ending"]_vars

(* Every call ends: silence, the watchdog or a crash sees to it.           *)
EveryCallEnds ==
  Watchdogs /\ []~tangled =>
    \A s \in Sessions : call[s].phase = "live" ~> call[s].phase # "live"

(* An interview that went live gets an end announced, through whichever of *)
(* its calls, unless a rejoin failed to start, the checkpoint could not be *)
(* cleared or the process was lost.                                        *)
EndAnnounced ==
  Watchdogs /\ []~tangled => \A s \in Sessions :
    call[s].phase = "live" ~> \/ \E u \in Sessions : call[u].announced # None
                              \/ InPhase({"failed", "lost"}) # {}
-----------------------------------------------------------------------------
(* What the documentation says and the code does not do.                   *)

(* "Sessions already running are left alone to finish ... not to cut off   *)
(* current work" (docs/adr/0002-single-process-voice.md:28-30).  The       *)
(* lifespan ends them.                                                     *)
RunningLeftAlone ==
  [][stop_all => \A s \in InPhase({"live"}) : call'[s].phase = "live"]_vars

(* "One live session per interview: a second connection ... replaces the   *)
(* first rather than running alongside it" (session_manager.py:92-93).     *)
(* Two offers answered at once do run alongside.                           *)
OneLiveSession == \A s, u \in InPhase({"live"}) : s = u
=============================================================================
