----------------------------- MODULE RecapTimer -----------------------------
(***************************************************************************)
(* The recap scheduler of server/src/recap.ts, for one meeting code: the   *)
(* grace timer armed when the call room empties, the runs of               *)
(* runRecapForMeeting that timers and field recordings start, the          *)
(* meetings.call_started_at column that marks the session window, and the  *)
(* "recap:status" spinner every participant sees.                          *)
(*                                                                         *)
(* A run is asynchronous: it reads its window when it starts, awaits the   *)
(* transcription and the extraction, stores the recap and clears           *)
(* call_started_at in one synchronous stretch, awaits the criticality      *)
(* judgement, and only then is reported as done.  Each stretch between two *)
(* awaits is one action here.                                              *)
(***************************************************************************)
EXTENDS Naturals

CONSTANTS
    Users,      \* the people of the meeting
    Runs,       \* run slots: the bound on recap runs in progress at once
    NoTimer     \* the value of "pending" when no timer is armed

ASSUME TimerAssumption == \A S \in SUBSET Users : S # NoTimer

VARIABLES
    pending,    \* the armed timer's sessionUserIds, or NoTimer
    started,    \* call_started_at IS NOT NULL
    spinner,    \* the last recap:status broadcast was "generating"
    run         \* run[k]: how far the recap run in slot k has come

timerVars == <<pending, started, spinner, run>>

Stages == {"idle", "working", "saved"}

TimerTypeOK ==
    /\ pending = NoTimer \/ pending \in SUBSET Users
    /\ started \in BOOLEAN
    /\ spinner \in BOOLEAN
    /\ run \in [Runs -> Stages]

TimerInit ==
    /\ pending = NoTimer
    /\ started = FALSE
    /\ spinner = FALSE
    /\ run = [k \in Runs |-> "idle"]

-----------------------------------------------------------------------------
(* What the call room calls.                                               *)

\* markCallStarted: COALESCE keeps the start of a session still open.
MarkCallStarted == started' = TRUE

\* Mutant: the spinner is cleared, the timer is not.
CancelSpinnerOnly ==
    /\ pending' = pending
    /\ spinner' = (spinner /\ pending = NoTimer)

\* cancelScheduledRecap: "cleared" is broadcast only if a timer was armed.
CancelScheduledRecap ==
    /\ pending' = NoTimer
    /\ spinner' = (spinner /\ pending = NoTimer)

\* scheduleRecap: drop the armed timer, broadcast "generating", arm anew.
ScheduleRecap(session) ==
    /\ pending' = session
    /\ spinner' = TRUE

-----------------------------------------------------------------------------
(* The scheduler's own steps.                                              *)

StartRun == \E k \in Runs : run[k] = "idle" /\ run' = [run EXCEPT ![k] = "working"]

\* Mutant: the timer's callback does not start the run.
TimerDropped ==
    /\ pending # NoTimer
    /\ pending' = NoTimer
    /\ UNCHANGED <<started, spinner, run>>

\* The grace period ends with the room still empty.
TimerFires ==
    /\ pending # NoTimer
    /\ StartRun
    /\ pending' = NoTimer
    /\ UNCHANGED <<started, spinner>>

\* The recap row is stored and the session consumed; then inferCritical.
RunSaves(k) ==
    /\ run[k] = "working"
    /\ run' = [run EXCEPT ![k] = "saved"]
    /\ started' = FALSE
    /\ UNCHANGED <<pending, spinner>>

\* Mutant: a run that saved nothing ends without a status.
RunEndsSilently(k) ==
    /\ \/ run[k] = "saved" /\ started' = started /\ spinner' = FALSE
       \/ run[k] = "working" /\ started' \in {started, FALSE} /\ spinner' = spinner
    /\ run' = [run EXCEPT ![k] = "idle"]
    /\ UNCHANGED pending

\* The run's promise settles: after the save ("done"), before it with nothing
\* to summarise or an exception ("skipped", "done"; the window stays open), or
\* with every line already in the ledger (the session is consumed).
RunEnds(k) ==
    /\ \/ run[k] = "saved" /\ started' = started
       \/ run[k] = "working" /\ started' \in {started, FALSE}
    /\ run' = [run EXCEPT ![k] = "idle"]
    /\ spinner' = FALSE
    /\ UNCHANGED pending

\* A face-to-face recording begins: it only opens the session window.
FieldStart ==
    /\ MarkCallStarted
    /\ UNCHANGED <<pending, spinner, run>>

\* ... and ends: the armed timer is dropped and a run starts at once.
FieldFinish ==
    /\ StartRun
    /\ pending' = NoTimer
    /\ spinner' = TRUE
    /\ UNCHANGED started
=============================================================================
