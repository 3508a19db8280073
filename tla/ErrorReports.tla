------------------------------- MODULE ErrorReports -------------------------------
(***************************************************************************)
(* The reports of errors (Sentry, AppErrorsInterceptor): the service       *)
(* initialises the SDK when it is first needed, which takes a timer, and   *)
(* calls made meanwhile come back by timers of their own.                  *)
(***************************************************************************)
EXTENDS Integers, FiniteSets

CONSTANTS
    Calls           \* calls of Sentry: each is made once

VARIABLES
    enable,         \* SENTRY_ENABLE is '1'
    state,          \* Sentry.state
    inits,          \* how often this process has initialised the SDK
    call            \* the calls

CallStatus == {"none", "initializing", "waiting", "executed", "dropped", "lost"}

ReportsTypeOK ==
    /\ enable \in BOOLEAN
    /\ state \in {"virgin", "initializing", "initialized", "skipped"}
    /\ inits \in Nat
    /\ call \in [Calls -> CallStatus]

ReportsInit ==
    /\ enable \in BOOLEAN
    /\ state = "virgin"
    /\ inits = 0
    /\ call = [e \in Calls |-> "none"]

-----------------------------------------------------------------------------
\* What ensureInitialized makes of a call in each state but the first.
Outcome(s) ==
    CASE s = "skipped" -> "dropped"
      [] s = "initialized" -> "executed"
      [] s = "initializing" -> "waiting"

\* Mutant: the state changes when the SDK is ready only.
InitLate(e) ==
    /\ inits' = inits + 1
    /\ state' = state
    /\ call' = [call EXCEPT ![e] = "initializing"]

\* init: the state changes before the timer is set.
InitSdk(e) ==
    /\ inits' = inits + 1
    /\ state' = "initializing"
    /\ call' = [call EXCEPT ![e] = "initializing"]

EnsureInitialized(e) ==
    /\ \/ state # "virgin" /\ call' = [call EXCEPT ![e] = Outcome(state)] /\ UNCHANGED <<state, inits>>
       \/ state = "virgin" /\ enable /\ InitSdk(e)
       \/ /\ state = "virgin"
          /\ ~enable
          /\ state' = "skipped"
          /\ call' = [call EXCEPT ![e] = "dropped"]
          /\ UNCHANGED inits
    /\ UNCHANGED enable

Report(e) == call[e] = "none" /\ EnsureInitialized(e)

\* The 500 ms of init are over: the call it was for is executed.
Initialized(e) ==
    /\ call[e] = "initializing"
    /\ state' = "initialized"
    /\ call' = [call EXCEPT ![e] = "executed"]
    /\ UNCHANGED <<enable, inits>>

\* Mutant: a call that comes back early is forgotten.
RetryOnce(e) ==
    /\ call[e] = "waiting"
    /\ call' = [call EXCEPT ![e] = IF state = "initialized" THEN "executed" ELSE "dropped"]
    /\ UNCHANGED <<enable, state, inits>>

\* The 300 ms of a call that had to wait are over.
Retry(e) == call[e] = "waiting" /\ EnsureInitialized(e)

\* The process starts anew: its timers are gone.
RestartReports ==
    /\ state' = "virgin"
    /\ inits' = 0
    /\ call' = [e \in Calls |->
                  IF call[e] \in {"initializing", "waiting"} THEN "lost" ELSE call[e]]
    /\ UNCHANGED enable

-----------------------------------------------------------------------------
\* Errors that come together do not initialise the SDK twice, and none is given
\* to an SDK that is not ready.
InitializedOnce ==
    /\ inits <= 1
    /\ (\E e \in Calls : call[e] = "waiting") => state \in {"initializing", "initialized"}

\* With Sentry enabled, every call is executed in the end, whatever the state it
\* met, unless the process stops before.
ReportsArrive ==
    \A e \in Calls :
        call[e] \in {"initializing", "waiting", "dropped"}
            ~> call[e] \in {"executed", "lost"} \/ ~enable
=============================================================================
