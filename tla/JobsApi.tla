------------------------------ MODULE JobsApi ------------------------------
(***************************************************************************)
(* The job endpoints of the gateway (src/app.py) and submit_ray_job.py, the  *)
(* program that submits a Ray job through them, polls it and fetches its    *)
(* logs.  Every endpoint that asks for the API key first takes a place in   *)
(* one sliding window of requests, which all callers share: the polls of    *)
(* these programs, those of the dashboard, and requests that then turn out  *)
(* to have no valid key.                                                    *)
(*                                                                         *)
(* A request is handled in one step; its answer reaches the program later,  *)
(* or never.  The sleep between two polls is left out: a program may poll   *)
(* at any time.  The clock does not go backwards.                           *)
(***************************************************************************)
EXTENDS Integers, Sequences

CONSTANTS
    Programs,   \* the runs of submit_ray_job.py, one job each
    Keyed,      \* those that send the API key of the gateway
    Limit,      \* how many requests the window holds (15)
    Window,     \* how long a request stays in it, in seconds (10)
    MaxChecks,  \* the polls of wait_for_job that sleep (15); one more follows
    Horizon     \* bound: the clock stops here

ASSUME JobsApiAssumption ==
    /\ Keyed \subseteq Programs
    /\ Limit \in Nat \ {0}
    /\ Window \in Nat
    /\ MaxChecks \in Nat
    /\ Horizon \in Nat

VARIABLES
    clock,      \* time.time()
    window,     \* REQUEST_COUNTS_RATE
    admits,     \* history: the times of all requests admitted since the gateway started
    job,        \* the status of each program's job in Ray
    at,         \* the request a program waits on, or how it ended
    reply,      \* the answer of the gateway on its way to the program
    saw,        \* the status wait_for_job has returned
    checks      \* the polls of wait_for_job that found the job running

rate == <<window, admits>>
program == <<at, saw, checks>>
apiVars == <<clock, rate, job, reply, program>>

Statuses == {"PENDING", "RUNNING", "SUCCEEDED", "FAILED", "STOPPED"}
Requests == {"submit", "status", "logs"}
ProgramEnds ==
    { "succeeded",  \* printed SUCCEEDED and the logs
      "ended",      \* raised "Job ... ended in ..."
      "error" }     \* raised at a request that failed

ApiInit ==
    /\ clock = 0
    /\ window = <<>>
    /\ admits = <<>>
    /\ job = [p \in Programs |-> "none"]
    /\ at = [p \in Programs |-> "submit"]
    /\ reply = [p \in Programs |-> "none"]
    /\ saw = [p \in Programs |-> "none"]
    /\ checks = [p \in Programs |-> 0]

-----------------------------------------------------------------------------
(* _check_rate_limit. *)

\* Mutants of Stale: a request leaves the window at its edge; it stays twice as long.
StaleAtEdge(t) == t <= clock - Window
StaleDoubled(t) == t < clock - 2 * Window

Stale(t) == t < clock - Window

\* The loop takes the first m requests off the window, and stops at the first in time.
Popped(m) ==
    /\ \A i \in 1..m : Stale(window[i])
    /\ m < Len(window) => ~Stale(window[m + 1])

Kept(m) == SubSeq(window, m + 1, Len(window))

Admit ==
    \E m \in 0..Len(window) :
        /\ Popped(m)
        /\ Len(window) - m < Limit
        /\ window' = Append(Kept(m), clock)
        /\ admits' = Append(admits, clock)

\* A request that is refused (429) takes no place.
Refuse ==
    \E m \in 0..Len(window) :
        /\ Popped(m)
        /\ Len(window) - m >= Limit
        /\ window' = Kept(m)
        /\ UNCHANGED admits

-----------------------------------------------------------------------------
(* The endpoints. *)

Answer(p, r) == reply' = [reply EXCEPT ![p] = r]

\* What the gateway answers to an admitted request of p: the key is looked at after the
\* window; a submission may raise before Ray has the job or after; a read of Ray
\* that raises is a 404.
Handle(p) ==
    IF p \notin Keyed THEN Answer(p, "denied") /\ UNCHANGED job
    ELSE \/ /\ at[p] = "submit"
            /\ job' = [job EXCEPT ![p] = "PENDING"]
            /\ Answer(p, "accepted") \/ Answer(p, "failed")
         \/ /\ at[p] = "status"
            /\ Answer(p, job[p])
            /\ UNCHANGED job
         \/ /\ at[p] = "logs"
            /\ Answer(p, "logs")
            /\ UNCHANGED job
         \/ Answer(p, "failed") /\ UNCHANGED job

\* create_job, get_job_status, get_job_logs: a request of p is handled.
Serve(p) ==
    /\ at[p] \in Requests
    /\ reply[p] = "none"
    /\ \/ Admit /\ Handle(p)
       \/ Refuse /\ Answer(p, "refused") /\ UNCHANGED job
    /\ UNCHANGED <<clock, program>>

\* Any other request that asks for the key, with a valid one or not: get_nodes for the
\* dashboard above all, which changes nothing else.
Visit ==
    /\ Admit \/ Refuse
    /\ UNCHANGED <<clock, job, reply, program>>

\* The replica of the gateway dies; the next one has an empty window.
GatewayRestart ==
    /\ window' = <<>>
    /\ admits' = <<>>
    /\ UNCHANGED <<clock, job, reply, program>>

-----------------------------------------------------------------------------
(* submit_ray_job.py. *)

Goes(p, a) == at' = [at EXCEPT ![p] = a]

\* Mutant of IsTerminal: only a job that has not started yet is waited for.
IsTerminalStarted(status) == status # "PENDING"

IsTerminal(status) == status \in {"SUCCEEDED", "FAILED", "STOPPED"}

\* Mutant of NextCheck: the polls are not counted.
NextCheckSame(p) == checks[p]

NextCheck(p) == checks[p] + 1

\* wait_for_job: the last poll returns whatever status it reads.
Polled(p, status) ==
    IF IsTerminal(status) \/ checks[p] = MaxChecks
    THEN /\ Goes(p, "logs")
         /\ saw' = [saw EXCEPT ![p] = status]
         /\ UNCHANGED checks
    ELSE /\ checks' = [checks EXCEPT ![p] = NextCheck(p)]
         /\ UNCHANGED <<at, saw>>

\* The program takes the answer.  One that is no 2xx raises, whatever the job does.
Take(p) ==
    /\ reply[p] # "none"
    /\ Answer(p, "none")
    /\ \/ /\ reply[p] = "accepted"
          /\ Goes(p, "status")
          /\ UNCHANGED <<saw, checks>>
       \/ reply[p] \in Statuses /\ Polled(p, reply[p])
       \/ /\ reply[p] = "logs"
          /\ Goes(p, IF saw[p] = "SUCCEEDED" THEN "succeeded" ELSE "ended")
          /\ UNCHANGED <<saw, checks>>
       \/ /\ reply[p] \in {"denied", "refused", "failed"}
          /\ Goes(p, "error")
          /\ UNCHANGED <<saw, checks>>
    /\ UNCHANGED <<clock, rate, job>>

\* The connection breaks or times out, before the request is handled or after, or the
\* answer cannot be parsed: make_request or _parse_json raises.
Lose(p) ==
    /\ at[p] \in Requests
    /\ Goes(p, "error")
    /\ Answer(p, "none")
    /\ UNCHANGED <<clock, rate, job, saw, checks>>

-----------------------------------------------------------------------------

\* A job in Ray moves on, with its program or without.
JobMoves(p) ==
    /\ job[p] \in {"PENDING", "RUNNING"}
    /\ \E st \in Statuses \ {"PENDING", job[p]} : job' = [job EXCEPT ![p] = st]
    /\ UNCHANGED <<clock, rate, reply, program>>

Tick ==
    /\ clock < Horizon
    /\ clock' = clock + 1
    /\ UNCHANGED <<rate, job, reply, program>>

ProgramStep(p) == Serve(p) \/ Take(p) \/ Lose(p)

ApiNext ==
    \/ \E p \in Programs : ProgramStep(p) \/ JobMoves(p)
    \/ Visit \/ GatewayRestart \/ Tick

\* Every request of a program is answered or times out after 60 s.
ApiFairness == \A p \in Programs : WF_apiVars(ProgramStep(p))

ApiSpec == ApiInit /\ [][ApiNext]_apiVars /\ ApiFairness

-----------------------------------------------------------------------------
(* Properties. *)

\* Whoever asks, with a key or without, and whenever the window is looked at: of any
\* Limit + 1 requests admitted in a row by one life of the gateway, the last comes more
\* than Window after the first.
WindowBound ==
    \A i \in 1..(Len(admits) - Limit) : admits[i + Limit] - admits[i] > Window

\* Nobody is refused without need: at a refusal Limit requests have been admitted within
\* the Window.  Requests that were refused themselves do not count against the next.
RefusalsForced ==
    [][\A p \in Programs : reply'[p] = "refused" /\ reply[p] # "refused" =>
          /\ Len(admits) >= Limit
          /\ admits[Len(admits) - Limit + 1] >= clock - Window]_apiVars

\* The list that is pruned from its head, refusals and all, does what SlidingWindow says
\* of the whole history: whoever asks, with a key or without, is admitted or turned away
\* by what the Window holds at that moment and by nothing else.
Limiter == INSTANCE SlidingWindow
              WITH Callers <- Programs, time <- clock, admitted <- admits,
                   refused <- {p \in Programs : reply[p] = "refused"}

KeepsWindow == Limiter!LimiterSpec

\* What a program says of its job is so, though it learned it by polls and the job went
\* on: SUCCEEDED is the end of that job, "ended in" names its end or else the status at
\* the poll after MaxChecks polls that found it running.
VerdictHolds ==
    \A p \in Programs :
        /\ at[p] = "succeeded" => job[p] = "SUCCEEDED"
        /\ at[p] = "ended" =>
              \/ job[p] = saw[p]
              \/ saw[p] \in {"PENDING", "RUNNING"} /\ checks[p] = MaxChecks

\* The steps a program has left at most: two for its logs, two for each poll it may still
\* make, two for its submission; a request whose answer is on its way is half done.
HalfLeft(p) == IF reply[p] = "none" THEN 2 ELSE 1

PollsLeft(p) == 2 * (MaxChecks - checks[p]) + 2

Distance(p) ==
    IF at[p] \in ProgramEnds THEN 0
    ELSE HalfLeft(p) + (IF at[p] = "logs" THEN 0
                        ELSE IF at[p] = "status" THEN PollsLeft(p)
                        ELSE 2 * MaxChecks + 4)

\* A program that moves comes nearer to its end: neither a job that never ends nor a
\* window that is full keeps it at its polls.
ProgramsAdvance ==
    [][\A p \in Programs : \/ UNCHANGED <<at[p], checks[p], reply[p]>>
                           \/ Distance(p)' < Distance(p)]_apiVars

\* Every program ends, however many others fill the window.
ProgramsEnd == \A p \in Programs : <>(at[p] \in ProgramEnds)

=============================================================================
