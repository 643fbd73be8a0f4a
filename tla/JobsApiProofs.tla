--------------------------- MODULE JobsApiProofs ---------------------------
(***************************************************************************)
(* Proofs about JobsApi, for any limit, any window, any programs and a      *)
(* clock without bound.                                                     *)
(***************************************************************************)
EXTENDS JobsApi, FiniteSetTheorems, TLAPS

-----------------------------------------------------------------------------
(* The window is the end of the history of admissions, and what it has let go is stale:
   the strengthening WindowBound is inductive with. *)

RateTypeOK ==
    /\ clock \in Nat
    /\ window \in Seq(Nat)
    /\ admits \in Seq(Nat)

WindowIsSuffix ==
    /\ Len(window) <= Len(admits)
    /\ \A i \in 1..Len(window) : window[i] = admits[Len(admits) - Len(window) + i]

LetGoIsStale == \A i \in 1..(Len(admits) - Len(window)) : Stale(admits[i])

RateInv ==
    /\ RateTypeOK
    /\ Len(window) <= Limit
    /\ WindowIsSuffix
    /\ LetGoIsStale
    /\ WindowBound

\* After m requests are popped the window is still the end of the history, and what is
\* not in it is stale.
LEMMA KeptIsSuffix ==
    ASSUME RateInv, NEW m \in 0..Len(window), Popped(m)
    PROVE  /\ Kept(m) \in Seq(Nat)
           /\ Len(Kept(m)) = Len(window) - m
           /\ \A i \in 1..Len(Kept(m)) :
                 Kept(m)[i] = admits[Len(admits) - Len(Kept(m)) + i]
           /\ \A i \in 1..(Len(admits) - Len(Kept(m))) : Stale(admits[i])
<1> USE DEF RateInv, RateTypeOK, WindowIsSuffix, LetGoIsStale
<1>1. Kept(m) \in Seq(Nat) /\ Len(Kept(m)) = Len(window) - m
  BY DEF Kept
<1>2. \A i \in 1..Len(Kept(m)) : Kept(m)[i] = window[m + i]
  BY <1>1 DEF Kept
<1>3. ASSUME NEW i \in 1..Len(Kept(m))
      PROVE  Kept(m)[i] = admits[Len(admits) - Len(Kept(m)) + i]
  <2>1. m + i \in 1..Len(window)
    BY <1>1
  <2> QED
    BY <1>1, <1>2, <2>1
<1>4. ASSUME NEW i \in 1..(Len(admits) - Len(Kept(m)))
      PROVE  Stale(admits[i])
  <2>1. CASE i <= Len(admits) - Len(window)
    BY <2>1
  <2>2. CASE i > Len(admits) - Len(window)
    <3> DEFINE k == i - (Len(admits) - Len(window))
    <3>1. k \in 1..m /\ k \in 1..Len(window) /\ i = Len(admits) - Len(window) + k
      BY <1>1, <2>2
    <3>2. window[k] = admits[i]
      BY <3>1
    <3> QED
      BY <3>1, <3>2 DEF Popped
  <2> QED
    BY <1>1, <2>1, <2>2
<1> QED
  BY <1>1, <1>3, <1>4

LEMMA LenOfAppend ==
    ASSUME NEW s \in Seq(Nat), NEW e \in Nat
    PROVE  Append(s, e) \in Seq(Nat) /\ Len(Append(s, e)) = Len(s) + 1
OBVIOUS

LEMMA NextOrLess ==
    ASSUME NEW a \in Int, NEW b \in Int, a <= b + 1
    PROVE  a = b + 1 \/ a <= b
OBVIOUS

LEMMA AdmitKeepsRate ==
    ASSUME RateInv, Admit, UNCHANGED clock
    PROVE  RateInv'
<1> USE JobsApiAssumption DEF RateTypeOK
<1>1. PICK m \in 0..Len(window) :
        /\ Popped(m)
        /\ Len(window) - m < Limit
        /\ window' = Append(Kept(m), clock)
        /\ admits' = Append(admits, clock)
  BY DEF Admit
<1>2. /\ Kept(m) \in Seq(Nat)
      /\ Len(Kept(m)) = Len(window) - m
      /\ \A i \in 1..Len(Kept(m)) :
            Kept(m)[i] = admits[Len(admits) - Len(Kept(m)) + i]
      /\ \A i \in 1..(Len(admits) - Len(Kept(m))) : Stale(admits[i])
  BY <1>1, KeptIsSuffix
<1>0. /\ clock \in Nat /\ window \in Seq(Nat) /\ admits \in Seq(Nat)
      /\ Len(admits) \in Nat /\ Len(Kept(m)) \in Nat /\ Limit \in Nat /\ Window \in Nat
  BY <1>2 DEF RateInv
<1>3. RateTypeOK' /\ Len(window') = Len(Kept(m)) + 1 /\ Len(admits') = Len(admits) + 1
  <2>1. window' \in Seq(Nat) /\ Len(window') = Len(Kept(m)) + 1
    BY <1>0, <1>1, <1>2, LenOfAppend
  <2>2. admits' \in Seq(Nat) /\ Len(admits') = Len(admits) + 1
    BY <1>0, <1>1, LenOfAppend
  <2> QED
    BY <1>0, <2>1, <2>2
<1>4. /\ \A i \in 1..Len(admits) : admits'[i] = admits[i]
      /\ admits'[Len(admits) + 1] = clock
      /\ \A i \in 1..Len(Kept(m)) : window'[i] = Kept(m)[i]
      /\ window'[Len(Kept(m)) + 1] = clock
  BY <1>1, <1>2 DEF RateInv
<1>5. Len(Kept(m)) <= Len(admits) /\ Len(window') <= Limit
  BY <1>1, <1>2, <1>3 DEF RateInv, WindowIsSuffix
<1>6. WindowIsSuffix'
  <2>1. ASSUME NEW i \in 1..Len(window')
        PROVE  window'[i] = admits'[Len(admits') - Len(window') + i]
    <3>1. CASE i = Len(Kept(m)) + 1
      <4>1. Len(admits') - Len(window') + i = Len(admits) + 1
        BY <1>0, <1>3, <3>1
      <4> QED
        BY <1>4, <3>1, <4>1
    <3>2. CASE i \in 1..Len(Kept(m))
      <4>1. /\ Len(admits) - Len(Kept(m)) + i \in 1..Len(admits)
            /\ Len(admits') - Len(window') + i = Len(admits) - Len(Kept(m)) + i
        BY <1>0, <1>3, <1>5, <3>2
      <4> QED
        BY <1>2, <1>4, <3>2, <4>1
    <3> QED
      BY <1>2, <1>3, <3>1, <3>2
  <2> QED
    BY <1>3, <1>5, <2>1 DEF WindowIsSuffix
<1>7. LetGoIsStale'
  <2> SUFFICES ASSUME NEW i \in 1..(Len(admits') - Len(window'))
               PROVE  admits'[i] < clock' - Window
    BY DEF LetGoIsStale, Stale
  <2>1. i \in 1..(Len(admits) - Len(Kept(m))) /\ i \in 1..Len(admits)
    BY <1>0, <1>3, <1>5
  <2> QED
    BY <1>2, <1>4, <2>1 DEF Stale
<1>8. WindowBound'
  <2> SUFFICES ASSUME NEW i \in 1..(Len(admits') - Limit)
               PROVE  admits'[i + Limit] - admits'[i] > Window
    BY DEF WindowBound
  <2>1. CASE i + Limit = Len(admits) + 1
    <3>1. i \in 1..(Len(admits) - Len(Kept(m))) /\ i \in 1..Len(admits)
      BY <1>1, <1>2, <1>3, <1>5, <2>1 DEF RateInv
    <3>2. Stale(admits[i]) /\ admits[i] \in Nat
      BY <1>2, <3>1 DEF RateInv
    <3> QED
      BY <1>4, <2>1, <3>1, <3>2 DEF Stale, RateInv
  <2>2. CASE i + Limit <= Len(admits)
    <3>1. i \in 1..(Len(admits) - Limit) /\ i \in 1..Len(admits) /\ i + Limit \in 1..Len(admits)
      BY <1>3, <2>2 DEF RateInv
    <3> QED
      BY <1>4, <3>1 DEF WindowBound, RateInv
  <2> QED
    <3>1. i \in Int /\ i + Limit <= Len(admits) + 1
      BY <1>0, <1>3
    <3>2. i + Limit = Len(admits) + 1 \/ i + Limit <= Len(admits)
      BY <1>0, <3>1, NextOrLess
    <3> QED
      BY <2>1, <2>2, <3>2
<1> QED
  BY <1>3, <1>5, <1>6, <1>7, <1>8 DEF RateInv

LEMMA RefuseKeepsRate ==
    ASSUME RateInv, Refuse, UNCHANGED clock
    PROVE  RateInv'
<1> USE JobsApiAssumption DEF RateTypeOK
<1>1. PICK m \in 0..Len(window) : Popped(m) /\ window' = Kept(m) /\ UNCHANGED admits
  BY DEF Refuse
<1>2. /\ Kept(m) \in Seq(Nat)
      /\ Len(Kept(m)) = Len(window) - m
      /\ \A i \in 1..Len(Kept(m)) :
            Kept(m)[i] = admits[Len(admits) - Len(Kept(m)) + i]
      /\ \A i \in 1..(Len(admits) - Len(Kept(m))) : Stale(admits[i])
  BY <1>1, KeptIsSuffix
<1> QED
  BY <1>1, <1>2 DEF RateInv, WindowIsSuffix, LetGoIsStale, Stale, WindowBound

-----------------------------------------------------------------------------

\* What Ray says of a job is no refusal.
JobTypeOK ==
    /\ job \in [Programs -> Statuses \cup {"none"}]
    /\ reply \in [Programs -> Statuses \cup
                    {"none", "accepted", "failed", "denied", "refused", "logs"}]

LEMMA JobTypeInit == ApiInit => JobTypeOK
BY DEF ApiInit, JobTypeOK

LEMMA JobTypeStep == JobTypeOK /\ [ApiNext]_apiVars => JobTypeOK'
<1> SUFFICES ASSUME JobTypeOK, [ApiNext]_apiVars
             PROVE  JobTypeOK'
  OBVIOUS
<1> USE DEF JobTypeOK, Statuses
<1>1. ASSUME NEW p \in Programs, Serve(p)
      PROVE  JobTypeOK'
  BY <1>1 DEF Serve, Handle, Answer
<1>2. ASSUME NEW p \in Programs, Take(p) \/ Lose(p) \/ JobMoves(p)
      PROVE  JobTypeOK'
  BY <1>2 DEF Take, Lose, JobMoves, Answer
<1>3. CASE Visit \/ GatewayRestart \/ Tick \/ UNCHANGED apiVars
  BY <1>3 DEF Visit, GatewayRestart, Tick, apiVars
<1> QED
  BY <1>1, <1>2, <1>3 DEF ApiNext, ProgramStep

LEMMA RateInit == ApiInit => RateInv
BY JobsApiAssumption
   DEF ApiInit, RateInv, RateTypeOK, WindowIsSuffix, LetGoIsStale, WindowBound

LEMMA RateStep == RateInv /\ [ApiNext]_apiVars => RateInv'
<1> SUFFICES ASSUME RateInv, [ApiNext]_apiVars
             PROVE  RateInv'
  OBVIOUS
<1> USE DEF RateInv, RateTypeOK, WindowIsSuffix, LetGoIsStale, Stale, WindowBound
<1>1. ASSUME UNCHANGED <<clock, window, admits>>
      PROVE  RateInv'
  BY <1>1
<1>2. ASSUME NEW p \in Programs, Serve(p)
      PROVE  RateInv'
  BY <1>2, AdmitKeepsRate, RefuseKeepsRate DEF Serve
<1>3. CASE Visit
  BY <1>3, AdmitKeepsRate, RefuseKeepsRate DEF Visit
<1>4. CASE GatewayRestart
  BY <1>4, JobsApiAssumption DEF GatewayRestart
<1>5. CASE Tick
  BY <1>5, JobsApiAssumption DEF Tick, rate
<1>6. ASSUME NEW p \in Programs, Take(p) \/ Lose(p) \/ JobMoves(p)
      PROVE  RateInv'
  BY <1>1, <1>6 DEF Take, Lose, JobMoves, rate
<1>7. CASE UNCHANGED apiVars
  BY <1>1, <1>7 DEF apiVars, rate
<1> QED
  BY <1>2, <1>3, <1>4, <1>5, <1>6, <1>7 DEF ApiNext, ProgramStep

\* However requests are spread over time and callers, no Limit + 1 of one life of the
\* gateway are admitted within the window.
THEOREM WindowBounded == ApiSpec => []WindowBound
<1>1. RateInv => WindowBound
  BY DEF RateInv
<1> QED
  BY <1>1, RateInit, RateStep, PTL DEF ApiSpec

\* A request is refused only when the limit has been admitted within the window.
THEOREM RefusalsAreForced == ApiSpec => RefusalsForced
<1>1. ASSUME RateInv, JobTypeOK, [ApiNext]_apiVars, NEW p \in Programs,
             reply'[p] = "refused", reply[p] # "refused"
      PROVE  /\ Len(admits) >= Limit
             /\ admits[Len(admits) - Limit + 1] >= clock - Window
  <2> USE JobsApiAssumption
  <2>1. Refuse
    <3>1. ASSUME NEW q \in Programs, Serve(q)
          PROVE  Refuse
      <4>1. CASE Handle(q)
        BY <1>1, <4>1 DEF Handle, Answer, JobTypeOK, Statuses
      <4> QED
        BY <3>1, <4>1 DEF Serve
    <3>2. ASSUME NEW q \in Programs, Take(q) \/ Lose(q) \/ JobMoves(q)
          PROVE  FALSE
      BY <1>1, <3>2 DEF Take, Lose, JobMoves, Answer, JobTypeOK
    <3>3. CASE Visit \/ GatewayRestart \/ Tick \/ UNCHANGED apiVars
      BY <1>1, <3>3 DEF Visit, GatewayRestart, Tick, apiVars
    <3> QED
      BY <1>1, <3>1, <3>2, <3>3 DEF ApiNext, ProgramStep
  <2>2. PICK m \in 0..Len(window) : Popped(m) /\ Len(window) - m >= Limit
    BY <2>1 DEF Refuse
  <2>3. m = 0 /\ Len(window) = Limit
    BY <1>1, <2>2 DEF RateInv, RateTypeOK
  <2>4. Len(admits) >= Limit /\ window[1] = admits[Len(admits) - Limit + 1]
    BY <1>1, <2>3 DEF RateInv, RateTypeOK, WindowIsSuffix
  <2> QED
    BY <1>1, <2>2, <2>3, <2>4 DEF Popped, Stale, RateInv, RateTypeOK
<1>2. RateInv /\ JobTypeOK /\ [ApiNext]_apiVars =>
        [\A p \in Programs : reply'[p] = "refused" /\ reply[p] # "refused" =>
          /\ Len(admits) >= Limit
          /\ admits[Len(admits) - Limit + 1] >= clock - Window]_apiVars
  BY <1>1
<1> QED
  BY <1>2, RateInit, RateStep, JobTypeInit, JobTypeStep, PTL DEF ApiSpec, RefusalsForced

-----------------------------------------------------------------------------
(* What a program knows of its job. *)

Terminal == {"SUCCEEDED", "FAILED", "STOPPED"}

ProgramTypeOK ==
    /\ JobTypeOK
    /\ at \in [Programs -> Requests \cup ProgramEnds]
    /\ saw \in [Programs -> Statuses \cup {"none"}]
    /\ checks \in [Programs -> 0..MaxChecks]

\* An answer belongs to the request its program waits on.  A status says nothing of the
\* present unless it is the job's last, and a status that is not was the last poll's.
Knows(p) ==
    /\ reply[p] # "none" => at[p] \in Requests
    /\ reply[p] = "accepted" => at[p] = "submit"
    /\ reply[p] \in Statuses => at[p] = "status"
    /\ reply[p] = "logs" => at[p] = "logs"
    /\ reply[p] = "accepted" \/ at[p] = "status" => job[p] # "none"
    /\ reply[p] \in Terminal => job[p] = reply[p]
    /\ at[p] \in {"logs", "succeeded", "ended"} => saw[p] # "none"
    /\ at[p] \in {"submit", "status"} => saw[p] = "none"
    /\ saw[p] \in Terminal => job[p] = saw[p]
    /\ saw[p] \in {"PENDING", "RUNNING"} => checks[p] = MaxChecks
    /\ at[p] = "succeeded" => saw[p] = "SUCCEEDED"

ProgramInv == ProgramTypeOK /\ \A p \in Programs : Knows(p)

LEMMA ProgramInit == ApiInit => ProgramInv
BY JobsApiAssumption
   DEF ApiInit, ProgramInv, ProgramTypeOK, JobTypeOK, Knows, Requests, Statuses, Terminal

LEMMA ProgramStepTyped == ProgramTypeOK /\ [ApiNext]_apiVars => ProgramTypeOK'
<1> SUFFICES ASSUME ProgramTypeOK, [ApiNext]_apiVars PROVE ProgramTypeOK'
  OBVIOUS
<1>0. JobTypeOK'
  BY JobTypeStep DEF ProgramTypeOK
<1> USE <1>0 DEF ProgramTypeOK
<1>1. ASSUME NEW p \in Programs, Serve(p) \/ JobMoves(p) PROVE ProgramTypeOK'
  BY <1>1 DEF Serve, JobMoves, program
<1>2. ASSUME NEW p \in Programs, Take(p) PROVE ProgramTypeOK'
  BY <1>2, JobsApiAssumption
     DEF Take, Goes, Polled, NextCheck, Requests, ProgramEnds, Statuses
<1>3. ASSUME NEW p \in Programs, Lose(p) PROVE ProgramTypeOK'
  BY <1>3 DEF Lose, Goes, Requests, ProgramEnds
<1>4. CASE Visit \/ GatewayRestart \/ Tick \/ UNCHANGED apiVars
  BY <1>4 DEF Visit, GatewayRestart, Tick, apiVars, program
<1> QED
  BY <1>1, <1>2, <1>3, <1>4 DEF ApiNext, ProgramStep

\* A step of one program, or of its job, tells the others nothing.
LEMMA OthersKnow ==
    ASSUME NEW p \in Programs, Knows(p),
           UNCHANGED <<job[p], at[p], reply[p], saw[p], checks[p]>>
    PROVE  Knows(p)'
BY DEF Knows

LEMMA KnowsStep == ProgramInv /\ [ApiNext]_apiVars => \A p \in Programs : Knows(p)'
<1> SUFFICES ASSUME ProgramInv, [ApiNext]_apiVars, NEW p \in Programs PROVE Knows(p)'
  OBVIOUS
<1> USE DEF ProgramInv, ProgramTypeOK, JobTypeOK
<1>1. ASSUME NEW q \in Programs, q # p, ProgramStep(q) \/ JobMoves(q) PROVE Knows(p)'
  <2>1. UNCHANGED <<job[p], at[p], reply[p], saw[p], checks[p]>>
    BY <1>1 DEF ProgramStep, Serve, Handle, Take, Polled, Lose, JobMoves, Answer, Goes, program
  <2> QED
    BY <2>1, OthersKnow
<1>2. CASE Serve(p)
  <2>1. at[p] \in Requests /\ reply[p] = "none" /\ UNCHANGED <<at, saw, checks>>
    BY <1>2 DEF Serve, program
  <2>2. CASE Handle(p)
    BY <2>1, <2>2 DEF Handle, Answer, Knows, Requests, Statuses, Terminal
  <2>3. CASE Answer(p, "refused") /\ UNCHANGED job
    BY <2>1, <2>3 DEF Answer, Knows, Requests, Statuses, Terminal
  <2> QED
    BY <1>2, <2>2, <2>3 DEF Serve
<1>3. CASE Take(p)
  <2>1. reply[p] # "none" /\ reply' = [reply EXCEPT ![p] = "none"] /\ UNCHANGED job
    BY <1>3 DEF Take, Answer
  <2>2. CASE reply[p] = "accepted" /\ Goes(p, "status") /\ UNCHANGED <<saw, checks>>
    BY <2>1, <2>2 DEF Goes, Knows, Statuses, Terminal
  <2>3. CASE reply[p] \in Statuses /\ Polled(p, reply[p])
    <3>1. CASE IsTerminal(reply[p]) \/ checks[p] = MaxChecks
      BY <2>1, <2>3, <3>1 DEF Polled, IsTerminal, Goes, Knows, Statuses, Terminal
    <3>2. CASE ~(IsTerminal(reply[p]) \/ checks[p] = MaxChecks)
      BY <2>1, <2>3, <3>2 DEF Polled, Knows, Statuses, Terminal
    <3> QED
      BY <3>1, <3>2
  <2>4. CASE /\ reply[p] = "logs"
             /\ Goes(p, IF saw[p] = "SUCCEEDED" THEN "succeeded" ELSE "ended")
             /\ UNCHANGED <<saw, checks>>
    BY <2>1, <2>4 DEF Goes, Knows, Statuses, Terminal
  <2>5. CASE Goes(p, "error") /\ UNCHANGED <<saw, checks>>
    BY <2>1, <2>5 DEF Goes, Knows, Statuses, Terminal
  <2> QED
    BY <1>3, <2>2, <2>3, <2>4, <2>5 DEF Take
<1>4. CASE Lose(p)
  BY <1>4 DEF Lose, Goes, Answer, Knows, Requests, Statuses, Terminal
<1>5. CASE JobMoves(p)
  BY <1>5 DEF JobMoves, program, Knows, Statuses, Terminal
<1>6. CASE Visit \/ GatewayRestart \/ Tick \/ UNCHANGED apiVars
  BY <1>6, OthersKnow DEF Visit, GatewayRestart, Tick, apiVars, program
<1> QED
  BY <1>1, <1>2, <1>3, <1>4, <1>5, <1>6 DEF ApiNext, ProgramStep

\* What submit_ray_job.py prints of its job is so, for any number of polls and whatever
\* the job, the gateway and the other programs do in between.
THEOREM VerdictIsSo == ApiSpec => []VerdictHolds
<1>1. ProgramInv => VerdictHolds
  <2> SUFFICES ASSUME ProgramInv, NEW p \in Programs
               PROVE  /\ at[p] = "succeeded" => job[p] = "SUCCEEDED"
                      /\ at[p] = "ended" =>
                            \/ job[p] = saw[p]
                            \/ saw[p] \in {"PENDING", "RUNNING"} /\ checks[p] = MaxChecks
    BY DEF VerdictHolds
  <2> QED
    BY DEF ProgramInv, ProgramTypeOK, Knows, Terminal, Statuses
<1>2. ProgramInv /\ [ApiNext]_apiVars => ProgramInv'
  BY ProgramStepTyped, KnowsStep DEF ProgramInv
<1> QED
  BY <1>1, <1>2, ProgramInit, PTL DEF ApiSpec

-----------------------------------------------------------------------------
(* Progress: the measure behind ProgramsEnd. *)

LEMMA ProgramAdvances ==
    ASSUME ProgramInv, [ApiNext]_apiVars, NEW p \in Programs
    PROVE  \/ UNCHANGED <<at[p], checks[p], reply[p]>>
           \/ Distance(p)' < Distance(p)
<1>0. /\ at \in [Programs -> Requests \cup ProgramEnds]
      /\ checks \in [Programs -> 0..MaxChecks] /\ MaxChecks \in Nat
      /\ JobTypeOK /\ Knows(p)
  BY JobsApiAssumption DEF ProgramInv, ProgramTypeOK
<1> DEFINE Stays == UNCHANGED <<at[p], checks[p], reply[p]>>
<1>1. /\ HalfLeft(p) \in 1..2 /\ HalfLeft(p)' \in 1..2
      /\ PollsLeft(p) = 2 * (MaxChecks - checks[p]) + 2 /\ PollsLeft(p) >= 2
  BY <1>0 DEF HalfLeft, PollsLeft
<1>2. ASSUME at[p] \in Requests, at'[p] \in ProgramEnds PROVE Distance(p)' < Distance(p)
  BY <1>0, <1>1, <1>2 DEF Distance, Requests, ProgramEnds
<1>3. ASSUME NEW q \in Programs, q # p, ProgramStep(q) \/ JobMoves(q) PROVE Stays
  BY <1>0, <1>3 DEF JobTypeOK, ProgramStep, Serve, Handle, Take, Polled, Lose, JobMoves,
                    Answer, Goes, program
<1>4. CASE Serve(p)
  <2>1. /\ at[p] \in Requests /\ reply[p] = "none"
        /\ UNCHANGED <<at, checks>>
    BY <1>4 DEF Serve, program
  <2>2. reply'[p] # "none"
    BY <1>0, <1>4 DEF Serve, Handle, Answer, Knows, JobTypeOK
  <2>3. HalfLeft(p) = 2 /\ HalfLeft(p)' = 1
    BY <2>1, <2>2 DEF HalfLeft
  <2> QED
    BY <1>0, <1>1, <2>1, <2>3 DEF Distance, PollsLeft, Requests, ProgramEnds
<1>5. CASE Take(p)
  <2>1. reply[p] # "none" /\ reply'[p] = "none"
    BY <1>0, <1>5 DEF Take, Answer, JobTypeOK
  <2>2. HalfLeft(p) = 1 /\ HalfLeft(p)' = 2
    BY <2>1 DEF HalfLeft
  <2>3. \/ at[p] = "submit" /\ at'[p] = "status" /\ checks'[p] = checks[p]
        \/ at[p] = "status" /\ at'[p] = "logs"
        \/ /\ at[p] = "status" /\ at'[p] = "status"
           /\ checks[p] # MaxChecks /\ checks'[p] = checks[p] + 1
        \/ at[p] \in Requests /\ at'[p] \in ProgramEnds
        \/ at[p] \in ProgramEnds
    BY <1>0, <1>5, <2>1
       DEF Take, Polled, Goes, NextCheck, Knows, Requests, ProgramEnds, Statuses
  <2>4. at[p] \notin ProgramEnds
    BY <1>0, <2>1 DEF Knows, Requests, ProgramEnds
  <2>5. CASE at[p] = "submit" /\ at'[p] = "status" /\ checks'[p] = checks[p]
    BY <1>0, <2>2, <2>5 DEF Distance, PollsLeft, ProgramEnds
  <2>6. CASE at[p] = "status" /\ at'[p] = "logs"
    BY <1>0, <1>1, <2>2, <2>6 DEF Distance, ProgramEnds
  <2>7. CASE /\ at[p] = "status" /\ at'[p] = "status"
             /\ checks[p] # MaxChecks /\ checks'[p] = checks[p] + 1
    BY <1>0, <2>2, <2>7 DEF Distance, PollsLeft, ProgramEnds
  <2> QED
    BY <1>2, <2>3, <2>4, <2>5, <2>6, <2>7
<1>6. CASE Lose(p)
  BY <1>0, <1>2, <1>6 DEF Lose, Goes, ProgramEnds
<1>7. CASE JobMoves(p) \/ Visit \/ GatewayRestart \/ Tick \/ UNCHANGED apiVars
  BY <1>7 DEF JobMoves, Visit, GatewayRestart, Tick, apiVars, program
<1> QED
  BY <1>3, <1>4, <1>5, <1>6, <1>7 DEF ApiNext, ProgramStep

\* What keeps a program from polling for ever, for any number of polls: every step it or
\* the gateway takes for it brings it nearer to its end, whatever the job, the window and
\* the other programs do.  With the fairness of its steps it is why ProgramsEnd holds.
THEOREM ProgramsDoAdvance == ApiSpec => ProgramsAdvance
<1>1. ProgramInv /\ [ApiNext]_apiVars =>
        [\A p \in Programs : \/ UNCHANGED <<at[p], checks[p], reply[p]>>
                             \/ Distance(p)' < Distance(p)]_apiVars
  BY ProgramAdvances
<1>2. ProgramInv /\ [ApiNext]_apiVars => ProgramInv'
  BY ProgramStepTyped, KnowsStep DEF ProgramInv
<1> QED
  BY <1>1, <1>2, ProgramInit, PTL DEF ApiSpec, ProgramsAdvance

-----------------------------------------------------------------------------
(* The refinement of SlidingWindow. *)

\* The history is in the order of time.
InTime ==
    /\ \A i \in 1..Len(admits) : admits[i] <= clock
    /\ \A i, j \in 1..Len(admits) : i <= j => admits[i] <= admits[j]

TimeInv == RateInv /\ InTime

LEMMA TimeInit == ApiInit => TimeInv
BY RateInit DEF ApiInit, TimeInv, InTime

LEMMA TimeStep == TimeInv /\ [ApiNext]_apiVars => TimeInv'
<1> SUFFICES ASSUME TimeInv, [ApiNext]_apiVars PROVE InTime'
  BY RateStep DEF TimeInv
<1>0. clock \in Nat /\ admits \in Seq(Nat)
  BY DEF TimeInv, RateInv, RateTypeOK
<1> USE DEF InTime
<1>1. ASSUME Admit, UNCHANGED clock PROVE InTime'
  <2>1. admits' = Append(admits, clock)
    BY <1>1 DEF Admit
  <2>2. /\ Len(admits') = Len(admits) + 1
        /\ \A i \in 1..Len(admits) : admits'[i] = admits[i]
        /\ admits'[Len(admits) + 1] = clock
    BY <1>0, <2>1
  <2>3. \A i \in 1..Len(admits') : i \in 1..Len(admits) \/ i = Len(admits) + 1
    BY <1>0, <2>2
  <2>4. \A i \in 1..Len(admits') : admits'[i] <= clock'
    BY <1>0, <1>1, <2>2, <2>3 DEF TimeInv
  <2>5. ASSUME NEW i \in 1..Len(admits'), NEW j \in 1..Len(admits'), i <= j
        PROVE  admits'[i] <= admits'[j]
    <3>1. CASE j = Len(admits) + 1
      BY <1>1, <2>2, <2>4, <3>1
    <3>2. CASE j \in 1..Len(admits)
      <4>1. i \in 1..Len(admits)
        BY <1>0, <2>5, <3>2
      <4> QED
        BY <2>2, <2>5, <3>2, <4>1 DEF TimeInv
    <3> QED
      BY <2>3, <3>1, <3>2
  <2> QED
    BY <2>4, <2>5
<1>2. ASSUME UNCHANGED <<clock, admits>> PROVE InTime'
  BY <1>2 DEF TimeInv
<1>3. ASSUME NEW p \in Programs, ProgramStep(p) \/ JobMoves(p) PROVE InTime'
  BY <1>1, <1>2, <1>3 DEF ProgramStep, Serve, Refuse, Take, Lose, JobMoves, rate
<1>4. CASE Visit
  BY <1>1, <1>2, <1>4 DEF Visit, Refuse
<1>5. CASE GatewayRestart
  BY <1>5 DEF GatewayRestart
<1>6. CASE Tick
  BY <1>0, <1>6 DEF Tick, rate, TimeInv
<1>7. CASE UNCHANGED apiVars
  BY <1>2, <1>7 DEF apiVars, rate
<1> QED
  BY <1>3, <1>4, <1>5, <1>6, <1>7 DEF ApiNext

\* SlidingWindow's copy of Cardinality is that of FiniteSets.
LEMMA SameCardinality == \A S : Limiter!Cardinality(S) = Cardinality(S)
BY DEF Limiter!Cardinality, Cardinality

\* What is left of the list, once it is pruned from its head as far as it goes, is all
\* there is of the history within the Window.
LEMMA KeptIsRecent ==
    ASSUME TimeInv, NEW m \in 0..Len(window), Popped(m)
    PROVE  Limiter!Cardinality(Limiter!Recent) = Len(window) - m
<1> DEFINE first == Len(admits) - (Len(window) - m) + 1
<1>1. /\ clock \in Nat /\ window \in Seq(Nat) /\ admits \in Seq(Nat) /\ Window \in Nat
      /\ Len(window) <= Len(admits)
      /\ \A i \in 1..Len(window) : window[i] = admits[Len(admits) - Len(window) + i]
  BY JobsApiAssumption DEF TimeInv, RateInv, RateTypeOK, WindowIsSuffix
<1>2. /\ first \in 1..(Len(admits) + 1) /\ Len(admits) \in Nat /\ Len(window) \in Nat
      /\ first = Len(admits) - (Len(window) - m) + 1
  BY <1>1
<1>0. ASSUME NEW i \in 1..(first - 1) PROVE Stale(admits[i])
  BY <1>1, KeptIsSuffix DEF TimeInv
<1> HIDE DEF first
<1>3. ASSUME NEW i \in 1..(first - 1) PROVE admits[i] < clock - Window
  BY <1>0 DEF Stale
<1>4. ASSUME NEW i \in first..Len(admits) PROVE admits[i] >= clock - Window
  <2>1. m < Len(window) /\ m + 1 \in 1..Len(window) /\ i \in 1..Len(admits)
    BY <1>1, <1>2
  <2>2. window[m + 1] = admits[first] /\ first \in 1..Len(admits) /\ first <= i
    BY <1>1, <1>2, <2>1
  <2>3. ~(admits[first] < clock - Window)
    BY <2>1, <2>2 DEF Popped, Stale
  <2>4. admits[first] <= admits[i]
    BY <2>1, <2>2 DEF TimeInv, InTime
  <2>5. admits[first] \in Nat /\ admits[i] \in Nat
    BY <1>1, <2>1, <2>2
  <2> QED
    BY <1>1, <2>3, <2>4, <2>5
<1>5. Limiter!Recent = first..Len(admits)
  <2>1. ASSUME NEW i \in 1..Len(admits)
        PROVE  admits[i] >= clock - Window <=> i \in first..Len(admits)
    <3>1. admits[i] \in Nat /\ (i \in 1..(first - 1) \/ i \in first..Len(admits))
      BY <1>1, <1>2
    <3>2. CASE i \in 1..(first - 1)
      BY <1>1, <1>2, <1>3, <3>1, <3>2
    <3>3. CASE i \in first..Len(admits)
      BY <1>4, <3>3
    <3> QED
      BY <3>1, <3>2, <3>3
  <2>2. first..Len(admits) \subseteq 1..Len(admits)
    BY <1>2
  <2> QED
    BY <2>1, <2>2 DEF Limiter!Recent
<1>6. Cardinality(first..Len(admits)) = Len(window) - m
  <2>1. first \in Int /\ Len(admits) \in Int
    BY <1>2
  <2>2. Cardinality(first..Len(admits))
           = IF first > Len(admits) THEN 0 ELSE Len(admits) - first + 1
    BY <2>1, FS_Interval, Zenon
  <2> QED
    BY <1>2, <2>2
<1> QED
  BY <1>5, <1>6, SameCardinality

\* An admission and a refusal, by which the abstract limit is known.
LEMMA AdmitIsAllowed ==
    ASSUME TimeInv, Admit, UNCHANGED clock,
           UNCHANGED {p \in Programs : reply[p] = "refused"}
    PROVE  Limiter!AdmitOne
<1>1. PICK m \in 0..Len(window) :
        Popped(m) /\ Len(window) - m < Limit /\ admits' = Append(admits, clock)
  BY DEF Admit
<1> QED
  BY <1>1, KeptIsRecent DEF Limiter!AdmitOne

LEMMA RefuseIsForced ==
    ASSUME TimeInv, Refuse
    PROVE  Limiter!Cardinality(Limiter!Recent) >= Limit /\ UNCHANGED admits
<1>1. PICK m \in 0..Len(window) :
        Popped(m) /\ Len(window) - m >= Limit /\ UNCHANGED admits
  BY DEF Refuse
<1> QED
  BY <1>1, KeptIsRecent

LEMMA LimiterStep ==
    TimeInv /\ JobTypeOK /\ [ApiNext]_apiVars => [Limiter!LimiterNext]_(Limiter!limiter)
<1> SUFFICES ASSUME TimeInv, JobTypeOK, [ApiNext]_apiVars
             PROVE  Limiter!LimiterNext \/ UNCHANGED Limiter!limiter
  OBVIOUS
<1> DEFINE refused == {p \in Programs : reply[p] = "refused"}
<1> USE DEF JobTypeOK, Statuses
<1>1. ASSUME NEW p \in Programs, Serve(p) PROVE Limiter!LimiterNext
  <2>0. reply[p] = "none" /\ UNCHANGED clock
    BY <1>1 DEF Serve
  <2>1. CASE Admit /\ Handle(p)
    <3>1. \E r \in Statuses \cup {"none", "accepted", "failed", "denied", "logs"} :
             reply' = [reply EXCEPT ![p] = r]
      BY <2>1 DEF Handle, Answer
    <3>2. UNCHANGED refused
      BY <2>0, <3>1
    <3> QED
      BY <2>0, <2>1, <3>2, AdmitIsAllowed DEF Limiter!LimiterNext
  <2>2. CASE Refuse /\ Answer(p, "refused")
    <3>1. refused' = refused \cup {p}
      BY <2>2 DEF Answer
    <3>2. Limiter!TurnAway(p)
      BY <2>0, <2>2, <3>1, RefuseIsForced DEF Limiter!TurnAway
    <3> QED
      BY <3>2 DEF Limiter!LimiterNext
  <2> QED
    BY <1>1, <2>1, <2>2 DEF Serve
<1>2. ASSUME NEW p \in Programs, Take(p) \/ Lose(p) PROVE Limiter!LimiterNext
  <2>1. reply' = [reply EXCEPT ![p] = "none"] /\ UNCHANGED <<clock, admits>>
    BY <1>2 DEF Take, Lose, Answer, rate
  <2>2. refused' = refused \ {p}
    BY <2>1
  <2>3. Limiter!Hear(p)
    BY <2>1, <2>2 DEF Limiter!Hear
  <2> QED
    BY <2>3 DEF Limiter!LimiterNext
<1>3. CASE Visit
  <2>1. UNCHANGED <<clock, reply>> /\ UNCHANGED refused
    BY <1>3 DEF Visit
  <2>2. CASE Admit
    BY <2>1, <2>2, AdmitIsAllowed DEF Limiter!LimiterNext
  <2>3. CASE Refuse
    BY <2>1, <2>3 DEF Refuse, Limiter!limiter
  <2> QED
    BY <1>3, <2>2, <2>3 DEF Visit
<1>4. CASE GatewayRestart
  BY <1>4 DEF GatewayRestart, Limiter!StartAgain, Limiter!LimiterNext
<1>5. CASE Tick
  BY <1>5 DEF Tick, rate, Limiter!Pass, Limiter!LimiterNext
<1>6. CASE (\E p \in Programs : JobMoves(p)) \/ UNCHANGED apiVars
  BY <1>6 DEF JobMoves, apiVars, rate, Limiter!limiter
<1> QED
  BY <1>1, <1>2, <1>3, <1>4, <1>5, <1>6 DEF ApiNext, ProgramStep

\* The list of time stamps that every request prunes is the sliding window it stands for:
\* for any limit and window and whoever asks, a request is admitted exactly when fewer
\* than Limit of the history are within the Window, and one refused counts for nothing.
THEOREM ImplementsWindow == ApiSpec => KeepsWindow
<1>1. ApiInit => Limiter!LimiterInit
  BY DEF ApiInit, Limiter!LimiterInit
<1> QED
  BY <1>1, TimeInit, TimeStep, JobTypeInit, JobTypeStep, LimiterStep, PTL
     DEF ApiSpec, KeepsWindow, Limiter!LimiterSpec

=============================================================================
