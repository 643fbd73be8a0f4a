--------------------------- MODULE SlidingWindow ---------------------------
(***************************************************************************)
(* What the rate limit of the gateway promises (_check_rate_limit in        *)
(* src/app.py), told from the history of admissions alone: a caller is      *)
(* admitted when fewer than Limit requests have been within the Window, and *)
(* turned away when not.  There is no list to keep in order and to prune,   *)
(* and being turned away leaves no trace in the history.                    *)
(***************************************************************************)
EXTENDS Integers, Sequences, FiniteSets

CONSTANTS Limit, Window, Callers

VARIABLES
    time,       \* in seconds
    admitted,   \* the times of all requests admitted in this life of the gateway
    refused     \* the callers that have been turned away and do not know yet

limiter == <<time, admitted, refused>>

Recent == {i \in 1..Len(admitted) : admitted[i] >= time - Window}

LimiterInit ==
    /\ time = 0
    /\ admitted = <<>>
    /\ refused = {}

AdmitOne ==
    /\ Cardinality(Recent) < Limit
    /\ admitted' = Append(admitted, time)
    /\ UNCHANGED <<time, refused>>

TurnAway(c) ==
    /\ Cardinality(Recent) >= Limit
    /\ refused' = refused \cup {c}
    /\ UNCHANGED <<time, admitted>>

\* The caller learns of it, or its connection is lost.
Hear(c) ==
    /\ refused' = refused \ {c}
    /\ UNCHANGED <<time, admitted>>

StartAgain ==
    /\ admitted' = <<>>
    /\ UNCHANGED <<time, refused>>

Pass ==
    /\ time' = time + 1
    /\ UNCHANGED <<admitted, refused>>

LimiterNext ==
    \/ AdmitOne
    \/ \E c \in Callers : TurnAway(c) \/ Hear(c)
    \/ StartAgain
    \/ Pass

LimiterSpec == LimiterInit /\ [][LimiterNext]_limiter

=============================================================================
