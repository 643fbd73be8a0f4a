----------------------------- MODULE BatchJobs -----------------------------
(***************************************************************************)
(* The batch jobs of the gateway (src/app.py): a client submits a batch and  *)
(* polls it, the gateway asks Ray how the job is, and when it has succeeded *)
(* loads its output, settles the status, stores a record of every item and  *)
(* counts the job for the reliability metric.                               *)
(*                                                                         *)
(* The handlers await nothing and so are atomic; the uploads of records run *)
(* on their own.  The table of jobs lives in the memory of one replica.     *)
(***************************************************************************)
EXTENDS Integers

CONSTANTS
    Batches,    \* the batches, each with a client of its own
    ItemCount,  \* items per batch
    MaxPolls    \* MAX_POLL_ATTEMPTS of the client

ASSUME BatchJobsAssumption ==
    /\ ItemCount \in Nat \ {0}
    /\ MaxPolls \in Nat \ {0}

Items == 1..ItemCount

VARIABLES
    ray,        \* the Ray job: "none", or its JobStatus
    output,     \* per item what the output file holds, once there is one
    known,      \* the batches in JOBS
    status,     \* BatchJob.status, a BatchJobStatus
    entry,      \* per item: "pending", or what has been loaded
    saving,     \* the uploads in flight: <<batch, item, entry>>
    stored,     \* per batch, the items with a record of their response
    errRecord,  \* per batch, the item in the one error record; 0 if there is none
    reliable,   \* per batch, the values of batch_reliability emitted
    client,     \* "new", "polling", or how it ended: "told", "gaveup", "failed"
    told,       \* the status in the last reply to the client
    polls       \* how often the client has polled

jobs == <<known, status, entry>>
records == <<saving, stored, errRecord, reliable>>
clients == <<client, told, polls>>
jobVars == <<ray, output, jobs, records, clients>>

\* What can be read off a line of the output: an item has the one field or the other, or
\* neither if its response is null, {} or [].
Parsed == {"response", "error", "empty"}
Outcomes == Parsed \cup {"malformed"}
Terminal == {"completed", "failed", "cancelled"}
NoEntries == [i \in Items |-> "pending"]

JobsInit ==
    /\ ray = [b \in Batches |-> "none"]
    /\ output = [b \in Batches |-> NoEntries]
    /\ known = {}
    /\ status = [b \in Batches |-> "pending"]
    /\ entry = [b \in Batches |-> NoEntries]
    /\ saving = {}
    /\ stored = [b \in Batches |-> {}]
    /\ errRecord = [b \in Batches |-> 0]
    /\ reliable = [b \in Batches |-> {}]
    /\ client = [b \in Batches |-> "new"]
    /\ told = [b \in Batches |-> "none"]
    /\ polls = [b \in Batches |-> 0]

-----------------------------------------------------------------------------
(* create_batch.  The job is registered first: a submission that raises leaves *)
(* one in JOBS whose id nobody has been told.                                *)

Submit(b) ==
    /\ client[b] = "new"
    /\ known' = known \cup {b}
    /\ \E submitted, answered \in BOOLEAN :
          /\ answered => submitted
          /\ ray' = IF submitted THEN [ray EXCEPT ![b] = "PENDING"] ELSE ray
          /\ client' = [client EXCEPT ![b] = IF answered THEN "polling" ELSE "failed"]
    /\ UNCHANGED <<output, status, entry, records, told, polls>>

-----------------------------------------------------------------------------
(* get_batch, for a batch that is in JOBS.  r is the reply. *)

\* Mutant of LoadRaises: a response that does not parse is passed over.
LoadRaisesNever(b) == FALSE

\* from_wire raises on a response that is not of its shape.
LoadRaises(b) == \E i \in Items : output[b][i] = "malformed"

\* _load_output fills the items in order, up to the response that raises.
Loaded(b) ==
    [i \in Items |-> IF \E k \in 1..i : output[b][k] = "malformed"
                     THEN entry[b][i] ELSE output[b][i]]

\* Mutant of FinalStatus: the errors are counted before the output is loaded.
FinalStatusEarly(b) ==
    IF \E i \in Items : entry[b][i] = "error" THEN "failed" ELSE "completed"

\* failed_count counts the items in error; one with neither field is not among them.
FinalStatus(b) ==
    IF \E i \in Items : Loaded(b)[i] = "error" THEN "failed" ELSE "completed"

\* emit_batch_metrics compares the value of the status with "COMPLETED".
Counted(b, s) ==
    reliable' = [reliable EXCEPT ![b] = @ \cup {IF s = "COMPLETED" THEN 1 ELSE 0}]

\* _finalize_status: every time but after a full success.
Finalize(b, r) ==
    /\ entry' = [entry EXCEPT ![b] = Loaded(b)]
    /\ IF LoadRaises(b)
       THEN r = "500" /\ UNCHANGED <<status, records>>
       ELSE /\ r = FinalStatus(b)
            /\ status' = [status EXCEPT ![b] = r]
            /\ saving' = saving \cup {<<b, i, Loaded(b)[i]>> : i \in Items}
            /\ Counted(b, r)
            /\ UNCHANGED <<stored, errRecord>>

\* Mutant of NewStatus: a stopped job is forgotten.
NewStatusUnstopped(b) ==
    CASE ray[b] = "FAILED" -> "failed"
      [] ray[b] = "RUNNING" /\ status[b] = "pending" -> "running"
      [] OTHER -> status[b]

\* What _update_state makes of the other states of a Ray job.
NewStatus(b) ==
    CASE ray[b] = "FAILED" -> "failed"
      [] ray[b] = "STOPPED" -> "cancelled"
      [] ray[b] = "RUNNING" /\ status[b] = "pending" -> "running"
      [] OTHER -> status[b]

Follow(b, r) ==
    /\ r = NewStatus(b)
    /\ status' = [status EXCEPT ![b] = r]
    /\ IF r \in Terminal THEN Counted(b, r) ELSE UNCHANGED reliable
    /\ UNCHANGED <<entry, saving, stored, errRecord>>

GetBatch(b, r) ==
    /\ UNCHANGED <<ray, output, known>>
    /\ \/ r = "404" /\ b \notin known /\ UNCHANGED <<jobs, records>>
       \/ r = "500" /\ b \in known /\ UNCHANGED <<jobs, records>>
       \/ /\ b \in known
          /\ IF ray[b] = "SUCCEEDED" /\ status[b] # "completed"
             THEN Finalize(b, r) ELSE Follow(b, r)

Replies == {"404", "500", "pending", "running"} \cup Terminal

-----------------------------------------------------------------------------
(* poll_batch_job: any failed request ends the client. *)

Poll(b) ==
    /\ client[b] = "polling"
    /\ polls' = [polls EXCEPT ![b] = @ + 1]
    /\ \E r \in Replies :
          /\ GetBatch(b, r)
          /\ told' = [told EXCEPT ![b] = r]
          /\ client' = [client EXCEPT ![b] =
                 IF r \in {"404", "500"} THEN "failed"
                 ELSE IF r \in Terminal THEN "told"
                 ELSE IF polls'[b] = MaxPolls THEN "gaveup" ELSE "polling"]

\* The reply is lost, or somebody else who has the id asks for the batch.
PollUnheard(b) ==
    /\ client[b] \notin {"new", "failed"}
    /\ \E r \in Replies : GetBatch(b, r)
    /\ \E lost \in BOOLEAN :
          client' = IF lost /\ client[b] = "polling"
                    THEN [client EXCEPT ![b] = "failed"] ELSE client
    /\ UNCHANGED <<told, polls>>

-----------------------------------------------------------------------------
(* Ray, the uploads, and a restart of the replica. *)

RayMoves(b) ==
    /\ \/ ray[b] = "PENDING" /\ ray' = [ray EXCEPT ![b] = "RUNNING"] /\ UNCHANGED output
       \/ /\ ray[b] = "RUNNING"
          /\ ray' = [ray EXCEPT ![b] = "SUCCEEDED"]
          /\ \E out \in [Items -> Outcomes] : output' = [output EXCEPT ![b] = out]
       \/ /\ ray[b] \in {"PENDING", "RUNNING"}
          /\ \E end \in {"FAILED", "STOPPED"} : ray' = [ray EXCEPT ![b] = end]
          /\ UNCHANGED output
    /\ UNCHANGED <<jobs, records, clients>>

\* A record of an item without a response has the key err-<job>, whichever item it is.
Upload(u) ==
    /\ u \in saving
    /\ saving' = saving \ {u}
    /\ \/ UNCHANGED <<stored, errRecord>>
       \/ /\ u[3] = "response"
          /\ stored' = [stored EXCEPT ![u[1]] = @ \cup {u[2]}]
          /\ UNCHANGED errRecord
       \/ /\ u[3] # "response"
          /\ errRecord' = [errRecord EXCEPT ![u[1]] = u[2]]
          /\ UNCHANGED stored
    /\ UNCHANGED <<ray, output, jobs, reliable, clients>>

GatewayRestart ==
    /\ known' = {}
    /\ status' = [b \in Batches |-> "pending"]
    /\ entry' = [b \in Batches |-> NoEntries]
    /\ saving' = {}
    /\ UNCHANGED <<ray, output, stored, errRecord, reliable, clients>>

JobsNext ==
    \/ \E b \in Batches : Submit(b) \/ Poll(b) \/ PollUnheard(b) \/ RayMoves(b)
    \/ \E u \in saving : Upload(u)
    \/ GatewayRestart

JobsSpec == JobsInit /\ [][JobsNext]_jobVars

-----------------------------------------------------------------------------
(* Properties. *)

JobsTypeOK ==
    /\ ray \in [Batches -> {"none", "PENDING", "RUNNING", "SUCCEEDED", "FAILED", "STOPPED"}]
    /\ output \in [Batches -> [Items -> Outcomes \cup {"pending"}]]
    /\ known \in SUBSET Batches
    /\ status \in [Batches -> {"pending", "running"} \cup Terminal]
    /\ entry \in [Batches -> [Items -> Parsed \cup {"pending"}]]
    /\ saving \in SUBSET (Batches \X Items \X Parsed)
    /\ stored \in [Batches -> SUBSET Items]
    /\ errRecord \in [Batches -> Items \cup {0}]
    /\ reliable \in [Batches -> SUBSET {0, 1}]
    /\ client \in [Batches -> {"new", "polling", "told", "gaveup", "failed"}]
    /\ told \in [Batches -> Replies \cup {"none"}]
    /\ polls \in [Batches -> 0..MaxPolls]

\* What a client is told at the end is what happened, however often and by whomever the
\* job was polled: "completed" only of a job whose whole output was read and has no item in
\* error.  That every item has a response is not promised: one may have neither field.
ToldAgrees ==
    \A b \in Batches :
        /\ told[b] = "completed" =>
               ray[b] = "SUCCEEDED" /\ \A i \in Items : output[b][i] \in {"response", "empty"}
        /\ told[b] = "failed" => \/ ray[b] = "FAILED"
                                 \/ \E i \in Items : output[b][i] = "error"
        /\ told[b] = "cancelled" => ray[b] = "STOPPED"

\* The same as a promise to the client: however the job is loaded, finalized, forgotten in a
\* restart and polled by others, its client hears of one end, the one the job came to, and
\* never of an end when the output cannot be read.
Outcome(b) ==
    IF ray[b] = "FAILED" THEN "failed"
    ELSE IF ray[b] = "STOPPED" THEN "cancelled"
    ELSE IF ray[b] # "SUCCEEDED" THEN "open"
    ELSE IF \E i \in Items : output[b][i] = "malformed" THEN "unreadable"
    ELSE IF \E i \in Items : output[b][i] = "error" THEN "failed" ELSE "completed"

Promise == INSTANCE BatchPromise
              WITH outcome <- [b \in Batches |-> Outcome(b)],
                   heard <- [b \in Batches |-> IF told[b] \in Terminal THEN told[b]
                                                                      ELSE "nothing"]

KeepsPromise == Promise!PromiseSpec

\* The stored records are of a job whose output was read to its end, and each is stored as
\* what its line of the output is: under an id of its own if that has a response, under
\* err-<job> if it has none, be it in error or empty.
RecordsAgree ==
    \A b \in Batches :
        /\ stored[b] # {} \/ errRecord[b] # 0
               => \A i \in Items : output[b][i] # "malformed"
        /\ \A i \in stored[b] : output[b][i] = "response"
        /\ errRecord[b] # 0 => output[b][errRecord[b]] \in {"error", "empty"}

\* A client that polls a job Ray has finished with is done polling: it is told the end
\* or gets an error.
PolledEndSettles ==
    [][\A b \in Batches :
          /\ ray[b] \in {"SUCCEEDED", "FAILED", "STOPPED"}
          /\ polls'[b] > polls[b]
          => client'[b] \in {"told", "failed"}]_jobVars

\* The metric batch_reliability counts the completed jobs as reliable: the service level
\* objective of README.md and the indicator of test/test_slo.py rest on it.
CompletedCountsReliable ==
    \A b \in Batches : told[b] = "completed" => 1 \in reliable[b]

=============================================================================
