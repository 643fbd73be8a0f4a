-------------------------- MODULE BatchJobsProofs --------------------------
(***************************************************************************)
(* Proofs about BatchJobs, for any batches, any number of items and any     *)
(* number of polls.                                                         *)
(***************************************************************************)
EXTENDS BatchJobs, TLAPS

-----------------------------------------------------------------------------
(* The inductive invariant.  An output stands once Ray has finished, so what was read
   off it (an entry, a status, a reply, a record under way or stored) stays true of it. *)

Ended == {"SUCCEEDED", "FAILED", "STOPPED"}

Readable(b) == ray[b] = "SUCCEEDED" /\ \A i \in Items : output[b][i] \in Parsed

\* A status, or a reply, that is final is the outcome of the job.
Agrees(b, s) ==
    /\ s = "completed" => /\ ray[b] = "SUCCEEDED"
                          /\ \A i \in Items : output[b][i] \in {"response", "empty"}
    /\ s = "failed" => \/ ray[b] = "FAILED"
                       \/ Readable(b) /\ \E i \in Items : output[b][i] = "error"
    /\ s = "cancelled" => ray[b] = "STOPPED"

JobInv(b) ==
    /\ client[b] = "new" => ray[b] = "none" /\ polls[b] = 0
    /\ client[b] = "polling" => polls[b] < MaxPolls
    /\ client[b] \in {"new", "polling"} => told[b] \notin Terminal
    /\ ray[b] = "SUCCEEDED" => \A i \in Items : output[b][i] \in Outcomes
    /\ Agrees(b, status[b])
    /\ Agrees(b, told[b])

RecordInv(b) ==
    /\ \A i \in Items, e \in Parsed :
          <<b, i, e>> \in saving => Readable(b) /\ output[b][i] = e
    /\ \A i \in stored[b] : Readable(b) /\ output[b][i] = "response"
    /\ errRecord[b] # 0 => Readable(b) /\ output[b][errRecord[b]] \in {"error", "empty"}

JobsInv == JobsTypeOK /\ \A b \in Batches : JobInv(b) /\ RecordInv(b)

LEMMA JobsInvInit == JobsInit => JobsInv
<1> SUFFICES ASSUME JobsInit PROVE JobsInv
  OBVIOUS
<1> USE BatchJobsAssumption DEF JobsInit
<1>1. JobsTypeOK
  BY DEF JobsTypeOK, NoEntries, Outcomes, Terminal, Replies
<1>2. ASSUME NEW b \in Batches PROVE JobInv(b) /\ RecordInv(b)
  BY DEF JobInv, RecordInv, Agrees, Terminal
<1> QED
  BY <1>1, <1>2 DEF JobsInv

-----------------------------------------------------------------------------
(* get_batch. *)

\* An output that can be read is loaded whole.
LEMMA LoadedWhole ==
    ASSUME JobsInv, NEW b \in Batches, ray[b] = "SUCCEEDED", ~LoadRaises(b)
    PROVE  /\ Readable(b)
           /\ \A i \in Items : Loaded(b)[i] = output[b][i]
<1>1. \A i \in Items : output[b][i] \in Parsed
  BY DEF JobsInv, JobInv, LoadRaises, Outcomes
<1>2. ASSUME NEW i \in Items PROVE Loaded(b)[i] = output[b][i]
  <2>1. \A k \in 1..i : k \in Items
    BY BatchJobsAssumption DEF Items
  <2> QED
    BY <1>1, <2>1 DEF Loaded, Parsed
<1> QED
  BY <1>1, <1>2 DEF Readable

LEMMA LoadedTyped ==
    ASSUME JobsInv, NEW b \in Batches, ray[b] = "SUCCEEDED"
    PROVE  Loaded(b) \in [Items -> Parsed \cup {"pending"}]
<1> SUFFICES ASSUME NEW i \in Items
             PROVE  Loaded(b)[i] \in Parsed \cup {"pending"}
  BY DEF Loaded
<1>1. entry[b][i] \in Parsed \cup {"pending"} /\ output[b][i] \in Outcomes
  BY DEF JobsInv, JobsTypeOK, JobInv
<1>2. i \in 1..i
  BY BatchJobsAssumption DEF Items
<1> QED
  BY <1>1, <1>2 DEF Loaded, Outcomes

LEMMA CountedTyped ==
    ASSUME reliable \in [Batches -> SUBSET {0, 1}], NEW b \in Batches, NEW s, Counted(b, s)
    PROVE  reliable' \in [Batches -> SUBSET {0, 1}]
<1> DEFINE x == IF s = "COMPLETED" THEN 1 ELSE 0
<1>1. x \in {0, 1}
  OBVIOUS
<1>2. reliable' = [reliable EXCEPT ![b] = reliable[b] \cup {x}]
  BY DEF Counted
<1> HIDE DEF x
<1>3. reliable[b] \cup {x} \in SUBSET {0, 1}
  BY <1>1
<1> QED
  BY <1>2, <1>3

\* A poll answers with a status that is so, and leaves one behind.  The records it sends
\* off are those of the output.
LEMMA GetBatchSound ==
    ASSUME JobsInv, NEW b \in Batches, NEW r \in Replies, GetBatch(b, r)
    PROVE  /\ UNCHANGED <<ray, output, known, stored, errRecord>>
           /\ \E s \in {"pending", "running"} \cup Terminal :
                 status' = [status EXCEPT ![b] = s] /\ Agrees(b, s)
           /\ Agrees(b, r)
           /\ entry' \in [Batches -> [Items -> Parsed \cup {"pending"}]]
           /\ reliable' \in [Batches -> SUBSET {0, 1}]
           /\ \/ UNCHANGED saving
              \/ /\ Readable(b)
                 /\ saving' = saving \cup {<<b, i, output[b][i]>> : i \in Items}
           /\ ray[b] \in Ended => r \in {"404", "500"} \cup Terminal
<1> USE DEF JobsInv, JobsTypeOK
<1>0. Agrees(b, status[b]) /\ status[b] \in {"pending", "running"} \cup Terminal
  BY DEF JobInv
<1>1. CASE /\ r \in {"404", "500"}
           /\ UNCHANGED <<jobs, records>> /\ UNCHANGED <<ray, output, known>>
  BY <1>0, <1>1 DEF jobs, records, Agrees
<1>2. CASE ray[b] = "SUCCEEDED" /\ Finalize(b, r) /\ UNCHANGED <<ray, output, known>>
  <2>1. entry' \in [Batches -> [Items -> Parsed \cup {"pending"}]]
    BY <1>2, LoadedTyped DEF Finalize
  <2>2. CASE LoadRaises(b)
    BY <1>0, <1>2, <2>1, <2>2 DEF Finalize, records, Agrees
  <2>3. CASE ~LoadRaises(b)
    <3>1. Readable(b) /\ \A i \in Items : Loaded(b)[i] = output[b][i]
      BY <1>2, <2>3, LoadedWhole
    <3>2. r = FinalStatus(b) /\ status' = [status EXCEPT ![b] = r]
      BY <1>2, <2>3 DEF Finalize
    <3>3. Agrees(b, r) /\ r \in {"completed", "failed"}
      BY <1>2, <3>1, <3>2 DEF FinalStatus, Agrees, Readable, Parsed
    <3>4. saving' = saving \cup {<<b, i, output[b][i]>> : i \in Items}
      BY <1>2, <2>3, <3>1 DEF Finalize
    <3>5. reliable' \in [Batches -> SUBSET {0, 1}] /\ UNCHANGED <<stored, errRecord>>
      BY <1>2, <2>3, CountedTyped DEF Finalize
    <3> QED
      BY <1>2, <2>1, <3>1, <3>2, <3>3, <3>4, <3>5 DEF Terminal
  <2> QED
    BY <2>2, <2>3
<1>3. CASE /\ ~(ray[b] = "SUCCEEDED" /\ status[b] # "completed")
           /\ Follow(b, r) /\ UNCHANGED <<ray, output, known>>
  <2>1. r = NewStatus(b) /\ status' = [status EXCEPT ![b] = r]
    BY <1>3 DEF Follow
  <2>2. Agrees(b, r) /\ r \in {"pending", "running"} \cup Terminal
    BY <1>0, <2>1 DEF NewStatus, Agrees, Terminal
  <2>3. reliable' \in [Batches -> SUBSET {0, 1}]
    BY <1>3, CountedTyped DEF Follow
  <2>4. ray[b] \in Ended => r \in Terminal
    BY <1>3, <2>1 DEF NewStatus, Ended, Terminal
  <2> QED
    BY <1>3, <2>1, <2>2, <2>3, <2>4 DEF Follow
<1> QED
  BY <1>1, <1>2, <1>3 DEF GetBatch

-----------------------------------------------------------------------------
(* The steps. *)

\* What does not touch a job, or only its future, leaves what was said of it true.
LEMMA AgreesKept ==
    ASSUME NEW b \in Batches, NEW s, Agrees(b, s),
           \/ UNCHANGED <<ray[b], output[b]>>
           \/ ray[b] \notin Ended
    PROVE  Agrees(b, s)'
BY DEF Agrees, Ended, Readable

LEMMA JobUntouched ==
    ASSUME NEW b \in Batches, JobInv(b),
           UNCHANGED <<ray[b], output[b], status[b], client[b], told[b], polls[b]>>
    PROVE  JobInv(b)'
BY DEF JobInv, Agrees, Readable

LEMMA RecordUntouched ==
    ASSUME NEW b \in Batches, RecordInv(b),
           UNCHANGED <<ray[b], output[b], stored[b], errRecord[b]>>, saving' \subseteq saving
    PROVE  RecordInv(b)'
BY DEF RecordInv, Readable

LEMMA JobsInvStep == JobsInv /\ [JobsNext]_jobVars => JobsInv'
<1> SUFFICES ASSUME JobsInv, [JobsNext]_jobVars PROVE JobsInv'
  OBVIOUS
<1> USE DEF JobsTypeOK
<1>0. JobsTypeOK /\ \A c \in Batches : JobInv(c) /\ RecordInv(c)
  BY DEF JobsInv
<1>1. ASSUME NEW b \in Batches, Submit(b) PROVE JobsInv'
  <2>1. JobsTypeOK'
    BY <1>0, <1>1 DEF Submit, jobs, records
  <2>2. ray[b] = "none"
    BY <1>0, <1>1 DEF Submit, JobInv
  <2>3. JobInv(b)'
    <3>1. ray'[b] \in {"none", "PENDING"} /\ client'[b] \in {"polling", "failed"}
      BY <1>0, <1>1, <2>2 DEF Submit
    <3>2. polls'[b] < MaxPolls
      BY <1>0, <1>1, BatchJobsAssumption DEF Submit, JobInv
    <3> QED
      BY <1>0, <1>1, <2>2, <3>1, <3>2 DEF Submit, JobInv, Agrees, Readable
  <2>4. RecordInv(b)'
    BY <1>0, <1>1, <2>2 DEF Submit, records, RecordInv, Readable
  <2>5. ASSUME NEW c \in Batches, c # b PROVE JobInv(c)' /\ RecordInv(c)'
    BY <1>0, <1>1, <2>5, JobUntouched, RecordUntouched DEF Submit, records
  <2> QED
    BY <2>1, <2>3, <2>4, <2>5 DEF JobsInv
<1>2. ASSUME NEW b \in Batches, NEW r \in Replies, GetBatch(b, r),
             client' \in [Batches -> {"new", "polling", "told", "gaveup", "failed"}],
             told' \in [Batches -> Replies \cup {"none"}],
             polls' \in [Batches -> 0..MaxPolls],
             client[b] # "new", client'[b] # "new",
             client'[b] = "polling" => /\ polls'[b] < MaxPolls
                                       /\ told'[b] \notin Terminal,
             told'[b] \in {told[b], r},
             \A c \in Batches : c # b => UNCHANGED <<client[c], told[c], polls[c]>>
      PROVE  JobsInv'
  <2>1. /\ UNCHANGED <<ray, output, known, stored, errRecord>>
        /\ \E s \in {"pending", "running"} \cup Terminal :
              status' = [status EXCEPT ![b] = s] /\ Agrees(b, s)
        /\ Agrees(b, r)
        /\ entry' \in [Batches -> [Items -> Parsed \cup {"pending"}]]
        /\ reliable' \in [Batches -> SUBSET {0, 1}]
        /\ \/ UNCHANGED saving
           \/ /\ Readable(b)
              /\ saving' = saving \cup {<<b, i, output[b][i]>> : i \in Items}
    BY <1>2, GetBatchSound DEF JobsInv
  <2>2. JobsTypeOK'
    <3>1. saving' \in SUBSET (Batches \X Items \X Parsed)
      BY <1>0, <2>1 DEF Readable
    <3>2. status' \in [Batches -> {"pending", "running"} \cup Terminal]
      BY <1>0, <2>1
    <3>3. /\ UNCHANGED <<ray, output, known, stored, errRecord>>
          /\ entry' \in [Batches -> [Items -> Parsed \cup {"pending"}]]
          /\ reliable' \in [Batches -> SUBSET {0, 1}]
      BY <2>1
    <3> QED
      BY <1>0, <1>2, <3>1, <3>2, <3>3
  <2>3. JobInv(b)'
    <3>1. Agrees(b, status[b])' /\ Agrees(b, told[b])'
      BY <1>0, <1>2, <2>1, AgreesKept DEF JobInv
    <3> QED
      BY <1>0, <1>2, <2>1, <3>1 DEF JobInv
  <2>4. RecordInv(b)'
    BY <1>0, <2>1 DEF RecordInv, Readable
  <2>5. ASSUME NEW c \in Batches, c # b PROVE JobInv(c)' /\ RecordInv(c)'
    <3>1. JobInv(c)'
      BY <1>0, <1>2, <2>1, <2>5, JobUntouched
    <3>2. RecordInv(c)'
      BY <1>0, <2>1, <2>5 DEF RecordInv, Readable
    <3> QED
      BY <3>1, <3>2
  <2> QED
    BY <2>2, <2>3, <2>4, <2>5 DEF JobsInv
<1>3. ASSUME NEW b \in Batches, Poll(b) PROVE JobsInv'
  <2>1. PICK r \in Replies :
          /\ GetBatch(b, r)
          /\ told' = [told EXCEPT ![b] = r]
          /\ client' = [client EXCEPT ![b] =
                 IF r \in {"404", "500"} THEN "failed"
                 ELSE IF r \in Terminal THEN "told"
                 ELSE IF polls'[b] = MaxPolls THEN "gaveup" ELSE "polling"]
    BY <1>3 DEF Poll
  <2>2. client[b] = "polling" /\ polls' = [polls EXCEPT ![b] = @ + 1] /\ polls[b] < MaxPolls
    BY <1>0, <1>3 DEF Poll, JobInv
  <2>3. /\ polls' \in [Batches -> 0..MaxPolls]
        /\ client'[b] = "polling" => polls'[b] < MaxPolls /\ told'[b] \notin Terminal
    BY <1>0, <2>1, <2>2, BatchJobsAssumption
  <2> QED
    BY <1>0, <1>2, <2>1, <2>2, <2>3
<1>4. ASSUME NEW b \in Batches, PollUnheard(b) PROVE JobsInv'
  <2>1. PICK r \in Replies : GetBatch(b, r)
    BY <1>4 DEF PollUnheard
  <2>2. /\ client[b] # "new" /\ UNCHANGED <<told, polls>>
        /\ client' = client \/ client' = [client EXCEPT ![b] = "failed"]
    BY <1>4 DEF PollUnheard
  <2>3. client[b] = "polling" => polls[b] < MaxPolls /\ told[b] \notin Terminal
    BY <1>0 DEF JobInv
  <2>4. /\ client' \in [Batches -> {"new", "polling", "told", "gaveup", "failed"}]
        /\ client'[b] \in {client[b], "failed"}
        /\ \A c \in Batches : c # b => UNCHANGED client[c]
    BY <1>0, <2>2
  <2>5. /\ told' \in [Batches -> Replies \cup {"none"}] /\ polls' \in [Batches -> 0..MaxPolls]
        /\ told'[b] = told[b] /\ polls'[b] = polls[b]
        /\ \A c \in Batches : UNCHANGED <<told[c], polls[c]>>
    BY <1>0, <2>2
  <2> QED
    BY <1>2, <2>1, <2>2, <2>3, <2>4, <2>5
<1>5. ASSUME NEW b \in Batches, RayMoves(b) PROVE JobsInv'
  <2>1. /\ ray[b] \in {"PENDING", "RUNNING"} /\ UNCHANGED <<jobs, records, clients>>
        /\ \E st \in {"RUNNING", "SUCCEEDED", "FAILED", "STOPPED"} :
              ray' = [ray EXCEPT ![b] = st]
        /\ \/ output' = output
           \/ \E out \in [Items -> Outcomes] : output' = [output EXCEPT ![b] = out]
        /\ ray'[b] = "SUCCEEDED" =>
              \E out \in [Items -> Outcomes] : output' = [output EXCEPT ![b] = out]
    BY <1>0, <1>5 DEF RayMoves
  <2>2. JobsTypeOK'
    BY <1>0, <2>1 DEF jobs, records, clients
  <2>3. JobInv(b)'
    BY <1>0, <2>1 DEF JobInv, Agrees, Readable, jobs, clients
  <2>4. RecordInv(b)'
    BY <1>0, <2>1 DEF RecordInv, Readable, records
  <2>5. ASSUME NEW c \in Batches, c # b PROVE JobInv(c)' /\ RecordInv(c)'
    BY <1>0, <2>1, <2>5, JobUntouched, RecordUntouched DEF jobs, records, clients
  <2> QED
    BY <2>2, <2>3, <2>4, <2>5 DEF JobsInv
<1>6. ASSUME NEW u \in saving, Upload(u) PROVE JobsInv'
  <2>1. PICK b \in Batches, i \in Items, e \in Parsed : u = <<b, i, e>>
    BY <1>0
  <2>2. Readable(b) /\ output[b][i] = e
    BY <1>0, <2>1 DEF RecordInv
  <2>3. /\ saving' \subseteq saving
        /\ UNCHANGED <<ray, output, known, status, entry, reliable, client, told, polls>>
        /\ stored' = stored \/ (e = "response" /\ stored' = [stored EXCEPT ![b] = @ \cup {i}])
        /\ errRecord' = errRecord \/ (e # "response" /\ errRecord' = [errRecord EXCEPT ![b] = i])
    BY <1>6, <2>1 DEF Upload, jobs, clients
  <2>4. JobsTypeOK'
    <3>1. stored' \in [Batches -> SUBSET Items]
      <4>1. stored[b] \cup {i} \in SUBSET Items
        BY <1>0
      <4> QED
        BY <1>0, <2>3, <4>1
    <3>2. errRecord' \in [Batches -> Items \cup {0}]
      BY <1>0, <2>3
    <3> QED
      BY <1>0, <2>3, <3>1, <3>2
  <2>5. ASSUME NEW c \in Batches PROVE JobInv(c)'
    BY <1>0, <2>3, JobUntouched
  <2>6. ASSUME NEW c \in Batches PROVE RecordInv(c)'
    <3>1. \A j \in stored'[c] : Readable(c) /\ output[c][j] = "response"
      <4>1. CASE stored' = stored
        BY <1>0, <4>1 DEF RecordInv
      <4>2. CASE e = "response" /\ stored' = [stored EXCEPT ![b] = @ \cup {i}]
        <5>1. CASE c = b
          <6>1. stored'[c] = stored[b] \cup {i}
            BY <1>0, <4>2, <5>1
          <6> QED
            BY <1>0, <2>2, <4>2, <5>1, <6>1 DEF RecordInv
        <5>2. CASE c # b
          BY <1>0, <4>2, <5>2 DEF RecordInv
        <5> QED
          BY <5>1, <5>2
      <4> QED
        BY <2>3, <4>1, <4>2
    <3>2. errRecord'[c] # 0 => Readable(c) /\ output[c][errRecord'[c]] \in {"error", "empty"}
      BY <1>0, <2>2, <2>3 DEF RecordInv, Parsed
    <3> QED
      BY <1>0, <2>3, <3>1, <3>2 DEF RecordInv, Readable
  <2> QED
    BY <2>4, <2>5, <2>6 DEF JobsInv
<1>7. CASE GatewayRestart
  <2>1. JobsTypeOK'
    BY <1>0, <1>7 DEF GatewayRestart, NoEntries, clients
  <2>2. ASSUME NEW b \in Batches PROVE JobInv(b)'
    BY <1>0, <1>7 DEF GatewayRestart, JobInv, Agrees, Readable, clients
  <2>3. ASSUME NEW b \in Batches PROVE RecordInv(b)'
    BY <1>0, <1>7, RecordUntouched DEF GatewayRestart
  <2> QED
    BY <2>1, <2>2, <2>3 DEF JobsInv
<1>8. CASE UNCHANGED jobVars
  BY <1>0, <1>8, JobUntouched, RecordUntouched
     DEF JobsInv, jobVars, jobs, records, clients
<1> QED
  BY <1>1, <1>3, <1>4, <1>5, <1>6, <1>7, <1>8 DEF JobsNext

-----------------------------------------------------------------------------
(* The theorems. *)

\* The gateway and its clients keep the types of their tables; nobody polls more than
\* MaxPolls times.
THEOREM JobsTyping == JobsSpec => []JobsTypeOK
<1>1. JobsInv => JobsTypeOK
  BY DEF JobsInv
<1> QED
  BY <1>1, JobsInvInit, JobsInvStep, PTL DEF JobsSpec

\* get_batch and poll_batch_job: the end a client is told is the outcome of its job, an item
\* with neither response nor error being no failure, for any number of items and polls,
\* restarts of the gateway included.
THEOREM ToldIsSo == JobsSpec => []ToldAgrees
<1>1. JobsInv => ToldAgrees
  <2> SUFFICES ASSUME JobsInv, NEW b \in Batches PROVE Agrees(b, told[b])
    BY DEF ToldAgrees, Agrees, Readable
  <2> QED
    BY DEF JobsInv, JobInv
<1> QED
  BY <1>1, JobsInvInit, JobsInvStep, PTL DEF JobsSpec

\* _finalize_status stores records only of an output it has read to its end, each where its
\* item belongs, in whatever order and however often the uploads are made.
THEOREM RecordsAreSo == JobsSpec => []RecordsAgree
<1>1. JobsInv => RecordsAgree
  <2> SUFFICES ASSUME JobsInv, NEW b \in Batches
               PROVE  /\ stored[b] # {} \/ errRecord[b] # 0
                             => \A i \in Items : output[b][i] # "malformed"
                      /\ \A i \in stored[b] : output[b][i] = "response"
                      /\ errRecord[b] # 0 => output[b][errRecord[b]] \in {"error", "empty"}
    BY DEF RecordsAgree
  <2> QED
    BY DEF JobsInv, RecordInv, Readable, Parsed
<1> QED
  BY <1>1, JobsInvInit, JobsInvStep, PTL DEF JobsSpec

\* A poll that finds the Ray job over is the client's last.
THEOREM PolledEndIsSettled == JobsSpec => PolledEndSettles
<1>1. ASSUME JobsInv, [JobsNext]_jobVars, NEW b \in Batches,
             ray[b] \in {"SUCCEEDED", "FAILED", "STOPPED"}, polls'[b] > polls[b]
      PROVE  client'[b] \in {"told", "failed"}
  <2>1. \A c \in Batches : polls[c] \in Int
    BY <1>1 DEF JobsInv, JobsTypeOK
  <2>2. polls' # polls
    BY <1>1, <2>1
  <2>3. PICK c \in Batches : Poll(c)
    BY <1>1, <2>2 DEF JobsNext, Submit, PollUnheard, RayMoves, Upload, GatewayRestart,
                      clients, jobVars
  <2>4. c = b
    BY <1>1, <2>1, <2>3 DEF Poll, JobsInv, JobsTypeOK
  <2>5. PICK r \in Replies :
          /\ GetBatch(b, r)
          /\ client' = [client EXCEPT ![b] =
                 IF r \in {"404", "500"} THEN "failed"
                 ELSE IF r \in Terminal THEN "told"
                 ELSE IF polls'[b] = MaxPolls THEN "gaveup" ELSE "polling"]
    BY <2>3, <2>4 DEF Poll
  <2>6. r \in {"404", "500"} \cup Terminal
    BY <1>1, <2>5, GetBatchSound DEF Ended
  <2> QED
    BY <1>1, <2>5, <2>6 DEF JobsInv, JobsTypeOK
<1>2. JobsInv /\ [JobsNext]_jobVars =>
         [\A b \in Batches :
            /\ ray[b] \in {"SUCCEEDED", "FAILED", "STOPPED"}
            /\ polls'[b] > polls[b]
            => client'[b] \in {"told", "failed"}]_jobVars
  BY <1>1
<1> QED
  BY <1>2, JobsInvInit, JobsInvStep, PTL DEF JobsSpec, PolledEndSettles

-----------------------------------------------------------------------------
(* The refinement of BatchPromise. *)

LEMMA HeardIsOutcome ==
    ASSUME NEW b \in Batches, NEW s \in Terminal, Agrees(b, s)
    PROVE  Outcome(b) = s
BY DEF Terminal, Agrees, Readable, Outcome, Parsed

LEMMA PromiseInitial == JobsInit => Promise!PromiseInit
BY DEF JobsInit, Promise!PromiseInit, Outcome, Terminal

LEMMA PromiseStep == JobsInv /\ [JobsNext]_jobVars => [Promise!PromiseNext]_(Promise!promises)
<1> SUFFICES ASSUME JobsInv, [JobsNext]_jobVars
             PROVE  Promise!PromiseNext \/ UNCHANGED Promise!promises
  OBVIOUS
<1> DEFINE Ticket(b) == IF told[b] \in Terminal THEN told[b] ELSE "nothing"
           outcomes == [b \in Batches |-> Outcome(b)]
           tickets == [b \in Batches |-> Ticket(b)]
<1>0. JobsTypeOK /\ \A c \in Batches : JobInv(c)
  BY DEF JobsInv
<1> USE DEF JobsTypeOK
<1>1. ASSUME UNCHANGED <<ray, output>> PROVE UNCHANGED outcomes
  BY <1>1 DEF Outcome
<1>2. ASSUME UNCHANGED told PROVE UNCHANGED tickets
  BY <1>2
<1>3. ASSUME UNCHANGED outcomes, UNCHANGED tickets PROVE UNCHANGED Promise!promises
  BY <1>3 DEF Promise!promises
<1>4. ASSUME NEW b \in Batches, Submit(b) PROVE UNCHANGED Promise!promises
  <2>1. \A c \in Batches : Outcome(c)' = Outcome(c)
    BY <1>0, <1>4 DEF Submit, JobInv, Outcome
  <2>2. UNCHANGED told
    BY <1>4 DEF Submit
  <2> QED
    BY <1>2, <1>3, <2>1, <2>2
<1>5. ASSUME NEW b \in Batches, Poll(b)
      PROVE  Promise!PromiseNext \/ UNCHANGED Promise!promises
  <2>1. PICK r \in Replies : GetBatch(b, r) /\ told' = [told EXCEPT ![b] = r]
    BY <1>5 DEF Poll
  <2>2. Agrees(b, r) /\ UNCHANGED <<ray, output>> /\ told[b] \notin Terminal
    BY <1>0, <1>5, <2>1, GetBatchSound DEF Poll, JobInv
  <2>3. UNCHANGED outcomes
    BY <1>1, <2>2
  <2>4. CASE r \notin Terminal
    <3>1. \A c \in Batches : Ticket(c)' = Ticket(c)
      BY <1>0, <2>1, <2>2, <2>4
    <3> QED
      BY <1>3, <2>3, <3>1
  <2>5. CASE r \in Terminal
    <3>1. Outcome(b) = r /\ r \in Promise!Ends
      BY <2>2, <2>5, HeardIsOutcome DEF Promise!Ends, Terminal
    <3>2. tickets[b] = "nothing" /\ tickets' = [tickets EXCEPT ![b] = r]
      BY <1>0, <2>1, <2>2, <2>5
    <3>3. Promise!Tell(b)
      BY <2>3, <3>1, <3>2 DEF Promise!Tell
    <3> QED
      BY <3>3 DEF Promise!PromiseNext
  <2> QED
    BY <2>4, <2>5
<1>6. ASSUME NEW b \in Batches, RayMoves(b)
      PROVE  Promise!PromiseNext \/ UNCHANGED Promise!promises
  <2>1. UNCHANGED tickets
    BY <1>2, <1>6 DEF RayMoves, clients
  <2>2. Outcome(b) = "open" /\ (\A c \in Batches : c # b => Outcome(c)' = Outcome(c))
    BY <1>0, <1>6 DEF RayMoves, Outcome
  <2>3. outcomes' = [outcomes EXCEPT ![b] = Outcome(b)']
    BY <2>2
  <2>4. Outcome(b)' \in {"open", "unreadable"} \cup Promise!Ends
    BY DEF Outcome, Promise!Ends
  <2>5. CASE Outcome(b)' = "open"
    BY <1>3, <2>1, <2>2, <2>3, <2>5
  <2>6. CASE Outcome(b)' # "open"
    <3>1. Promise!Settle(b)
      BY <2>1, <2>2, <2>3, <2>4, <2>6 DEF Promise!Settle
    <3> QED
      BY <3>1 DEF Promise!PromiseNext
  <2> QED
    BY <2>5, <2>6
<1>7. ASSUME NEW b \in Batches, PollUnheard(b) PROVE UNCHANGED Promise!promises
  BY <1>1, <1>2, <1>3, <1>7 DEF PollUnheard, GetBatch
<1>8. CASE \/ \E u \in saving : Upload(u)
           \/ GatewayRestart
           \/ UNCHANGED jobVars
  BY <1>1, <1>2, <1>3, <1>8 DEF Upload, GatewayRestart, jobVars, clients
<1> QED
  BY <1>4, <1>5, <1>6, <1>7, <1>8 DEF JobsNext

\* However a job is loaded, finalized, forgotten and polled, its client hears of one end
\* at most, the one the job has come to, and of none if the output cannot be read.
THEOREM ImplementsPromise == JobsSpec => KeepsPromise
  BY PromiseInitial, PromiseStep, JobsInvInit, JobsInvStep, PTL
     DEF JobsSpec, KeepsPromise, Promise!PromiseSpec

=============================================================================
