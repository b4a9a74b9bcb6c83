----------------------------- MODULE UploadJobs -----------------------------
(***************************************************************************)
(* Admin uploads (api/v1/admin.py, services/upload_service.py).  A request *)
(* stores a PDF and a job row; a background task of the same process then  *)
(* ingests the file under the promise of module Corpus, and records on the *)
(* job how that went.  Tasks interleave at every await, and all of them    *)
(* are lost when the process stops.  Reading a file is one step, as the    *)
(* pipeline runs synchronously on the event loop.                          *)
(***************************************************************************)
EXTENDS DocumentTable

CONSTANTS
    Job,          \* ids of ingestion_job rows
    Province,     \* codes of the catalogue
    ProvinceOf,   \* the catalogue: province of each municipality it lists
    Stem,         \* file name stems: title and year, sanitised
    Sanitised,    \* Sanitised[t] is the stem of title t
    Form,         \* upload forms an operator may send
    MaxRestarts   \* bound: how often the process stops

ASSUME ProvinceOfAssumption == ProvinceOf \in [Municipality -> Province]
ASSUME SanitisedAssumption == \A r \in Form : Sanitised[r.title] \in Stem
ASSUME MaxRestartsAssumption == MaxRestarts \in Nat

VARIABLES
    document,  \* the document table
    relation,  \* the bylaw_relation table
    source,    \* document.source_path
    override,  \* documents whose fields are the operator's
    disk,      \* the corpus directory
    job,       \* the ingestion_job table
    task,      \* where the request, and then the task, of each job is
    content,   \* what a task has read from its file
    restarts   \* how often the process has stopped

vars == <<document, relation, source, override, disk, job, task, content, restarts>>

Archive == INSTANCE Corpus WITH document <- document, relation <- relation, Correction <- {}

Path == Municipality \X Stem

JobStatus == {"pending", "running", "completed", "completed_with_errors", "failed", "cancelled"}

MetadataSource == {"filename", "regex", "llm", "human"}

\* Why a job failed, as error_log tells it.
Reason == {"none", "document", "lineage", "operator", "mark"}

JobRow == [path : Path, status : JobStatus, error : Reason]

ASSUME NoJobAssumption == Absent \notin JobRow

\* "stored" is a request between writing the file and committing its job; the
\* labels after it are those of process_upload.
Stage == {"none", "stored", "refused", "queued", "reading", "writing", "lineage", "after failure",
          "operator", "failing", "ended", "lost"}

Live(j) == task[j] \notin {"none", "refused", "ended", "lost"}

Init ==
    /\ document = [d \in DocId |-> Absent] /\ relation = {}
    /\ source = [d \in DocId |-> Absent] /\ override = {}
    /\ disk = [p \in Path |-> Absent]
    /\ job = [j \in Job |-> Absent]
    /\ task = [j \in Job |-> "none"]
    /\ content = [j \in Job |-> Absent]
    /\ restarts = 0

tables == <<document, relation, source, override>>

Goto(j, stage) == task' = [task EXCEPT ![j] = stage]

-----------------------------------------------------------------------------
(* The request *)

\* Known province, known municipality, the one in the other, and a PDF within
\* the size limit.
Acceptable(r) ==
    /\ r.province \in Province /\ r.municipality \in DOMAIN ProvinceOf
    /\ ProvinceOf[r.municipality] = r.province
    /\ r.content \in File

BuildFilename(r) == <<r.municipality, Sanitised[r.title]>>

\* store_upload: a file of that name is overwritten.
StoreUpload(j, r) ==
    /\ task[j] = "none" /\ Acceptable(r)
    /\ disk' = [disk EXCEPT ![BuildFilename(r)] = r.content]
    /\ job' = [job EXCEPT ![j] = [path |-> BuildFilename(r), status |-> "pending", error |-> "none"]]
    /\ Goto(j, "stored")
    /\ UNCHANGED <<tables, content, restarts>>

\* The row is committed (until then it is only the request's), and the task
\* scheduled.
CreateJob(j) ==
    /\ task[j] = "stored"
    /\ Goto(j, "queued")
    /\ UNCHANGED <<tables, disk, job, content, restarts>>

\* INSERT or COMMIT fails: the request ends in an error, the file stays.
CreateJobFails(j) ==
    /\ task[j] = "stored"
    /\ job' = [job EXCEPT ![j] = Absent]
    /\ Goto(j, "refused")
    /\ UNCHANGED <<tables, disk, content, restarts>>

-----------------------------------------------------------------------------
(* The background task: process_upload *)

\* The exception reaches process_upload, which rolls back.
Raise(j, reason) ==
    /\ job' = [job EXCEPT ![j].error = reason]
    /\ Goto(j, "failing")

MarkRunning(j) ==
    /\ task[j] = "queued"
    /\ \/ /\ job' = [job EXCEPT ![j].status = "running"]
          /\ Goto(j, "reading")
       \/ Raise(j, "mark")
    /\ UNCHANGED <<tables, disk, content, restarts>>

\* The pipeline reads what is on the disk now, or fails on it; a document that
\* failed does not keep the lineage pass from running.
ReadFile(j) ==
    /\ task[j] = "reading"
    /\ \/ /\ content' = [content EXCEPT ![j] = disk[job[j].path]]
          /\ Goto(j, "writing")
       \/ Goto(j, "after failure") /\ UNCHANGED content
    /\ UNCHANGED <<tables, disk, job, restarts>>

\* Mutant: a re-upload is recognised by its file name.
ExistingByPath(j) == {d \in Stored(document) : source[d] = job[j].path}

Existing(j) == {d \in Stored(document) : document[d].file = content[j]}

\* Mutant: a document that was there before is not judged again.
AfterCommitOnlyNew(j) == IF Existing(j) = {} THEN "lineage" ELSE "operator"

AfterCommit(j) == "lineage"

\* _ingest_one with force: stored, or replaced under a new id.
CommitDocument(j) ==
    /\ task[j] = "writing"
    /\ \E d \in DocId :
          /\ IF Existing(j) = {} THEN Archive!Store(d, content[j])
             ELSE \E old \in Existing(j) : Archive!Replace(old, d)
          /\ source' = [e \in DocId |-> IF e = d THEN job[j].path
                                        ELSE IF document'[e] = Absent THEN Absent ELSE source[e]]
          /\ override' = (override \ {d}) \intersect Stored(document')
    /\ Goto(j, AfterCommit(j))
    /\ UNCHANGED <<disk, job, content, restarts>>

WriteFails(j) ==
    /\ task[j] = "writing"
    /\ Goto(j, "after failure")
    /\ UNCHANGED <<tables, disk, job, content, restarts>>

\* resolve_lineage ends ingest_paths, whose result then decides.  The pass may raise.
ResolveLineage(j) ==
    /\ task[j] \in {"lineage", "after failure"}
    /\ \/ /\ IF Stored(document) = {} THEN UNCHANGED <<document, relation>> ELSE Archive!ResolveLineage
          /\ IF task[j] = "lineage" THEN Goto(j, "operator") /\ UNCHANGED job
             ELSE Raise(j, "document")
       \/ UNCHANGED <<document, relation>> /\ Raise(j, "lineage")
    /\ UNCHANGED <<source, override, disk, content, restarts>>

\* _apply_operator_metadata and _complete, in one transaction.  The UPDATE sets
\* metadata_source = 'manual', which the column's type may not know.
ApplyOperatorMetadata(j) ==
    /\ task[j] = "operator"
    /\ IF "manual" \in MetadataSource
       THEN /\ override' = override \union {d \in Stored(document) : source[d] = job[j].path}
            /\ job' = [job EXCEPT ![j].status = "completed"]
            /\ Goto(j, "ended")
       ELSE UNCHANGED override /\ Raise(j, "operator")
    /\ UNCHANGED <<document, relation, source, disk, content, restarts>>

\* Mutants: the failure is only logged; it is recorded under a status the type lacks.
RecordedNever(j) == job[j].status
RecordedAsError(j) == "error"

Recorded(j) == "failed"

\* _fail: best effort; whether recorded or not, the task is over.
Fail(j) ==
    /\ task[j] = "failing"
    /\ job' = [job EXCEPT ![j].status = Recorded(j)]
    /\ Goto(j, "ended")
    /\ UNCHANGED <<tables, disk, content, restarts>>

FailNotRecorded(j) ==
    /\ task[j] = "failing"
    /\ job' = [job EXCEPT ![j].error = "none"]
    /\ Goto(j, "ended")
    /\ UNCHANGED <<tables, disk, content, restarts>>

\* The process stops: requests and background tasks are gone.
Restart ==
    /\ restarts < MaxRestarts
    /\ restarts' = restarts + 1
    /\ task' = [j \in Job |-> IF Live(j) THEN "lost" ELSE task[j]]
    /\ job' = [j \in Job |-> IF task[j] = "stored" THEN Absent
                             ELSE IF task[j] = "failing" THEN [job[j] EXCEPT !.error = "none"] ELSE job[j]]
    /\ UNCHANGED <<tables, disk, content>>

-----------------------------------------------------------------------------
(* The dashboard *)

\* _pending: jobs without a document of their path.
PendingUploads == {j \in Job : job[j] # Absent /\ task[j] # "stored"
                              /\ \A d \in Stored(document) : source[d] # job[j].path}

DocumentState(status) ==
    CASE status = "pending" -> "uploaded"
      [] status = "running" -> "processing"
      [] status \in {"failed", "cancelled", "completed_with_errors"} -> "failed"
      [] OTHER -> "completed"

-----------------------------------------------------------------------------
(* The system *)

TaskStep(j) ==
    \/ MarkRunning(j) \/ ReadFile(j) \/ CommitDocument(j) \/ WriteFails(j) \/ ResolveLineage(j)
    \/ ApplyOperatorMetadata(j) \/ Fail(j)

Next ==
    \/ \E j \in Job, r \in Form : StoreUpload(j, r)
    \/ \E j \in Job : CreateJob(j) \/ CreateJobFails(j) \/ TaskStep(j) \/ FailNotRecorded(j)
    \/ Restart

Spec == Init /\ [][Next]_vars

\* The event loop runs every task that can go on.
FairSpec == Spec /\ \A j \in Job : WF_vars(TaskStep(j))

-----------------------------------------------------------------------------
(* Properties *)

TypeOK ==
    /\ Archive!TypeOK
    /\ source \in [DocId -> Path \union {Absent}] /\ override \subseteq DocId
    /\ disk \in [Path -> File \union {Absent}]
    /\ job \in [Job -> JobRow \union {Absent}]
    /\ task \in [Job -> Stage]
    /\ content \in [Job -> File \union {Absent}]
    /\ restarts \in 0..MaxRestarts

JobsOf(p) == {j \in Job : job[j] # Absent /\ job[j].path = p}

\* The job whose document got as far as the operator's metadata.
Indexed(j) == task[j] = "ended" /\ (job[j].status = "completed" \/ job[j].error = "operator")

\* Once every upload to a path has been indexed, the file that is there is in the
\* corpus, however the uploads overwrote each other while their tasks ran.
LatestUploadIsIndexed ==
    \A p \in Path :
        /\ JobsOf(p) # {} /\ \A j \in JobsOf(p) : Indexed(j)
        /\ \A j \in Job : task[j] \notin {"refused", "lost"}
        => \E d \in Stored(document) : document[d].file = disk[p]

\* A document that could be judged has been, except while the task that stored
\* it has not reached its lineage pass, was lost before it, or saw it fail.
UnjudgedIsExplained ==
    \A d \in Stored(document) :
        LET f == FactsOf(d, document[d].file)
        IN  Placed(f) /\ Dated(f) /\ document[d].status = "unknown" =>
               \E j \in JobsOf(source[d]) :
                  \/ task[j] \in {"lineage", "lost"} \/ job[j].error = "lineage"
                  \/ task[j] = "ended" /\ job[j].status \notin {"completed", "failed"}

\* An upload the dashboard shows as waiting or in progress is one, unless its
\* task was lost or its failure could not be recorded; one shown as failed is over.
DashboardIsHonest ==
    \A j \in PendingUploads :
        IF DocumentState(job[j].status) = "failed" THEN task[j] = "ended"
        ELSE Live(j) \/ task[j] = "lost" \/ (task[j] = "ended" /\ job[j].error = "none")

\* A job never says it is pending or running for ever, unless the process was
\* stopped or the database refused to record the failure.
JobsEnd ==
    \A j \in Job : task[j] = "queued" ~>
        \/ job[j] # Absent /\ job[j].status \in {"completed", "failed"}
        \/ task[j] = "lost"
        \/ task[j] = "ended" /\ job[j].error = "none"

\* upload_service.py: the fields the operator supplied win over detection, at
\* the latest when the job has ended.
OperatorFieldsWin ==
    \A j \in Job : Indexed(j) =>
        \A d \in Stored(document) :
            source[d] = job[j].path /\ document[d].file = content[j] => d \in override

=============================================================================
