---------------------------- MODULE UploadProofs ----------------------------
(* What the dashboard shows of an upload, for any number of uploads at once *)
(* and any order of their steps, failures and restarts.                    *)
EXTENDS UploadJobs, DocumentTableProofs

-----------------------------------------------------------------------------
(* A job row is what its task has made of it so far: no row before the     *)
(* request has stored its file, no reason before something was raised, and *)
(* no end before the task has ended.                                       *)

Working == {"stored", "queued", "reading", "writing", "lineage", "after failure", "operator"}

RowFollowsTask(row, stage) ==
    /\ stage \in {"none", "refused"} => row = Absent
    /\ stage \in Working => /\ row \in JobRow
                            /\ row.status \in {"pending", "running"} /\ row.error = "none"
    /\ stage = "failing" => row \in JobRow /\ row.status \in {"pending", "running"}
    /\ stage = "lost" => row = Absent \/ (row \in JobRow /\ row.status \in {"pending", "running"})
    /\ stage = "ended" => /\ row \in JobRow /\ row.status \in {"pending", "running", "completed", "failed"}
                          /\ row.status # "failed" => row.error = "none"

RowsFollowTasks ==
    /\ task \in [Job -> Stage]
    /\ job \in [Job -> JobRow \union {Absent}]
    /\ \A j \in Job : RowFollowsTask(job[j], task[j])

-----------------------------------------------------------------------------

\* One step of one job that leaves the others alone.
LEMMA OneJobMoves ==
    ASSUME RowsFollowTasks, NEW j \in Job, NEW stage \in Stage, NEW row \in JobRow \union {Absent},
           task' = [task EXCEPT ![j] = stage], job' = [job EXCEPT ![j] = row],
           RowFollowsTask(row, stage)
    PROVE  RowsFollowTasks'
<1>1. task' \in [Job -> Stage] /\ job' \in [Job -> JobRow \union {Absent}]
  BY DEF RowsFollowTasks
<1>2. ASSUME NEW k \in Job
      PROVE  RowFollowsTask(job'[k], task'[k])
  <2>1. CASE k = j
    <3>1. job'[k] = row /\ task'[k] = stage
      BY <2>1 DEF RowsFollowTasks
    <3>. QED
      BY <3>1
  <2>2. CASE k # j
    <3>1. job'[k] = job[k] /\ task'[k] = task[k]
      BY <2>2 DEF RowsFollowTasks
    <3>. QED
      BY <3>1 DEF RowsFollowTasks
  <2>. QED
    BY <2>1, <2>2
<1>. QED
  BY <1>1, <1>2 DEF RowsFollowTasks

\* A step that leaves the row of its job as it is.
LEMMA OneTaskMoves ==
    ASSUME RowsFollowTasks, NEW j \in Job, NEW stage \in Stage,
           task' = [task EXCEPT ![j] = stage], job' = job, RowFollowsTask(job[j], stage)
    PROVE  RowsFollowTasks'
<1>1. job' = [job EXCEPT ![j] = job[j]] /\ job[j] \in JobRow \union {Absent}
  BY DEF RowsFollowTasks
<1>. QED
  BY <1>1, OneJobMoves

\* An exception reaches process_upload.
LEMMA RaiseKeeps ==
    ASSUME RowsFollowTasks, NEW j \in Job, NEW reason \in Reason, task[j] \in Working, Raise(j, reason)
    PROVE  RowsFollowTasks'
<1>. DEFINE row == [job[j] EXCEPT !.error = reason]
<1>1. job[j] \in JobRow /\ job[j].status \in {"pending", "running"}
  BY DEF RowsFollowTasks, RowFollowsTask
<1>2. row \in JobRow /\ row.status = job[j].status
  BY <1>1 DEF JobRow
<1>3. job' = [job EXCEPT ![j] = row] /\ task' = [task EXCEPT ![j] = "failing"]
  BY DEF Raise, Goto
<1>4. RowFollowsTask(row, "failing")
  BY <1>1, <1>2 DEF RowFollowsTask, Working
<1>. QED
  BY <1>2, <1>3, <1>4, OneJobMoves DEF Stage

LEMMA TaskStepKeeps ==
    ASSUME RowsFollowTasks, NEW j \in Job, TaskStep(j) \/ FailNotRecorded(j)
    PROVE  RowsFollowTasks'
<1>1. CASE MarkRunning(j)
  <2>1. CASE Raise(j, "mark")
    BY <1>1, <2>1, RaiseKeeps DEF MarkRunning, Working, Reason
  <2>2. CASE job' = [job EXCEPT ![j].status = "running"] /\ Goto(j, "reading")
    <3>. DEFINE row == [job[j] EXCEPT !.status = "running"]
    <3>1. job[j] \in JobRow /\ job[j].error = "none"
      BY <1>1 DEF MarkRunning, RowsFollowTasks, RowFollowsTask, Working
    <3>2. row \in JobRow /\ row.status = "running" /\ row.error = "none"
      BY <3>1 DEF JobRow, JobStatus
    <3>3. RowFollowsTask(row, "reading")
      BY <3>2 DEF RowFollowsTask, Working
    <3>. QED
      BY <2>2, <3>2, <3>3, OneJobMoves DEF Goto, Stage
  <2>. QED
    BY <1>1, <2>1, <2>2 DEF MarkRunning
<1>2. CASE ReadFile(j)
  <2>1. job' = job /\ (Goto(j, "writing") \/ Goto(j, "after failure")) /\ task[j] = "reading"
    BY <1>2 DEF ReadFile
  <2>2. RowFollowsTask(job[j], "writing") /\ RowFollowsTask(job[j], "after failure")
    BY <2>1 DEF RowsFollowTasks, RowFollowsTask, Working
  <2>. QED
    BY <2>1, <2>2, OneTaskMoves DEF Goto, Stage
<1>3. CASE CommitDocument(j) \/ WriteFails(j)
  <2>1. job' = job /\ (Goto(j, "lineage") \/ Goto(j, "after failure")) /\ task[j] = "writing"
    BY <1>3 DEF CommitDocument, WriteFails, AfterCommit
  <2>2. RowFollowsTask(job[j], "lineage") /\ RowFollowsTask(job[j], "after failure")
    BY <2>1 DEF RowsFollowTasks, RowFollowsTask, Working
  <2>. QED
    BY <2>1, <2>2, OneTaskMoves DEF Goto, Stage
<1>4. CASE ResolveLineage(j)
  <2>1. CASE Raise(j, "document") \/ Raise(j, "lineage")
    BY <1>4, <2>1, RaiseKeeps DEF ResolveLineage, Working, Reason
  <2>2. CASE task[j] = "lineage" /\ Goto(j, "operator") /\ UNCHANGED job
    <3>1. RowFollowsTask(job[j], "operator")
      BY <2>2 DEF RowsFollowTasks, RowFollowsTask, Working
    <3>. QED
      BY <2>2, <3>1, OneTaskMoves DEF Goto, Stage
  <2>. QED
    BY <1>4, <2>1, <2>2 DEF ResolveLineage
<1>5. CASE ApplyOperatorMetadata(j)
  <2>1. Raise(j, "operator")
    BY <1>5 DEF ApplyOperatorMetadata, MetadataSource
  <2>. QED
    BY <1>5, <2>1, RaiseKeeps DEF ApplyOperatorMetadata, Working, Reason
<1>6. CASE Fail(j)
  <2>. DEFINE row == [job[j] EXCEPT !.status = "failed"]
  <2>1. job[j] \in JobRow
    BY <1>6 DEF Fail, RowsFollowTasks, RowFollowsTask
  <2>2. row \in JobRow /\ row.status = "failed"
    BY <2>1 DEF JobRow, JobStatus
  <2>3. RowFollowsTask(row, "ended")
    BY <2>2 DEF RowFollowsTask, Working
  <2>. QED
    BY <1>6, <2>2, <2>3, OneJobMoves DEF Fail, Recorded, Goto, Stage
<1>7. CASE FailNotRecorded(j)
  <2>. DEFINE row == [job[j] EXCEPT !.error = "none"]
  <2>1. job[j] \in JobRow /\ job[j].status \in {"pending", "running"}
    BY <1>7 DEF FailNotRecorded, RowsFollowTasks, RowFollowsTask
  <2>2. row \in JobRow /\ row.status = job[j].status /\ row.error = "none"
    BY <2>1 DEF JobRow, Reason
  <2>3. RowFollowsTask(row, "ended")
    BY <2>1, <2>2 DEF RowFollowsTask, Working
  <2>. QED
    BY <1>7, <2>2, <2>3, OneJobMoves DEF FailNotRecorded, Goto, Stage
<1>. QED
  BY <1>1, <1>2, <1>3, <1>4, <1>5, <1>6, <1>7 DEF TaskStep

\* The request, up to the commit of the job.
LEMMA RequestKeeps ==
    ASSUME RowsFollowTasks, NEW j \in Job,
           (\E r \in Form : StoreUpload(j, r)) \/ CreateJob(j) \/ CreateJobFails(j)
    PROVE  RowsFollowTasks'
<1>1. ASSUME NEW r \in Form, StoreUpload(j, r)
      PROVE  RowsFollowTasks'
  <2>. DEFINE row == [path |-> BuildFilename(r), status |-> "pending", error |-> "none"]
  <2>1. BuildFilename(r) \in Path
    BY <1>1, ProvinceOfAssumption, SanitisedAssumption DEF StoreUpload, Acceptable, BuildFilename, Path
  <2>2. row \in JobRow
    BY <2>1 DEF JobRow, JobStatus, Reason
  <2>3. RowFollowsTask(row, "stored")
    BY <2>2 DEF RowFollowsTask, Working
  <2>. QED
    BY <1>1, <2>2, <2>3, OneJobMoves DEF StoreUpload, Goto, Stage
<1>2. CASE CreateJob(j)
  <2>1. RowFollowsTask(job[j], "queued")
    BY <1>2 DEF CreateJob, RowsFollowTasks, RowFollowsTask, Working
  <2>. QED
    BY <1>2, <2>1, OneTaskMoves DEF CreateJob, Goto, Stage
<1>3. CASE CreateJobFails(j)
  <2>1. RowFollowsTask(Absent, "refused")
    BY DEF RowFollowsTask, Working
  <2>. QED
    BY <1>3, <2>1, OneJobMoves DEF CreateJobFails, Goto, Stage
<1>. QED
  BY <1>1, <1>2, <1>3

\* A request that stops takes its row with it; a task leaves it as it was.
LEMMA RestartKeeps ==
    ASSUME RowsFollowTasks, Restart
    PROVE  RowsFollowTasks'
<1>1. ASSUME NEW j \in Job
      PROVE  /\ task'[j] \in Stage /\ job'[j] \in JobRow \union {Absent}
             /\ RowFollowsTask(job'[j], task'[j])
  <2>. DEFINE row == [job[j] EXCEPT !.error = "none"]
  <2>0. /\ task'[j] = (IF Live(j) THEN "lost" ELSE task[j])
        /\ job'[j] = (IF task[j] = "stored" THEN Absent ELSE IF task[j] = "failing" THEN row ELSE job[j])
    BY DEF Restart
  <2>1. CASE ~Live(j)
    <3>1. task[j] # "stored" /\ task[j] # "failing" /\ task'[j] = task[j] /\ job'[j] = job[j]
      BY <2>0, <2>1 DEF Live
    <3>. QED
      BY <3>1 DEF RowsFollowTasks
  <2>2. CASE task[j] = "stored"
    BY <2>0, <2>2 DEF Live, RowFollowsTask, Working, Stage
  <2>3. CASE task[j] = "failing"
    <3>1. job[j] \in JobRow /\ job[j].status \in {"pending", "running"}
      BY <2>3 DEF RowsFollowTasks, RowFollowsTask
    <3>2. row \in JobRow /\ row.status = job[j].status
      BY <3>1 DEF JobRow, Reason
    <3>3. task'[j] = "lost" /\ job'[j] = row
      BY <2>0, <2>3 DEF Live
    <3>. QED
      BY <3>1, <3>2, <3>3 DEF RowFollowsTask, Working, Stage
  <2>4. CASE Live(j) /\ task[j] # "stored" /\ task[j] # "failing"
    <3>1. task[j] \in Working
      BY <2>4 DEF Live, RowsFollowTasks, Stage, Working
    <3>2. task'[j] = "lost" /\ job'[j] = job[j]
      BY <2>0, <2>4
    <3>. QED
      BY <3>1, <3>2 DEF RowsFollowTasks, RowFollowsTask, Working, Stage
  <2>. QED
    BY <2>1, <2>2, <2>3, <2>4
<1>2. task' = [j \in Job |-> task'[j]] /\ job' = [j \in Job |-> job'[j]]
  BY DEF Restart
<1>. QED
  BY <1>1, <1>2 DEF RowsFollowTasks

-----------------------------------------------------------------------------

\* The row of a job always tells how far its task has come, whatever fails and
\* whenever the process stops (upload_service.py 113-256).
THEOREM RowsAlwaysFollowTasks == Spec => []RowsFollowTasks
<1>1. Init => RowsFollowTasks
  BY DEF Init, RowsFollowTasks, RowFollowsTask, Working, Stage
<1>2. RowsFollowTasks /\ [Next]_vars => RowsFollowTasks'
  <2>. SUFFICES ASSUME RowsFollowTasks, [Next]_vars
                PROVE  RowsFollowTasks'
    OBVIOUS
  <2>1. CASE Next
    BY <2>1, RequestKeeps, TaskStepKeeps, RestartKeeps DEF Next
  <2>2. CASE UNCHANGED vars
    BY <2>2 DEF vars, RowsFollowTasks
  <2>. QED
    BY <2>1, <2>2
<1>. QED
  BY <1>1, <1>2, PTL DEF Spec

\* The dashboard never shows an upload as in progress that is not, unless its
\* task was lost or its failure could not be recorded, and never one as failed
\* that is still under way (admin.py 227-254, schemas/admin.py 32-65).
THEOREM DashboardStaysHonest == Spec => []DashboardIsHonest
<1>1. RowsFollowTasks => DashboardIsHonest
  <2>. SUFFICES ASSUME RowsFollowTasks, NEW j \in PendingUploads
                PROVE  IF DocumentState(job[j].status) = "failed" THEN task[j] = "ended"
                       ELSE \/ Live(j) \/ task[j] = "lost"
                            \/ task[j] = "ended" /\ job[j].error = "none"
    BY DEF DashboardIsHonest
  <2>1. j \in Job /\ job[j] # Absent /\ job[j] \in JobRow /\ task[j] \in Stage
        /\ RowFollowsTask(job[j], task[j])
    BY DEF PendingUploads, RowsFollowTasks
  <2>2. task[j] \notin {"none", "refused"}
    BY <2>1 DEF RowFollowsTask
  <2>3. CASE task[j] = "ended"
    BY <2>1, <2>3 DEF RowFollowsTask, DocumentState
  <2>4. CASE task[j] # "ended"
    <3>1. job[j].status \in {"pending", "running"}
      BY <2>1, <2>2, <2>4 DEF RowFollowsTask, Working, Stage
    <3>2. DocumentState(job[j].status) # "failed"
      BY <3>1 DEF DocumentState
    <3>. QED
      BY <2>2, <2>4, <3>2 DEF Live
  <2>. QED
    BY <2>3, <2>4
<1>. QED
  BY <1>1, RowsAlwaysFollowTasks, PTL

-----------------------------------------------------------------------------
(* The archive, module Corpus, is over the same table. *)

LEMMA ArchiveFacts ==
    ASSUME NEW d, NEW file
    PROVE  Archive!FactsOf(d, file) = FactsOf(d, file)
  BY DEF Archive!FactsOf, FactsOf, Archive!Detect, Detect, Archive!YearFor, YearFor,
         Archive!Classify, Classify, Archive!ReferencedNumbers, ReferencedNumbers,
         Archive!YearOf, YearOf, Archive!NoDate, NoDate, Archive!NoYear, NoYear

LEMMA ArchiveVerdicts ==
    ASSUME NEW row, NEW F, NEW f
    PROVE  /\ Archive!Judged(row, F, f) = Judged(row, F, f)
           /\ Archive!BuildEdges(F) = BuildEdges(F)
<1>1. Archive!ResolveOne(F, f) = ResolveOne(F, f)
  BY DEF Archive!ResolveOne, ResolveOne, Archive!Absorbed, Absorbed, Archive!Repealed, Repealed,
         Archive!Dated, Dated, Archive!Placed, Placed, Archive!Versions, Versions,
         Archive!Lookup, Lookup, Archive!Normalise, Normalise, Archive!HasNewer, HasNewer,
         Archive!Older, Older, Archive!VersionDate, VersionDate, Archive!IsConsolidation,
         IsConsolidation, Archive!NewYear, NewYear, Archive!NoDate, NoDate, Archive!NoYear, NoYear
<1>2. Archive!LastAmendmentDate(F, f) = LastAmendmentDate(F, f)
  BY DEF Archive!LastAmendmentDate, LastAmendmentDate, Archive!AmendmentDates, AmendmentDates,
         Archive!Dated, Dated, Archive!Placed, Placed, Archive!Normalise, Normalise,
         Archive!VersionDate, VersionDate, Archive!NewYear, NewYear, Archive!NoDate, NoDate,
         Archive!NoYear, NoYear, Archive!Max, Max
<1>3. Archive!BuildEdges(F) = BuildEdges(F)
  BY DEF Archive!BuildEdges, BuildEdges, Archive!ReferenceEdges, ReferenceEdges,
         Archive!VersionEdges, VersionEdges, Archive!Placed, Placed, Archive!Versions, Versions,
         Archive!Lookup, Lookup, Archive!Normalise, Normalise, Archive!HasNewer, HasNewer,
         Archive!Older, Older, Archive!VersionDate, VersionDate, Archive!IsConsolidation,
         IsConsolidation, Archive!NewYear, NewYear, Archive!NoDate, NoDate, Archive!NoYear, NoYear
<1>. QED
  BY <1>1, <1>2, <1>3 DEF Archive!Judged, Judged, Archive!NoDate, NoDate

LEMMA ArchiveType == Archive!TypeOK <=> document \in Table /\ relation \subseteq Edge
  BY DEF Archive!TypeOK, Table, Archive!Row, Row, Archive!DocumentStatus, DocumentStatus,
         Archive!Edge, Edge

\* A document is stored, or replaced; or a pass judges the whole table.
LEMMA ArchiveSteps ==
    ASSUME NEW old, NEW d, NEW file
    PROVE  /\ Archive!Store(d, file) =>
                 /\ document[d] = Absent /\ relation' = relation
                 /\ document' = [document EXCEPT ![d] = NewRow(file)]
           /\ Archive!Replace(old, d) =>
                 /\ document[old] # Absent /\ document[d] = Absent /\ relation' \subseteq relation
                 /\ document' = [document EXCEPT ![old] = Absent, ![d] = NewRow(document[old].file)]
           /\ Archive!ResolveLineage =>
                 document' = Pass(document) /\ relation' = BuildEdges(LoadFacts(document))
<1>1. \A x : Archive!NewRow(x) = NewRow(x)
  BY DEF Archive!NewRow, NewRow, Archive!NoDate, NoDate
<1>2. Archive!LoadFacts(document) = LoadFacts(document)
  BY ArchiveFacts DEF Archive!LoadFacts, LoadFacts, Archive!Stored, Stored
<1>3. Archive!Store(d, file) =>
         /\ document[d] = Absent /\ relation' = relation
         /\ document' = [document EXCEPT ![d] = NewRow(file)]
  BY <1>1 DEF Archive!Store
<1>4. Archive!Replace(old, d) =>
         /\ document[old] # Absent /\ document[d] = Absent /\ relation' \subseteq relation
         /\ document' = [document EXCEPT ![old] = Absent, ![d] = NewRow(document[old].file)]
  BY <1>1 DEF Archive!Replace
<1>5. Archive!ResolveLineage =>
         document' = Pass(document) /\ relation' = BuildEdges(LoadFacts(document))
  BY <1>2, ArchiveFacts, ArchiveVerdicts
  DEF Archive!ResolveLineage, Pass, Archive!Updatable, Updatable
<1>. QED
  BY <1>3, <1>4, <1>5


-----------------------------------------------------------------------------
(* Types *)

\* A task finds its file, and what it writes is what a file contained.
FilesAreThere ==
    \A j \in Job :
        /\ task[j] \in {"stored", "queued", "reading"} => disk[job[j].path] \in File
        /\ task[j] = "writing" => content[j] \in File

Types == TypeOK /\ RowsFollowTasks /\ FilesAreThere

LEMMA RowOfTask ==
    ASSUME RowsFollowTasks, NEW j \in Job, task[j] \in Working \union {"failing", "ended"}
    PROVE  job[j] \in JobRow /\ job[j] # Absent /\ job[j].path \in Path
  BY NoJobAssumption DEF RowsFollowTasks, RowFollowsTask, JobRow

\* The commit of a document adds one row, with the content the task has read,
\* and removes at most the row that had the same content.
LEMMA CommitMoves ==
    ASSUME Types, NEW j \in Job, CommitDocument(j)
    PROVE  \E d \in DocId \ Stored(document) :
              /\ document' \in Table /\ relation' \subseteq relation
              /\ d \in Stored(document') /\ document'[d] = NewRow(content[j])
              /\ source'[d] = job[j].path
              /\ \A e \in Stored(document') \ {d} :
                    e \in Stored(document) /\ document'[e] = document[e] /\ source'[e] = source[e]
              /\ \A e \in Stored(document) \ Stored(document') : document[e].file = content[j]
<1>1. content[j] \in File
  BY DEF CommitDocument, Types, FilesAreThere
<1>2. document \in Table
  BY ArchiveType DEF Types, TypeOK
<1>3. NewRow(content[j]) \in Row /\ NewRow(content[j]) # Absent
  BY <1>1, NewRowType, AbsentAssumption
<1>4. PICK d \in DocId :
         /\ IF Existing(j) = {} THEN Archive!Store(d, content[j])
            ELSE \E old \in Existing(j) : Archive!Replace(old, d)
         /\ source' = [e \in DocId |-> IF e = d THEN job[j].path
                                       ELSE IF document'[e] = Absent THEN Absent ELSE source[e]]
  BY DEF CommitDocument
<1>5. /\ document[d] = Absent /\ document' \in Table /\ relation' \subseteq relation
      /\ document'[d] = NewRow(content[j])
      /\ \A e \in Stored(document') \ {d} : e \in Stored(document) /\ document'[e] = document[e]
      /\ \A e \in Stored(document) \ Stored(document') : document[e].file = content[j]
  <2>1. CASE Existing(j) = {}
    <3>1. document[d] = Absent /\ relation' = relation /\ document' = [document EXCEPT ![d] = NewRow(content[j])]
      BY <1>4, <2>1, ArchiveSteps
    <3>. QED
      BY <1>2, <1>3, <3>1 DEF Stored, Table
  <2>2. CASE Existing(j) # {}
    <3>1. PICK old \in Existing(j) : Archive!Replace(old, d)
      BY <1>4, <2>2
    <3>2. old \in DocId /\ document[old].file = content[j]
      BY DEF Existing, Stored
    <3>3. /\ document[old] # Absent /\ document[d] = Absent /\ relation' \subseteq relation
          /\ document' = [document EXCEPT ![old] = Absent, ![d] = NewRow(content[j])]
      BY <3>1, <3>2, ArchiveSteps
    <3>. QED
      BY <1>2, <1>3, <3>2, <3>3 DEF Stored, Table
  <2>. QED
    BY <2>1, <2>2
<1>6. d \notin Stored(document) /\ d \in Stored(document')
  BY <1>3, <1>5 DEF Stored
<1>7. \A e \in Stored(document') \ {d} : source'[e] = source[e]
  BY <1>4 DEF Stored
<1>. QED
  BY <1>4, <1>5, <1>6, <1>7

\* What every other step does to the corpus: nothing, or a whole pass.
LEMMA TablesMove ==
    ASSUME Types, [Next]_vars, \A j \in Job : ~CommitDocument(j)
    PROVE  /\ source' = source /\ override' = override
           /\ \/ document' = document /\ relation' = relation
              \/ /\ \E j \in Job : ResolveLineage(j)
                 /\ document' = Pass(document) /\ relation' = BuildEdges(LoadFacts(document))
<1>1. CASE UNCHANGED vars
  BY <1>1 DEF vars
<1>2. CASE Restart
  BY <1>2 DEF Restart, tables
<1>3. ASSUME NEW j \in Job, (\E r \in Form : StoreUpload(j, r)) \/ CreateJob(j) \/ CreateJobFails(j)
      PROVE  UNCHANGED tables
  BY <1>3 DEF StoreUpload, CreateJob, CreateJobFails
<1>4. ASSUME NEW j \in Job, MarkRunning(j) \/ ReadFile(j) \/ WriteFails(j) \/ Fail(j) \/ FailNotRecorded(j)
      PROVE  UNCHANGED tables
  BY <1>4 DEF MarkRunning, ReadFile, WriteFails, Fail, FailNotRecorded
<1>5. ASSUME NEW j \in Job, ApplyOperatorMetadata(j)
      PROVE  UNCHANGED tables
  BY <1>5 DEF ApplyOperatorMetadata, MetadataSource, tables
<1>6. ASSUME NEW j \in Job, ResolveLineage(j)
      PROVE  /\ source' = source /\ override' = override
             /\ \/ document' = document /\ relation' = relation
                \/ document' = Pass(document) /\ relation' = BuildEdges(LoadFacts(document))
  BY <1>6, ArchiveSteps DEF ResolveLineage
<1>. QED
  BY <1>1, <1>2, <1>3, <1>4, <1>5, <1>6 DEF Next, TaskStep, tables

LEMMA TypesKept ==
    ASSUME Types, [Next]_vars, RowsFollowTasks'
    PROVE  Types'
<1>0. document \in Table /\ relation \subseteq Edge
  BY ArchiveType DEF Types, TypeOK
<1>1. document' \in Table /\ relation' \subseteq Edge /\ source' \in [DocId -> Path \union {Absent}]
      /\ override' \subseteq DocId
  <2>1. ASSUME NEW j \in Job, CommitDocument(j)
        PROVE  /\ document' \in Table /\ relation' \subseteq Edge
               /\ source' \in [DocId -> Path \union {Absent}] /\ override' \subseteq DocId
    <3>1. job[j].path \in Path
      BY <2>1, RowOfTask DEF CommitDocument, Types, Working
    <3>2. source' \in [DocId -> Path \union {Absent}] /\ override' \subseteq DocId
      BY <2>1, <3>1 DEF CommitDocument, Types, TypeOK
    <3>. QED
      BY <1>0, <2>1, <3>2, CommitMoves
  <2>2. CASE \A j \in Job : ~CommitDocument(j)
    BY <1>0, <2>2, TablesMove, PassOverTable, PassEdges DEF Types, TypeOK
  <2>. QED
    BY <2>1, <2>2
<1>2. Archive!TypeOK'
  BY <1>1 DEF Archive!TypeOK, Table, Archive!Row, Row, Archive!DocumentStatus, DocumentStatus,
              Archive!Edge, Edge
<1>3. /\ disk' \in [Path -> File \union {Absent}] /\ \A p \in Path : disk[p] \in File => disk'[p] \in File
      /\ content' \in [Job -> File \union {Absent}]
      /\ restarts' \in 0..MaxRestarts
  <2>1. ASSUME NEW j \in Job, NEW r \in Form, StoreUpload(j, r)
        PROVE  /\ disk' \in [Path -> File \union {Absent}]
               /\ \A p \in Path : disk[p] \in File => disk'[p] \in File
    BY <2>1 DEF StoreUpload, Acceptable, Types, TypeOK
  <2>2. ASSUME NEW j \in Job, ReadFile(j)
        PROVE  content' \in [Job -> File \union {Absent}]
    <3>1. job[j].path \in Path
      BY <2>2, RowOfTask DEF ReadFile, Types, Working
    <3>. QED
      BY <2>2, <3>1 DEF ReadFile, Types, TypeOK
  <2>3. CASE Restart
    <3>1. restarts' \in 0..MaxRestarts
      BY <2>3, MaxRestartsAssumption DEF Restart, Types, TypeOK
    <3>. QED
      BY <2>3, <3>1 DEF Restart, Types, TypeOK
  <2>4. CASE UNCHANGED vars
    BY <2>4 DEF vars, Types, TypeOK
  <2>5. ASSUME NEW j \in Job,
               \/ CreateJob(j) \/ CreateJobFails(j) \/ MarkRunning(j) \/ CommitDocument(j)
               \/ WriteFails(j) \/ ResolveLineage(j) \/ ApplyOperatorMetadata(j) \/ Fail(j)
               \/ FailNotRecorded(j)
        PROVE  UNCHANGED <<disk, content, restarts>>
    BY <2>5 DEF CreateJob, CreateJobFails, MarkRunning, CommitDocument, WriteFails, ResolveLineage,
                ApplyOperatorMetadata, Fail, FailNotRecorded
  <2>6. ASSUME NEW j \in Job, (\E r \in Form : StoreUpload(j, r)) \/ ReadFile(j)
        PROVE  restarts' = restarts /\ (disk' = disk \/ content' = content)
               /\ (ReadFile(j) \/ content' = content)
               /\ (disk' = disk \/ \E r \in Form : StoreUpload(j, r))
    BY <2>6 DEF StoreUpload, ReadFile
  <2>. QED
    BY <2>1, <2>2, <2>3, <2>4, <2>5, <2>6 DEF Next, TaskStep, Types, TypeOK
<1>4. TypeOK'
  BY <1>1, <1>2, <1>3 DEF TypeOK, RowsFollowTasks
<1>5. FilesAreThere'
  <2>. SUFFICES ASSUME NEW k \in Job
                PROVE  /\ task'[k] \in {"stored", "queued", "reading"} => disk'[job'[k].path] \in File
                       /\ task'[k] = "writing" => content'[k] \in File
    BY DEF FilesAreThere
  <2>0. /\ task \in [Job -> Stage] /\ job \in [Job -> JobRow \union {Absent}]
        /\ content \in [Job -> File \union {Absent}] /\ disk \in [Path -> File \union {Absent}]
        /\ task[k] \in {"stored", "queued", "reading"} =>
              disk[job[k].path] \in File /\ job[k] \in JobRow /\ job[k].path \in Path
    BY RowOfTask DEF Types, TypeOK, FilesAreThere, Working
  <2>1. ASSUME NEW j \in Job, NEW r \in Form, StoreUpload(j, r)
        PROVE  /\ task'[k] \in {"stored", "queued", "reading"} => disk'[job'[k].path] \in File
               /\ task'[k] = "writing" => content'[k] \in File
    <3>1. BuildFilename(r) \in Path /\ r.content \in File
      BY <2>1, SanitisedAssumption, ProvinceOfAssumption DEF StoreUpload, Acceptable, BuildFilename, Path
    <3>2. CASE k = j
      <4>1. task'[k] = "stored" /\ job'[k].path = BuildFilename(r) /\ disk'[BuildFilename(r)] = r.content
        BY <2>0, <2>1, <3>1, <3>2 DEF StoreUpload, Goto
      <4>. QED
        BY <3>1, <4>1
    <3>3. CASE k # j
      <4>1. task'[k] = task[k] /\ job'[k] = job[k] /\ content'[k] = content[k]
        BY <2>0, <2>1, <3>3 DEF StoreUpload, Goto
      <4>. QED
        BY <1>3, <2>0, <4>1 DEF Types, FilesAreThere
    <3>. QED
      BY <3>2, <3>3
  <2>2. ASSUME NEW j \in Job, CreateJob(j) \/ CreateJobFails(j) \/ TaskStep(j) \/ FailNotRecorded(j)
        PROVE  /\ task'[k] \in {"stored", "queued", "reading"} => disk'[job'[k].path] \in File
               /\ task'[k] = "writing" => content'[k] \in File
    <3>0. disk' = disk
      BY <2>2 DEF CreateJob, CreateJobFails, FailNotRecorded, TaskStep, MarkRunning, ReadFile,
                  CommitDocument, WriteFails, ResolveLineage, ApplyOperatorMetadata, Fail
    <3>1. CASE k # j
      <4>1. task'[k] = task[k] /\ job'[k] = job[k] /\ content'[k] = content[k]
        BY <2>0, <2>2, <3>1 DEF CreateJob, CreateJobFails, FailNotRecorded, TaskStep, MarkRunning, ReadFile,
                  CommitDocument, WriteFails, ResolveLineage, ApplyOperatorMetadata, Fail, Raise, Goto
      <4>. QED
        BY <2>0, <3>0, <4>1 DEF Types, FilesAreThere
    <3>2. CASE k = j
      <4>1. CASE ReadFile(j)
        BY <2>0, <3>0, <3>2, <4>1 DEF ReadFile, Goto
      <4>2. CASE MarkRunning(j)
        <5>1. \/ task'[j] = "failing"
              \/ task'[j] = "reading" /\ job' = [job EXCEPT ![j].status = "running"]
          BY <2>0, <4>2 DEF MarkRunning, Goto, Raise
        <5>2. CASE task'[j] = "reading" /\ job' = [job EXCEPT ![j].status = "running"]
          <6>1. job'[j].path = job[j].path
            BY <2>0, <3>2, <4>2, <5>2 DEF MarkRunning, JobRow
          <6>. QED
            BY <2>0, <3>0, <3>2, <4>2, <5>2, <6>1 DEF MarkRunning
        <5>. QED
          BY <3>2, <5>1, <5>2
      <4>3. CASE CreateJob(j)
        BY <2>0, <3>0, <3>2, <4>3 DEF CreateJob, Goto
      <4>4. CASE CreateJobFails(j) \/ CommitDocument(j) \/ WriteFails(j) \/ ResolveLineage(j)
                 \/ ApplyOperatorMetadata(j) \/ Fail(j) \/ FailNotRecorded(j)
        <5>1. task'[j] \in {"refused", "lineage", "after failure", "failing", "operator", "ended"}
          BY <2>0, <4>4 DEF CreateJobFails, CommitDocument, AfterCommit, WriteFails, ResolveLineage,
                            ApplyOperatorMetadata, Fail, FailNotRecorded, Goto, Raise
        <5>. QED
          BY <3>2, <5>1
      <4>. QED
        BY <2>2, <4>1, <4>2, <4>3, <4>4 DEF TaskStep
    <3>. QED
      BY <3>1, <3>2
  <2>3. CASE Restart
    <3>1. task'[k] \notin {"stored", "queued", "reading", "writing"}
      BY <2>3 DEF Restart, Live
    <3>. QED
      BY <3>1
  <2>4. CASE UNCHANGED vars
    BY <2>0, <2>4 DEF vars, Types, FilesAreThere
  <2>. QED
    BY <2>1, <2>2, <2>3, <2>4 DEF Next
<1>. QED
  BY <1>4, <1>5 DEF Types

LEMMA TypesHold == Spec => []Types
<1>1. Init => TypeOK /\ FilesAreThere
  <2>. SUFFICES ASSUME Init
                PROVE  TypeOK /\ FilesAreThere
    OBVIOUS
  <2>1. Archive!TypeOK
    <3>1. document \in Table /\ relation \subseteq Edge
      BY DEF Init, Table
    <3>. QED
      BY <3>1, ArchiveType
  <2>. QED
    BY <2>1, MaxRestartsAssumption DEF Init, TypeOK, FilesAreThere, Stage
<1>2. Types /\ [Next]_vars /\ RowsFollowTasks' => Types'
  BY TypesKept
<1>3. TypeOK /\ FilesAreThere /\ RowsFollowTasks => Types
  BY DEF Types
<1>. QED
  BY <1>1, <1>2, <1>3, RowsAlwaysFollowTasks, PTL DEF Spec

\* Every variable keeps its type, however uploads, tasks and restarts interleave:
\* a task that writes has read a file that was there.
THEOREM UploadsKeepTypes == Spec => []TypeOK
<1>1. Types => TypeOK
  BY DEF Types
<1>. QED
  BY <1>1, TypesHold, PTL


-----------------------------------------------------------------------------
(* Steps of one job *)

JobStep(j) == CreateJob(j) \/ TaskStep(j) \/ FailNotRecorded(j)

\* A step of one job keeps the rows and tasks of the others, the path of its
\* own row, and the files.
LEMMA JobStepMoves ==
    ASSUME Types, NEW j \in Job, JobStep(j)
    PROVE  /\ \A k \in Job \ {j} : task'[k] = task[k] /\ job'[k] = job[k] /\ content'[k] = content[k]
           /\ job[j] \in JobRow /\ job'[j] \in JobRow /\ job'[j].path = job[j].path
           /\ disk' = disk
<1>0. /\ task \in [Job -> Stage] /\ job \in [Job -> JobRow \union {Absent}]
      /\ content \in [Job -> File \union {Absent}]
  BY DEF Types, TypeOK
<1>1. disk' = disk
  BY DEF JobStep, CreateJob, FailNotRecorded, TaskStep, MarkRunning, ReadFile,
         CommitDocument, WriteFails, ResolveLineage, ApplyOperatorMetadata, Fail
<1>2. ASSUME NEW k \in Job \ {j}
      PROVE  task'[k] = task[k] /\ job'[k] = job[k] /\ content'[k] = content[k]
  BY <1>0, <1>2 DEF JobStep, CreateJob, FailNotRecorded, TaskStep, MarkRunning, ReadFile,
         CommitDocument, WriteFails, ResolveLineage, ApplyOperatorMetadata, Fail, Raise, Goto
<1>3. task[j] \in Working \union {"failing"}
  BY DEF JobStep, CreateJob, FailNotRecorded, TaskStep, MarkRunning, ReadFile, CommitDocument,
         WriteFails, ResolveLineage, ApplyOperatorMetadata, Fail, Working
<1>4. job[j] \in JobRow
  BY <1>3, RowOfTask DEF Types
<1>5. \/ job' = job
      \/ \E x \in JobStatus : job' = [job EXCEPT ![j] = [job[j] EXCEPT !.status = x]]
      \/ \E x \in Reason : job' = [job EXCEPT ![j] = [job[j] EXCEPT !.error = x]]
  BY DEF JobStep, CreateJob, FailNotRecorded, TaskStep, MarkRunning, ReadFile, CommitDocument,
         WriteFails, ResolveLineage, ApplyOperatorMetadata, Fail, Raise, Recorded, JobStatus, Reason
<1>6. job'[j] \in JobRow /\ job'[j].path = job[j].path
  BY <1>0, <1>4, <1>5 DEF JobRow
<1>. QED
  BY <1>1, <1>2, <1>4, <1>6

\* How the system moves, seen from one path and its jobs.
LEMMA StepsOfJobs ==
    ASSUME [Next]_vars
    PROVE  \/ \E j \in Job, r \in Form : StoreUpload(j, r)
           \/ \E j \in Job : CreateJobFails(j)
           \/ \E j \in Job : JobStep(j)
           \/ Restart
           \/ UNCHANGED vars
  BY DEF Next, JobStep

-----------------------------------------------------------------------------
(* The file that is there is the document that is indexed *)

Failed(j) ==
    \/ task[j] = "after failure"
    \/ task[j] = "failing" /\ job[j].error # "operator"
    \/ task[j] = "ended" /\ ~Indexed(j)

\* The task of j will read what is at p now, or has, or has failed.
OnTheWay(j, p) ==
    \/ task[j] \in {"stored", "queued", "reading"}
    \/ task[j] = "writing" /\ content[j] = disk[p]
    \/ Failed(j)

\* Whoever wrote a file last has yet to read it, or has read it as it is: the
\* last of several uploads to one path is what ends up in the corpus.
LatestIsOnTheWay ==
    \A p \in Path : JobsOf(p) # {} =>
        \/ \E j \in Job : task[j] \in {"refused", "lost"}
        \/ \E j \in JobsOf(p) : OnTheWay(j, p)
        \/ \E d \in Stored(document) : document[d].file = disk[p]

\* Content that is in the corpus stays in it.
LEMMA ContentStays ==
    ASSUME Types, [Next]_vars, NEW d \in Stored(document)
    PROVE  \E e \in Stored(document') : document'[e].file = document[d].file
<1>1. ASSUME NEW j \in Job, CommitDocument(j)
      PROVE  \E e \in Stored(document') : document'[e].file = document[d].file
  <2>1. PICK n \in DocId \ Stored(document) :
           /\ n \in Stored(document') /\ document'[n] = NewRow(content[j])
           /\ \A e \in Stored(document') \ {n} : document'[e] = document[e]
           /\ \A e \in Stored(document) \ Stored(document') : document[e].file = content[j]
    BY <1>1, CommitMoves
  <2>2. NewRow(content[j]).file = content[j]
    BY DEF NewRow
  <2>3. CASE d \in Stored(document')
    BY <2>1, <2>3
  <2>4. CASE d \notin Stored(document')
    BY <2>1, <2>2, <2>4
  <2>. QED
    BY <2>3, <2>4
<1>2. CASE \A j \in Job : ~CommitDocument(j)
  <2>1. document \in Table
    BY ArchiveType DEF Types, TypeOK
  <2>2. document' = document \/ document' = Pass(document)
    BY <1>2, TablesMove
  <2>. QED
    BY <2>1, <2>2, PassOverTable
<1>. QED
  BY <1>1, <1>2

LEMMA TaskStaysOnItsWay ==
    ASSUME Types, NEW j \in Job, JobStep(j), OnTheWay(j, job[j].path)
    PROVE  \/ OnTheWay(j, job[j].path)'
           \/ \E d \in Stored(document') : document'[d].file = disk'[job[j].path]
<1>. DEFINE p == job[j].path
<1>0. /\ task \in [Job -> Stage] /\ content \in [Job -> File \union {Absent}]
      /\ job \in [Job -> JobRow \union {Absent}]
      /\ job[j] \in JobRow /\ job'[j].path = p /\ disk' = disk
      /\ RowFollowsTask(job[j], task[j])
  BY JobStepMoves DEF Types, TypeOK, RowsFollowTasks
<1>1. ASSUME task'[j] = "failing", NEW reason \in {"mark", "document", "lineage"}, Raise(j, reason)
      PROVE  OnTheWay(j, p)'
  <2>1. job'[j].error = reason
    BY <1>0, <1>1 DEF Raise, JobRow
  <2>. QED
    BY <1>0, <1>1, <2>1 DEF OnTheWay, Failed
<1>2. CASE CreateJob(j)
  BY <1>0, <1>2 DEF CreateJob, Goto, OnTheWay
<1>3. CASE MarkRunning(j)
  <2>1. task'[j] = "reading" \/ (Raise(j, "mark") /\ task'[j] = "failing")
    BY <1>0, <1>3 DEF MarkRunning, Raise, Goto
  <2>. QED
    BY <1>0, <1>1, <2>1 DEF OnTheWay
<1>4. CASE ReadFile(j)
  <2>1. task'[j] = "after failure" \/ (task'[j] = "writing" /\ content'[j] = disk[p])
    BY <1>0, <1>4 DEF ReadFile, Goto
  <2>. QED
    BY <1>0, <2>1 DEF OnTheWay, Failed
<1>5. CASE CommitDocument(j)
  <2>1. content[j] = disk[p]
    BY <1>5 DEF CommitDocument, OnTheWay, Failed
  <2>2. \E d \in Stored(document') : document'[d] = NewRow(content[j])
    BY <1>5, CommitMoves
  <2>3. NewRow(content[j]).file = content[j]
    BY DEF NewRow
  <2>. QED
    BY <1>0, <2>1, <2>2, <2>3
<1>6. CASE WriteFails(j)
  <2>1. task'[j] = "after failure"
    BY <1>0, <1>6 DEF WriteFails, Goto
  <2>. QED
    BY <2>1 DEF OnTheWay, Failed
<1>7. CASE ResolveLineage(j)
  <2>1. task[j] = "after failure"
    BY <1>7 DEF ResolveLineage, OnTheWay, Failed
  <2>2. Raise(j, "document") \/ Raise(j, "lineage")
    BY <1>7, <2>1 DEF ResolveLineage
  <2>3. task'[j] = "failing"
    BY <1>0, <2>2 DEF Raise, Goto
  <2>. QED
    BY <1>1, <2>2, <2>3
<1>8. CASE ApplyOperatorMetadata(j)
  BY <1>8 DEF ApplyOperatorMetadata, OnTheWay, Failed
<1>9. CASE Fail(j) \/ FailNotRecorded(j)
  <2>1. task[j] = "failing" /\ job[j].error # "operator" /\ job[j].status \in {"pending", "running"}
    BY <1>0, <1>9 DEF Fail, FailNotRecorded, OnTheWay, Failed, RowFollowsTask
  <2>2. /\ task'[j] = "ended" /\ job'[j].error # "operator"
        /\ job'[j].status # "completed"
    BY <1>0, <1>9, <2>1 DEF Fail, FailNotRecorded, Goto, Recorded, JobRow
  <2>. QED
    BY <2>2 DEF OnTheWay, Failed, Indexed
<1>. QED
  BY <1>0, <1>2, <1>3, <1>4, <1>5, <1>6, <1>7, <1>8, <1>9 DEF JobStep, TaskStep

LEMMA LatestStaysOnItsWay ==
    ASSUME Types, LatestIsOnTheWay, [Next]_vars
    PROVE  LatestIsOnTheWay'
<1>0. /\ task \in [Job -> Stage] /\ content \in [Job -> File \union {Absent}]
      /\ job \in [Job -> JobRow \union {Absent}] /\ disk \in [Path -> File \union {Absent}]
      /\ \A j \in Job : RowFollowsTask(job[j], task[j])
  BY DEF Types, TypeOK, RowsFollowTasks
<1>. SUFFICES ASSUME NEW p \in Path, JobsOf(p)' # {}, \A j \in Job : task'[j] \notin {"refused", "lost"}
              PROVE  \/ \E j \in JobsOf(p)' : OnTheWay(j, p)'
                     \/ \E d \in Stored(document') : document'[d].file = disk'[p]
  BY DEF LatestIsOnTheWay
<1>1. ASSUME NEW j \in Job, NEW r \in Form, StoreUpload(j, r)
      PROVE  \/ \E k \in JobsOf(p)' : OnTheWay(k, p)'
             \/ \E d \in Stored(document') : document'[d].file = disk'[p]
  <2>. DEFINE q == BuildFilename(r)
              row == [path |-> q, status |-> "pending", error |-> "none"]
  <2>1. /\ task[j] = "none" /\ task'[j] = "stored" /\ job'[j] = row
        /\ disk' = [disk EXCEPT ![q] = r.content]
        /\ \A k \in Job \ {j} : task'[k] = task[k] /\ job'[k] = job[k] /\ content'[k] = content[k]
    BY <1>0, <1>1 DEF StoreUpload, Goto
  <2>3. CASE p = q
    <3>1. q \in Path
      BY <2>3
    <3>2. row \in JobRow
      BY <3>1 DEF JobRow, JobStatus, Reason
    <3>3. job'[j] # Absent /\ job'[j].path = p
      BY <2>1, <2>3, <3>2, NoJobAssumption
    <3>. QED
      BY <2>1, <3>3 DEF JobsOf, OnTheWay
  <2>4. CASE p # q
    <3>1. disk'[p] = disk[p]
      BY <1>0, <2>1, <2>4
    <3>2. \A k \in JobsOf(p)' : k # j
      BY <2>1, <2>4 DEF JobsOf
    <3>3. JobsOf(p)' \subseteq JobsOf(p)
      BY <2>1, <3>2 DEF JobsOf
    <3>4. \A k \in Job : task[k] \notin {"refused", "lost"}
      BY <2>1
    <3>5. \/ \E k \in JobsOf(p) : OnTheWay(k, p)
          \/ \E d \in Stored(document) : document[d].file = disk[p]
      BY <3>3, <3>4 DEF LatestIsOnTheWay
    <3>6. ASSUME NEW k \in JobsOf(p), OnTheWay(k, p)
          PROVE  k \in JobsOf(p)' /\ OnTheWay(k, p)'
      <4>1. k \in Job /\ k # j
        BY <2>1, <3>6 DEF OnTheWay, Failed, JobsOf
      <4>2. task'[k] = task[k] /\ job'[k] = job[k] /\ content'[k] = content[k]
        BY <2>1, <4>1
      <4>. QED
        BY <3>1, <3>6, <4>1, <4>2 DEF JobsOf, OnTheWay, Failed, Indexed
    <3>7. UNCHANGED document
      BY <1>1 DEF StoreUpload, tables
    <3>. QED
      BY <3>1, <3>5, <3>6, <3>7
  <2>. QED
    BY <2>3, <2>4
<1>2. ASSUME NEW j \in Job, CreateJobFails(j)
      PROVE  FALSE
  BY <1>0, <1>2 DEF CreateJobFails, Goto
<1>3. ASSUME NEW j \in Job, JobStep(j)
      PROVE  \/ \E k \in JobsOf(p)' : OnTheWay(k, p)'
             \/ \E d \in Stored(document') : document'[d].file = disk'[p]
  <2>1. /\ \A k \in Job \ {j} : task'[k] = task[k] /\ job'[k] = job[k] /\ content'[k] = content[k]
        /\ job[j] \in JobRow /\ job'[j] \in JobRow /\ job'[j].path = job[j].path
        /\ disk' = disk
    BY <1>3, JobStepMoves
  <2>2. JobsOf(p)' = JobsOf(p)
    BY <2>1, NoJobAssumption DEF JobsOf
  <2>3. task[j] \in Working \union {"failing"}
    BY <1>3 DEF JobStep, CreateJob, FailNotRecorded, TaskStep, MarkRunning, ReadFile, CommitDocument,
         WriteFails, ResolveLineage, ApplyOperatorMetadata, Fail, Working
  <2>4. \A k \in Job : task[k] \notin {"refused", "lost"}
    BY <2>1, <2>3 DEF Working
  <2>5. \/ \E k \in JobsOf(p) : OnTheWay(k, p)
        \/ \E d \in Stored(document) : document[d].file = disk[p]
    BY <2>2, <2>4 DEF LatestIsOnTheWay
  <2>6. ASSUME NEW k \in JobsOf(p), OnTheWay(k, p)
        PROVE  \/ OnTheWay(k, p)'
               \/ \E d \in Stored(document') : document'[d].file = disk'[p]
    <3>1. k \in Job /\ job[k].path = p
      BY <2>6 DEF JobsOf
    <3>2. CASE k = j
      <4>1. \/ OnTheWay(j, job[j].path)'
            \/ \E d \in Stored(document') : document'[d].file = disk'[job[j].path]
        BY <1>3, <2>6, <3>1, <3>2, TaskStaysOnItsWay
      <4>. QED
        BY <2>1, <3>1, <3>2, <4>1
    <3>3. CASE k # j
      <4>1. task'[k] = task[k] /\ job'[k] = job[k] /\ content'[k] = content[k]
        BY <2>1, <3>1, <3>3
      <4>. QED
        BY <2>1, <2>6, <4>1 DEF OnTheWay, Failed, Indexed
    <3>. QED
      BY <3>2, <3>3
  <2>7. ASSUME NEW d \in Stored(document), document[d].file = disk[p]
        PROVE  \E e \in Stored(document') : document'[e].file = disk'[p]
    BY <2>1, <2>7, ContentStays
  <2>. QED
    BY <2>2, <2>5, <2>6, <2>7
<1>4. ASSUME Restart \/ UNCHANGED vars
      PROVE  \/ \E k \in JobsOf(p)' : OnTheWay(k, p)'
             \/ \E d \in Stored(document') : document'[d].file = disk'[p]
  <2>1. task' = task /\ job' = job /\ disk' = disk /\ content' = content /\ document' = document
    <3>1. CASE Restart
      <4>1. \A k \in Job : ~Live(k)
        BY <3>1 DEF Restart
      <4>2. \A k \in Job : task[k] \notin {"stored", "failing"}
        BY <4>1 DEF Live
      <4>. QED
        BY <1>0, <3>1, <4>1, <4>2 DEF Restart, tables
    <3>. QED
      BY <1>4, <3>1 DEF vars
  <2>. QED
    BY <2>1 DEF LatestIsOnTheWay, JobsOf, OnTheWay, Failed, Indexed
<1>. QED
  BY <1>1, <1>2, <1>3, <1>4, StepsOfJobs

\* Once every upload to a path has been indexed, the file that is there is in
\* the corpus, however many uploads overwrote it while their tasks ran.
THEOREM LatestUploadWins == Spec => []LatestUploadIsIndexed
<1>1. Init => LatestIsOnTheWay
  BY DEF Init, LatestIsOnTheWay, JobsOf
<1>2. Types /\ LatestIsOnTheWay /\ [Next]_vars => LatestIsOnTheWay'
  BY LatestStaysOnItsWay
<1>3. LatestIsOnTheWay => LatestUploadIsIndexed
  BY DEF LatestIsOnTheWay, LatestUploadIsIndexed, OnTheWay, Failed, Indexed
<1>. QED
  BY <1>1, <1>2, <1>3, TypesHold, PTL DEF Spec


-----------------------------------------------------------------------------
(* A document left without a verdict *)

\* No code of an upload sets verified_by_human: a pass may judge every row.
NothingVerified == \A d \in Stored(document) : ~document[d].verified

\* The task of j accounts for what it stored not having been judged.
Explains(j) ==
    \/ task[j] \in {"lineage", "lost"} \/ job[j].error = "lineage"
    \/ task[j] = "ended" /\ job[j].status \notin {"completed", "failed"}

LEMMA NothingIsVerified ==
    ASSUME Types, NothingVerified, [Next]_vars
    PROVE  NothingVerified'
<1>1. ASSUME NEW j \in Job, CommitDocument(j)
      PROVE  NothingVerified'
  <2>1. PICK n \in DocId \ Stored(document) :
           /\ document'[n] = NewRow(content[j])
           /\ \A e \in Stored(document') \ {n} : e \in Stored(document) /\ document'[e] = document[e]
    BY <1>1, CommitMoves
  <2>2. ~NewRow(content[j]).verified
    BY DEF NewRow
  <2>. QED
    BY <2>1, <2>2 DEF NothingVerified
<1>2. CASE \A j \in Job : ~CommitDocument(j)
  <2>1. document \in Table
    BY ArchiveType DEF Types, TypeOK
  <2>2. document' = document \/ document' = Pass(document)
    BY <1>2, TablesMove
  <2>. QED
    BY <2>1, <2>2, PassOverTable DEF NothingVerified
<1>. QED
  BY <1>1, <1>2

\* What its task accounts for, it accounts for until the end, unless a pass
\* judges every document.
LEMMA TaskStillExplains ==
    ASSUME Types, NEW j \in Job, JobStep(j), Explains(j)
    PROVE  Explains(j)' \/ document' = Pass(document) \/ Stored(document) = {}
<1>0. /\ task \in [Job -> Stage] /\ job \in [Job -> JobRow \union {Absent}]
      /\ job[j] \in JobRow /\ RowFollowsTask(job[j], task[j])
  BY JobStepMoves DEF Types, TypeOK, RowsFollowTasks
<1>1. CASE task[j] = "lineage"
  <2>1. ResolveLineage(j)
    BY <1>1 DEF JobStep, CreateJob, FailNotRecorded, TaskStep, MarkRunning, ReadFile, CommitDocument,
         WriteFails, ApplyOperatorMetadata, Fail
  <2>2. CASE Raise(j, "lineage")
    <3>1. job'[j].error = "lineage"
      BY <1>0, <2>2 DEF Raise, JobRow
    <3>. QED
      BY <3>1 DEF Explains
  <2>3. CASE ~Raise(j, "lineage")
    BY <2>1, <2>3, ArchiveSteps DEF ResolveLineage
  <2>. QED
    BY <2>2, <2>3
<1>2. CASE task[j] # "lineage"
  <2>1. task[j] = "failing" /\ job[j].error = "lineage" /\ job[j].status \in {"pending", "running"}
    <3>1. task[j] \in Working \union {"failing"}
      BY DEF JobStep, CreateJob, FailNotRecorded, TaskStep, MarkRunning, ReadFile, CommitDocument,
             WriteFails, ResolveLineage, ApplyOperatorMetadata, Fail, Working
    <3>. QED
      BY <1>0, <1>2, <3>1 DEF Explains, RowFollowsTask, Working
  <2>2. Fail(j) \/ FailNotRecorded(j)
    BY <2>1 DEF JobStep, CreateJob, TaskStep, MarkRunning, ReadFile, CommitDocument,
         WriteFails, ResolveLineage, ApplyOperatorMetadata
  <2>3. CASE Fail(j)
    <3>1. job'[j].error = "lineage"
      BY <1>0, <2>1, <2>3 DEF Fail, JobRow
    <3>. QED
      BY <3>1 DEF Explains
  <2>4. CASE FailNotRecorded(j)
    <3>1. task'[j] = "ended" /\ job'[j].status = job[j].status
      BY <1>0, <2>4 DEF FailNotRecorded, Goto, JobRow
    <3>. QED
      BY <2>1, <3>1 DEF Explains
  <2>. QED
    BY <2>2, <2>3, <2>4
<1>. QED
  BY <1>1, <1>2

LaterJobsOf(p) == {j \in Job : job'[j] # Absent /\ job'[j].path = p}

LEMMA UnjudgedStaysExplained ==
    ASSUME Types, NothingVerified, UnjudgedIsExplained, [Next]_vars
    PROVE  UnjudgedIsExplained'
<1>0. /\ task \in [Job -> Stage] /\ job \in [Job -> JobRow \union {Absent}]
      /\ \A j \in Job : RowFollowsTask(job[j], task[j])
      /\ document \in Table
  BY ArchiveType DEF Types, TypeOK, RowsFollowTasks
<1>. SUFFICES ASSUME NEW d \in Stored(document'),
                     Placed(FactsOf(d, document'[d].file)), Dated(FactsOf(d, document'[d].file)),
                     document'[d].status = "unknown"
              PROVE  \E j \in LaterJobsOf(source'[d]) : Explains(j)'
  BY DEF UnjudgedIsExplained, Explains, JobsOf, LaterJobsOf
<1>1. document' # Pass(document)
  <2>. SUFFICES ASSUME document' = Pass(document)
                PROVE  FALSE
    OBVIOUS
  <2>. DEFINE f == FactsOf(d, document[d].file)
  <2>1. d \in Stored(document) /\ document'[d].file = document[d].file
    BY <1>0, PassOverTable
  <2>2. document'[d].status = ResolveOne(LoadFacts(document), f)
    BY <1>0, <2>1, PassOverTable DEF NothingVerified
  <2>. QED
    BY <2>1, <2>2 DEF ResolveOne
\* The witness is one of before, and still explains.
<1>2. ASSUME d \in Stored(document), document'[d] = document[d], source'[d] = source[d],
             \A k \in Job : k \in JobsOf(source[d]) /\ Explains(k) =>
                               k \in LaterJobsOf(source[d]) /\ Explains(k)'
      PROVE  \E j \in LaterJobsOf(source'[d]) : Explains(j)'
  <2>1. PICK k \in JobsOf(source[d]) : Explains(k)
    BY <1>2 DEF UnjudgedIsExplained, Explains
  <2>2. k \in Job
    BY DEF JobsOf
  <2>3. k \in LaterJobsOf(source[d]) /\ Explains(k)'
    BY <1>2, <2>1, <2>2
  <2>. QED
    BY <1>2, <2>3
<1>3. ASSUME \A j \in Job : ~CommitDocument(j)
      PROVE  d \in Stored(document) /\ document'[d] = document[d] /\ source'[d] = source[d]
  BY <1>1, <1>3, TablesMove
<1>4. ASSUME NEW j \in Job, (\E r \in Form : StoreUpload(j, r)) \/ CreateJobFails(j)
      PROVE  \E k \in LaterJobsOf(source'[d]) : Explains(k)'
  <2>1. /\ task[j] \in {"none", "stored"}
        /\ \A k \in Job \ {j} : task'[k] = task[k] /\ job'[k] = job[k]
        /\ UNCHANGED tables
    BY <1>0, <1>4 DEF StoreUpload, CreateJobFails, Goto
  <2>2. j \in JobsOf(source[d]) => ~Explains(j)
    BY <1>0, <2>1 DEF RowFollowsTask, Working, JobsOf, Explains
  <2>3. d \in Stored(document) /\ document'[d] = document[d] /\ source'[d] = source[d]
    BY <2>1 DEF tables
  <2>. QED
    BY <1>2, <2>1, <2>2, <2>3 DEF JobsOf, LaterJobsOf, Explains
<1>5. ASSUME NEW j \in Job, JobStep(j)
      PROVE  \E k \in LaterJobsOf(source'[d]) : Explains(k)'
  <2>1. /\ \A k \in Job \ {j} : task'[k] = task[k] /\ job'[k] = job[k]
        /\ job[j] \in JobRow /\ job'[j] \in JobRow /\ job'[j].path = job[j].path
    BY <1>5, JobStepMoves
  <2>2. \A q : LaterJobsOf(q) = JobsOf(q)
    BY <2>1, NoJobAssumption DEF JobsOf, LaterJobsOf
  <2>3. ASSUME d \in Stored(document), document'[d] = document[d], source'[d] = source[d]
        PROVE  \E k \in LaterJobsOf(source'[d]) : Explains(k)'
    <3>1. Explains(j) => Explains(j)'
      BY <1>1, <1>5, <2>3, TaskStillExplains
    <3>2. \A k \in Job : Explains(k) => Explains(k)'
      BY <2>1, <3>1 DEF Explains
    <3>. QED
      BY <1>2, <2>2, <2>3, <3>2
  <2>4. CASE CommitDocument(j)
    <3>1. PICK n \in DocId \ Stored(document) :
             /\ source'[n] = job[j].path
             /\ \A e \in Stored(document') \ {n} :
                   e \in Stored(document) /\ document'[e] = document[e] /\ source'[e] = source[e]
      BY <2>4, CommitMoves
    <3>2. CASE d = n
      <4>1. task'[j] = "lineage"
        BY <1>0, <2>4 DEF CommitDocument, AfterCommit, Goto
      <4>2. j \in LaterJobsOf(source'[d])
        BY <2>1, <3>1, <3>2, NoJobAssumption DEF JobsOf, LaterJobsOf
      <4>. QED
        BY <4>1, <4>2 DEF Explains
    <3>3. CASE d # n
      BY <2>3, <3>1, <3>3
    <3>. QED
      BY <3>2, <3>3
  <2>5. CASE ~CommitDocument(j)
    <3>1. \A k \in Job : ~CommitDocument(k)
      <4>1. ASSUME NEW k \in Job, CommitDocument(k), k # j
            PROVE  FALSE
        <5>1. task[k] = "writing" /\ task'[k] = "lineage"
          BY <1>0, <4>1 DEF CommitDocument, AfterCommit, Goto
        <5>. QED
          BY <2>1, <4>1, <5>1
      <4>. QED
        BY <2>5, <4>1
    <3>. QED
      BY <1>3, <2>3, <3>1
  <2>. QED
    BY <2>4, <2>5
<1>6. ASSUME Restart \/ UNCHANGED vars
      PROVE  \E k \in LaterJobsOf(source'[d]) : Explains(k)'
  <2>1. d \in Stored(document) /\ document'[d] = document[d] /\ source'[d] = source[d]
    BY <1>6 DEF Restart, vars, tables
  <2>2. ASSUME NEW k \in Job, k \in JobsOf(source[d]), Explains(k), Restart
        PROVE  k \in LaterJobsOf(source[d]) /\ Explains(k)'
    <3>. DEFINE row == [job[k] EXCEPT !.error = "none"]
    <3>0. job[k] # Absent /\ job[k] \in JobRow /\ job[k].path = source[d] /\ task[k] # "stored"
      BY <1>0, <2>2 DEF JobsOf, Explains, RowFollowsTask, Working
    <3>1. job'[k] = IF task[k] = "failing" THEN row ELSE job[k]
      BY <2>2, <3>0 DEF Restart
    <3>2. row \in JobRow /\ row.path = job[k].path
      BY <3>0 DEF JobRow, Reason
    <3>3. k \in LaterJobsOf(source[d])
      BY <2>1, <3>0, <3>1, <3>2, NoJobAssumption DEF JobsOf, LaterJobsOf
    <3>4. CASE Live(k)
      <4>1. task'[k] = "lost"
        BY <2>2, <3>4 DEF Restart
      <4>. QED
        BY <3>3, <4>1 DEF Explains
    <3>5. CASE ~Live(k)
      <4>1. task'[k] = task[k] /\ task[k] # "failing"
        BY <2>2, <3>5 DEF Restart, Live
      <4>. QED
        BY <2>2, <3>1, <3>3, <4>1 DEF Explains
    <3>. QED
      BY <3>4, <3>5
  <2>3. CASE Restart
    BY <1>2, <2>1, <2>2, <2>3
  <2>4. CASE UNCHANGED vars
    BY <1>2, <2>1, <2>4 DEF vars, JobsOf, LaterJobsOf, Explains
  <2>. QED
    BY <1>6, <2>3, <2>4
<1>. QED
  BY <1>4, <1>5, <1>6, StepsOfJobs

\* A document that could be judged has been, except while the task that stored
\* it has not come to its lineage pass, was lost before it, or saw it fail.
THEOREM UnjudgedStaysAccountedFor == Spec => []UnjudgedIsExplained
<1>1. Init => NothingVerified /\ UnjudgedIsExplained
  BY DEF Init, NothingVerified, UnjudgedIsExplained, Stored
<1>2. Types /\ NothingVerified /\ [Next]_vars => NothingVerified'
  BY NothingIsVerified
<1>3. Types /\ NothingVerified /\ UnjudgedIsExplained /\ [Next]_vars => UnjudgedIsExplained'
  BY UnjudgedStaysExplained
<1>. QED
  BY <1>1, <1>2, <1>3, TypesHold, PTL DEF Spec

=============================================================================
