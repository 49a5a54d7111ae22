--------------------------- MODULE PublicationProofs ---------------------------
(***************************************************************************)
(* Theorems about Publication, for any runs, users, documents and number   *)
(* of changes.                                                             *)
(***************************************************************************)
EXTENDS Publication, TLAPS

\* What is known of a report: its run is finished, and the report it revises was
\* approved in the same series.
ReportInv ==
  \A r \in Runs : report[r] # None =>
    /\ run[r].status = "completed" /\ run[r].submitted
    /\ run[r].corpus \in Public..revision
    /\ report[r].parent = None => report[r].series \in {None, r}
    /\ report[r].parent # None =>
         /\ Approved(report[r].parent)
         /\ report[r].series # None /\ report[report[r].parent].series = report[r].series

\* A series is named by a report that was submitted once; if it is still there,
\* it belongs to it.
SeriesInv ==
  \A r \in Runs : report[r] # None /\ report[r].series # None =>
    /\ run[report[r].series].submitted
    /\ report[report[r].series] # None => report[report[r].series].series = report[r].series

\* The source of a revision is not deleted while the job exists.
JobInv ==
  \A r \in Runs : job[r] # None => Approved(job[r].source) /\ report[job[r].source].series # None

\* Research has fixed the corpus of a run that has been started.
RunInv ==
  \A r \in Runs : run[r].status \in {"running", "completed"} => run[r].corpus \in Public..revision

Assessed(e, r) == e \in impact[r] /\ report[r].evidence \notin {"legacy", "current"}
Older(e, r) == report[r] # None /\ run[r].corpus \in 0..(e - 1)

\* Events are not ahead of the corpus, and the reports a process has done are assessed.
EventInv ==
  /\ \A e \in Revisions : event[e] # None => e <= revision
  /\ at # 0 => event[at] # None
  /\ at = 0 => todo = {}
  /\ at # 0 => \A r \in Runs \ todo : Older(at, r) => Assessed(at, r)

StructureInv == RunInv /\ ReportInv /\ SeriesInv /\ JobInv
PublicationInv == TypeOK /\ StructureInv /\ HeadIsLatest /\ NoFork /\ EventInv /\ ProcessedEventsAssessed

-----------------------------------------------------------------------------
(* Types.                                                                  *)

LEMMA Bounds ==
  /\ MaxRevision \in Nat
  /\ None \notin Runs /\ None \notin Job /\ None \notin Report /\ None \notin Event /\ None \notin Int
  BY PublicationAssumption

LEMMA CorpusFacts == 0 \in Corpora /\ Public \in Corpora /\ 0..MaxRevision \subseteq Corpora
  BY Bounds DEF Corpora, Public

\* The tables of runs that the actions compute.
LEMMA RunTypes ==
  ASSUME NEW x \in Run
  PROVE  /\ \A u \in Users, p \in BOOLEAN :
              [x EXCEPT !.status = "queued", !.owner = u, !.public = p] \in Run
         /\ \A c \in Corpora : [x EXCEPT !.status = "running", !.corpus = c] \in Run
         /\ \A d \in SUBSET Docs : [x EXCEPT !.status = "completed", !.cites = d] \in Run
         /\ [x EXCEPT !.submitted = TRUE] \in Run
         /\ \A u \in Users, c \in Corpora :
              [x EXCEPT !.status = "completed", !.owner = u, !.corpus = c, !.submitted = TRUE] \in Run
  BY DEF Run

LEMMA PendingType ==
  ASSUME NEW s \in Runs, NEW p \in Runs \union {None}, NEW n \in Nat
  PROVE  Pending(s, p, n) \in Report
  BY DEF Pending, Report

LEMMA WorseType ==
  ASSUME NEW x \in {"legacy", "current", "check_pending", "undetermined", "needs_review"},
         NEW e, NEW r
  PROVE  /\ Worse(x, Verdict(e, r)) \in {"check_pending", "undetermined", "needs_review"}
         /\ Gravity(Worse(x, Verdict(e, r))) >= Gravity(x)
  BY DEF Worse, Verdict, Gravity

LEMMA TypeInit == Init => TypeOK
<1> SUFFICES ASSUME Init PROVE TypeOK
  OBVIOUS
<1>1. NoRun \in Run
  BY DEF NoRun, Run
<1>2. \A u \in Users : [NoRun EXCEPT !.status = "completed", !.owner = u, !.corpus = 0, !.submitted = TRUE] \in Run
  BY <1>1, RunTypes, CorpusFacts
<1>3. LegacyReport \in Report
  BY DEF LegacyReport, Report
<1>4. run \in [Runs -> Run]
  BY <1>1, <1>2 DEF Init
<1>5. report \in [Runs -> Report \union {None}]
  BY <1>3 DEF Init
<1> QED
  BY <1>4, <1>5, Bounds DEF Init, TypeOK

LEMMA SubmitType ==
  ASSUME TypeOK, NEW r \in Runs, Submit(r), JobInv PROVE report' \in [Runs -> Report \union {None}]
<1>1. CASE SubmitFirst(r)
  <2>1. Pending(r, None, 1) \in Report
    BY PendingType
  <2> QED
    BY <1>1, <2>1 DEF TypeOK, SubmitFirst
<1>2. CASE SubmitRevision(r)
  <2>1. job[r] \in Job /\ job[r].source \in Runs
    BY <1>2 DEF SubmitRevision, TypeOK, Job
  <2>2. report[job[r].source] \in Report /\ report[job[r].source].series \in Runs
    BY <1>2, <2>1 DEF SubmitRevision, TypeOK, JobInv, Report
  <2>3. \A t \in InSeries(report[job[r].source].series) : report[t] \in Report /\ report[t].number \in Nat
    BY DEF InSeries, TypeOK, Report
  <2>4. PICK n \in Nat : report' = [report EXCEPT ![r] = Pending(report[job[r].source].series, job[r].source, n)]
    <3> DEFINE s == report[job[r].source].series
    <3>1. PICK last \in {0} \union {report[t].number : t \in InSeries(s)} :
            report' = [report EXCEPT ![r] = Pending(s, job[r].source, last + 1)]
      BY <1>2 DEF SubmitRevision
    <3>2. last \in Nat
      BY <2>3
    <3>3. last + 1 \in Nat
      BY <3>2
    <3> QED
      BY <3>1, <3>3, Zenon
  <2>5. Pending(report[job[r].source].series, job[r].source, n) \in Report
    BY <2>1, <2>2, PendingType
  <2> QED
    BY <2>4, <2>5 DEF TypeOK
<1> QED
  BY <1>1, <1>2 DEF Submit

LEMMA TypeStep ==
  ASSUME TypeOK, JobInv, EventInv, [Next]_publicationVars PROVE TypeOK'
<1> USE Bounds
<1>1. ASSUME NEW r \in Runs, NEW u \in Users, NEW public \in BOOLEAN, Research(u, r, public) PROVE TypeOK'
  <2>1. [run[r] EXCEPT !.status = "queued", !.owner = u, !.public = public] \in Run
    BY RunTypes DEF TypeOK
  <2> QED
    BY <1>1, <2>1 DEF Research, TypeOK, process
<1>2. ASSUME NEW r \in Runs, StartRun(r) PROVE TypeOK'
  <2>1. PICK c \in Corpora : run' = [run EXCEPT ![r] = [@ EXCEPT !.status = "running", !.corpus = c]]
    BY <1>2, CorpusFacts DEF StartRun, TypeOK
  <2>2. [run[r] EXCEPT !.status = "running", !.corpus = c] \in Run
    BY RunTypes DEF TypeOK
  <2> QED
    BY <1>2, <2>1, <2>2 DEF StartRun, TypeOK, process
<1>3. ASSUME NEW r \in Runs, CompleteRun(r) PROVE TypeOK'
  <2>1. PICK d \in SUBSET Docs : run' = [run EXCEPT ![r] = [@ EXCEPT !.status = "completed", !.cites = d]]
    BY <1>3 DEF CompleteRun
  <2>2. [run[r] EXCEPT !.status = "completed", !.cites = d] \in Run
    BY RunTypes DEF TypeOK
  <2> QED
    BY <1>3, <2>1, <2>2 DEF CompleteRun, TypeOK, process
<1>4. ASSUME NEW r \in Runs, Submit(r) PROVE TypeOK'
  <2>1. run' \in [Runs -> Run]
    BY <1>4, RunTypes DEF Submit, TypeOK
  <2> QED
    BY <1>4, <2>1, SubmitType DEF Submit, TypeOK, process
<1>5. ASSUME NEW r \in Runs, NEW a \in Users, Approve(a, r) PROVE TypeOK'
  BY <1>5 DEF Approve, TypeOK, Report, process
<1>6. ASSUME NEW r \in Runs, NEW a \in Users, Reject(a, r) PROVE TypeOK'
  BY <1>6 DEF Reject, TypeOK, Report, process
<1>7. ASSUME NEW r \in Runs, Withdraw(r) PROVE TypeOK'
  BY <1>7 DEF Withdraw, TypeOK, Report, process
<1>8. ASSUME NEW r \in Runs, Delete(r) PROVE TypeOK'
  BY <1>8 DEF Delete, TypeOK, process
<1>9. ASSUME NEW r \in Runs, NEW u \in Users, NEW t \in Runs, Revise(u, r, t) PROVE TypeOK'
  <2>1. OwnSeries(r) \in Runs
    BY <1>9 DEF Revise, OwnSeries, TypeOK, Report
  <2>2. report' \in [Runs -> Report \union {None}] /\ head' \in [Runs -> Runs \union {None}]
    BY <1>9, <2>1 DEF Revise, TypeOK, Report
  <2>3. run' \in [Runs -> Run]
    <3>1. run[r].public \in BOOLEAN
      BY DEF TypeOK, Run
    <3>2. [run[t] EXCEPT !.status = "queued", !.owner = u, !.public = run[r].public] \in Run
      BY <3>1, RunTypes DEF TypeOK
    <3>3. run' = [run EXCEPT ![t] = [@ EXCEPT !.status = "queued", !.owner = u, !.public = run[r].public]]
      BY <1>9 DEF Revise
    <3> QED
      BY <3>2, <3>3 DEF TypeOK
  <2>4. job' \in [Runs -> Job \union {None}]
    BY <1>9 DEF Revise, TypeOK, Job, Corpora, Public
  <2> QED
    BY <1>9, <2>2, <2>3, <2>4 DEF Revise, TypeOK, process
<1>10. ASSUME NEW d \in Docs, Change(d) PROVE TypeOK'
  BY <1>10 DEF Change, TypeOK, Event, process, Revisions
<1>11. ASSUME NEW r \in Runs, Recheck(r) PROVE TypeOK'
  BY <1>11 DEF Recheck, TypeOK, Report, process
<1>12. ASSUME NEW e \in Revisions, TakeEvent(e) PROVE TypeOK'
  BY <1>12 DEF TakeEvent, TypeOK, tables, Revisions
<1>13. ASSUME NEW r \in Runs, Assess(r) PROVE TypeOK'
  <2>1. at \in Revisions
    BY <1>13 DEF Assess, EventInv, TypeOK, Revisions
  <2>2. ASSUME report[r] # None PROVE [report EXCEPT ![r].evidence = Worse(@, Verdict(at, r))] \in [Runs -> Report \union {None}]
    <3>1. report[r] \in Report /\ report[r].evidence \in {"legacy", "current", "check_pending", "undetermined", "needs_review"}
      BY <2>2 DEF TypeOK, Report
    <3>2. Worse(report[r].evidence, Verdict(at, r)) \in {"check_pending", "undetermined", "needs_review"}
      BY <3>1, WorseType
    <3> QED
      BY <3>1, <3>2 DEF Report, TypeOK
  <2>3. report' \in [Runs -> Report \union {None}]
    BY <1>13, <2>2 DEF Assess, TypeOK
  <2>4. impact' \in [Runs -> SUBSET Revisions]
    BY <1>13, <2>1 DEF Assess, TypeOK
  <2> QED
    BY <1>13, <2>3, <2>4 DEF Assess, TypeOK
<1>14. ASSUME FinishEvent PROVE TypeOK'
  <2>1. at \in Revisions /\ event[at] \in Event
    BY <1>14 DEF FinishEvent, TypeOK, Revisions, EventInv
  <2>2. event' \in [Revisions -> Event \union {None}]
    BY <1>14, <2>1 DEF FinishEvent, TypeOK, Event
  <2> QED
    BY <1>14, <2>2 DEF FinishEvent, TypeOK
<1>15. ASSUME AbandonEvent PROVE TypeOK'
  BY <1>15 DEF AbandonEvent, TypeOK, tables
<1>16. ASSUME UNCHANGED publicationVars PROVE TypeOK'
  BY <1>16 DEF TypeOK, publicationVars, tables, process
<1> QED
  BY <1>1, <1>2, <1>3, <1>4, <1>5, <1>6, <1>7, <1>8, <1>9, <1>10, <1>11, <1>12, <1>13, <1>14, <1>15, <1>16
     DEF Next, ResearchStep, PublicationStep, EventStep

-----------------------------------------------------------------------------
(* Structure of series and revisions.                                      *)

\* What a submission adds: a pending report, alone in its series or a revision of
\* the current report, with a number that no report of the series has.
LEMMA Submission ==
  ASSUME TypeOK, StructureInv, HeadIsLatest, NEW r \in Runs, Submit(r)
  PROVE  \E s \in Runs, p \in Runs \union {None}, n \in Nat :
           /\ report' = [report EXCEPT ![r] = Pending(s, p, n)]
           /\ \A t \in InSeries(s) : report[t].number # n
           /\ p = None => s = r /\ InSeries(s) = {}
           /\ p # None => head[s] = p /\ Approved(p) /\ report[p].series = s
<1>1. report[r] = None /\ ~run[r].submitted
  BY DEF Submit
<1>2. CASE SubmitFirst(r)
  <2>1. InSeries(r) = {}
    <3> SUFFICES ASSUME NEW t \in InSeries(r) PROVE FALSE
      OBVIOUS
    <3> QED
      BY <1>1, Bounds DEF InSeries, StructureInv, SeriesInv
  <2> QED
    BY <1>2, <2>1 DEF SubmitFirst, TypeOK
<1>3. CASE SubmitRevision(r)
  <2> DEFINE p == job[r].source  s == report[p].series
  <2>1. job[r] \in Job /\ p \in Runs
    BY <1>3 DEF SubmitRevision, TypeOK, Job
  <2>2. Approved(p) /\ s # None
    BY <1>3, <2>1 DEF SubmitRevision, StructureInv, JobInv
  <2>3. s \in Runs
    BY <2>1, <2>2 DEF Approved, TypeOK, Report
  <2>4. PICK last \in {0} \union {report[t].number : t \in InSeries(s)} :
          LastNumber(s, last) /\ report' = [report EXCEPT ![r] = Pending(s, p, last + 1)]
    BY <1>3 DEF SubmitRevision
  <2>5. \A t \in InSeries(s) : report[t].number \in Nat
    BY DEF InSeries, TypeOK, Report
  <2>6. last + 1 \in Nat /\ \A t \in InSeries(s) : report[t].number # last + 1
    BY <2>4, <2>5 DEF LastNumber, InSeries
  <2>7. head[s] = p
    BY <1>3 DEF SubmitRevision
  <2>8. p # None
    BY <2>1, Bounds
  <2>9. report' = [report EXCEPT ![r] = Pending(s, p, last + 1)]
    BY <2>4
  <2>10. p \in Runs \union {None} /\ last + 1 \in Nat
    BY <2>1, <2>6
  <2>11. report[p].series = s
    OBVIOUS
  <2> HIDE DEF p, s
  <2> USE <2>3, <2>10
  <2> WITNESS s \in Runs, p \in Runs \union {None}, last + 1 \in Nat
  <2> QED
    BY <2>2, <2>6, <2>7, <2>8, <2>9, <2>11
<1> QED
  BY <1>2, <1>3 DEF Submit

\* A step that leaves reports, heads and jobs alone and only moves unreported runs on.
LEMMA StructureKept ==
  ASSUME TypeOK, StructureInv, HeadIsLatest, NoFork,
         UNCHANGED <<job, report, head>>, revision' \in Int, revision' >= revision,
         \A r \in Runs : run'[r] # run[r] =>
           /\ report[r] = None
           /\ run[r].submitted => run'[r].submitted
           /\ run'[r].status \in {"running", "completed"} => run'[r].corpus \in Public..revision'
  PROVE  StructureInv' /\ HeadIsLatest' /\ NoFork'
<1>1. revision \in Int /\ Public \in Int
  BY Bounds DEF TypeOK, Public
<1>2. RunInv'
  BY <1>1 DEF StructureInv, RunInv
<1>3. ReportInv'
  BY <1>1 DEF StructureInv, ReportInv, Approved
<1>4. SeriesInv'
  <2> SUFFICES ASSUME NEW r \in Runs, report[r] # None, report[r].series # None
               PROVE  run'[report[r].series].submitted
    BY DEF StructureInv, SeriesInv
  <2>1. report[r].series \in Runs /\ run[report[r].series].submitted
    BY DEF StructureInv, SeriesInv, TypeOK, Report
  <2> QED
    BY <2>1
<1>5. JobInv' /\ HeadIsLatest' /\ NoFork'
  BY DEF StructureInv, JobInv, HeadIsLatest, NoFork, Approved
<1> QED
  BY <1>2, <1>3, <1>4, <1>5 DEF StructureInv

LEMMA StructureInit == Init => StructureInv /\ HeadIsLatest /\ NoFork
<1> SUFFICES ASSUME Init PROVE StructureInv /\ HeadIsLatest /\ NoFork
  OBVIOUS
<1>1. PICK u \in Users :
        run = [r \in Runs |-> IF r \in Legacy
                              THEN [NoRun EXCEPT !.status = "completed", !.owner = u,
                                                 !.corpus = 0, !.submitted = TRUE]
                              ELSE NoRun]
  BY DEF Init
<1>2. \A r \in Runs :
        /\ r \in Legacy => run[r].status = "completed" /\ run[r].submitted /\ run[r].corpus = 0
        /\ r \notin Legacy => run[r].status = "none"
  BY <1>1 DEF NoRun
<1>3. \A r \in Runs : report[r] # None =>
        r \in Legacy /\ report[r].parent = None /\ report[r].series = None
  BY Bounds DEF Init, LegacyReport
<1>4. 0 \in Public..revision
  BY DEF Init, Public
<1>5. RunInv /\ ReportInv
  BY <1>2, <1>3, <1>4 DEF RunInv, ReportInv
<1>6. SeriesInv /\ JobInv /\ HeadIsLatest /\ NoFork
  BY <1>3 DEF Init, SeriesInv, JobInv, HeadIsLatest, NoFork
<1> QED
  BY <1>5, <1>6 DEF StructureInv

LEMMA SubmitKeeps ==
  ASSUME TypeOK, StructureInv, HeadIsLatest, NoFork, NEW r \in Runs, Submit(r)
  PROVE  StructureInv' /\ HeadIsLatest' /\ NoFork'
<1>1. PICK s \in Runs, p \in Runs \union {None}, n \in Nat :
        /\ report' = [report EXCEPT ![r] = Pending(s, p, n)]
        /\ \A t \in InSeries(s) : report[t].number # n
        /\ p = None => s = r /\ InSeries(s) = {}
        /\ p # None => head[s] = p /\ Approved(p) /\ report[p].series = s
  BY Submission
<1>2. /\ report[r] = None /\ run[r].status = "completed"
      /\ job' = job /\ head' = head /\ revision' = revision
      /\ run' = [run EXCEPT ![r] = [@ EXCEPT !.submitted = TRUE]]
  BY DEF Submit
<1>3. /\ run'[r].submitted /\ run'[r].status = "completed" /\ run'[r].corpus = run[r].corpus
      /\ \A t \in Runs : t # r => run'[t] = run[t]
  BY <1>2 DEF TypeOK, Run
<1>4. /\ report'[r].status = "pending" /\ report'[r].series = s /\ report'[r].parent = p
      /\ report'[r].number = n /\ report'[r] # None
      /\ \A t \in Runs : t # r => report'[t] = report[t]
  BY <1>1, PendingType, Bounds DEF Pending, TypeOK
<1>5. \A t \in Runs : /\ Approved(t) => t # r
                      /\ t # r => (Approved(t))' = Approved(t)
                      /\ ~(Approved(r))'
  BY <1>2, <1>4 DEF Approved
<1>6. RunInv'
  BY <1>2, <1>3 DEF StructureInv, RunInv
<1>7. ReportInv'
  <2>1. \A t \in Runs : report[t] # None /\ report[t].parent # None => report[t].parent \in Runs
    BY DEF TypeOK, Report
  <2>2. ASSUME NEW t \in Runs, t # r, report[t] # None PROVE
          /\ run'[t].status = "completed" /\ run'[t].submitted
          /\ run'[t].corpus \in Public..revision'
          /\ report'[t].parent = None => report'[t].series \in {None, t}
          /\ report'[t].parent # None =>
               /\ (Approved(report[t].parent))'
               /\ report'[t].series # None /\ report'[report[t].parent].series = report'[t].series
    BY <1>2, <1>3, <1>4, <1>5, <2>1, <2>2 DEF StructureInv, ReportInv
  <2>3. /\ run'[r].corpus \in Public..revision'
        /\ p = None => s \in {None, r}
        /\ p # None => /\ (Approved(p))'
                       /\ s # None /\ report'[p].series = s
    BY <1>1, <1>2, <1>3, <1>4, <1>5, Bounds DEF StructureInv, RunInv
  <2> QED
    BY <1>3, <1>4, <1>5, <2>2, <2>3 DEF ReportInv, Approved
<1>8. SeriesInv'
  <2>1. /\ run[s].submitted \/ s = r
        /\ report'[s] # None => report'[s].series = s
    <3>1. CASE p = None
      BY <3>1, <1>1, <1>4
    <3>2. CASE p # None
      BY <3>2, <1>1, <1>2, <1>4, Bounds DEF StructureInv, SeriesInv, Approved
    <3> QED
      BY <3>1, <3>2
  <2>2. ASSUME NEW t \in Runs, t # r, report[t] # None, report[t].series # None
        PROVE  /\ run'[report[t].series].submitted
               /\ report'[report[t].series] # None => report'[report[t].series].series = report[t].series
    <3>1. report[t].series \in Runs /\ run[report[t].series].submitted
      BY <2>2 DEF StructureInv, SeriesInv, TypeOK, Report
    <3>2. report[t].series # r
      BY <3>1 DEF Submit
    <3> QED
      BY <2>2, <3>1, <3>2, <1>3, <1>4 DEF StructureInv, SeriesInv
  <2>3. run'[s].submitted
    BY <2>1, <1>3
  <2> QED
    BY <1>4, <2>1, <2>2, <2>3 DEF SeriesInv
<1>9. JobInv'
  <2>1. \A t \in Runs : job[t] # None => job[t].source \in Runs
    BY DEF TypeOK, Job
  <2> QED
    BY <1>2, <1>4, <1>5, <2>1 DEF StructureInv, JobInv
<1>10. HeadIsLatest'
  <2>1. \A x \in Runs : head[x] # None => head[x] \in Runs /\ head[x] # r
    BY <1>2 DEF HeadIsLatest, TypeOK
  <2> QED
    BY <1>2, <1>4, <1>5, <2>1 DEF HeadIsLatest
<1>11. NoFork'
  <2>1. ASSUME NEW t \in Runs, t # r, report'[t] # None, report'[t].series = s
        PROVE  report'[t].number # n
    BY <1>1, <1>4, <2>1 DEF InSeries
  <2> QED
    BY <1>4, <1>5, <2>1 DEF NoFork
<1> QED
  BY <1>6, <1>7, <1>8, <1>9, <1>10, <1>11 DEF StructureInv

\* A step on reports that leaves who follows whom alone.
LEMMA ReviewKept ==
  ASSUME TypeOK, StructureInv, HeadIsLatest, NoFork,
         UNCHANGED <<run, job, head, revision>>,
         \A r \in Runs :
           /\ (report'[r] = None) = (report[r] = None)
           /\ report[r] # None =>
                /\ report'[r].series = report[r].series /\ report'[r].parent = report[r].parent
                /\ report'[r].number = report[r].number
                /\ (report'[r].status = "published") = (report[r].status = "published")
                /\ (report'[r].status = "withdrawn") = (report[r].status = "withdrawn")
  PROVE  StructureInv' /\ HeadIsLatest' /\ NoFork'
<1>1. \A r \in Runs : report[r] # None =>
        report[r].parent \in Runs \union {None} /\ report[r].series \in Runs \union {None}
  BY DEF TypeOK, Report
<1>2. \A r \in Runs : (Approved(r))' = Approved(r)
  BY DEF Approved
<1>3. \A r \in Runs : /\ job[r] # None => job[r].source \in Runs
                      /\ head[r] # None => head[r] \in Runs
  BY DEF TypeOK, Job
<1>4. RunInv'
  BY DEF StructureInv, RunInv
<1>5. ReportInv'
  BY <1>1, <1>2 DEF StructureInv, ReportInv
<1>6. SeriesInv'
  BY <1>1 DEF StructureInv, SeriesInv
<1>7. JobInv'
  BY <1>2, <1>3, Bounds DEF StructureInv, JobInv, Approved
<1>8. HeadIsLatest'
  BY <1>2, <1>3, Bounds DEF HeadIsLatest, Approved
<1>9. NoFork'
  BY <1>2 DEF NoFork
<1> QED
  BY <1>4, <1>5, <1>6, <1>7, <1>8, <1>9 DEF StructureInv

LEMMA ApproveKeeps ==
  ASSUME TypeOK, StructureInv, HeadIsLatest, NoFork, NEW r \in Runs, NEW a \in Users, Approve(a, r)
  PROVE  StructureInv' /\ HeadIsLatest' /\ NoFork'
<1> DEFINE s == report[r].series  p == report[r].parent
<1>1. /\ report[r] # None /\ report[r].status = "pending"
      /\ s # None => head[s] = p
      /\ report' = [report EXCEPT ![r].status = "published"]
      /\ head' = [x \in Runs |-> IF x = s THEN r ELSE head[x]]
      /\ run' = run /\ job' = job /\ revision' = revision
  BY DEF Approve, Succeeds
<1>2. s \in Runs \union {None} /\ p \in Runs \union {None} /\ report[r] \in Report
  BY <1>1 DEF TypeOK, Report
<1>3. /\ report'[r].status = "published" /\ report'[r].series = s /\ report'[r].parent = p
      /\ report'[r].number = report[r].number /\ report'[r] # None
      /\ \A t \in Runs : t # r => report'[t] = report[t]
  BY <1>1, <1>2, Bounds DEF TypeOK, Report
<1>4. /\ ~Approved(r) /\ (Approved(r))'
      /\ \A t \in Runs : t # r => (Approved(t))' = Approved(t)
  BY <1>1, <1>3 DEF Approved
<1>5. \A t \in Runs : report[t] # None =>
        report[t].parent \in Runs \union {None} /\ report[t].series \in Runs \union {None}
  BY DEF TypeOK, Report
<1>6. \A t \in Runs : report[t] # None => report[t].parent # r
  BY <1>4, Bounds DEF StructureInv, ReportInv
<1>7. RunInv'
  BY <1>1 DEF StructureInv, RunInv
<1>8. ReportInv'
  <2>1. \A t \in Runs : report'[t] # None =>
          /\ report[t] # None /\ report'[t].parent = report[t].parent
          /\ report'[t].series = report[t].series
    BY <1>1, <1>3
  <2>2. \A t \in Runs : Approved(t) => (Approved(t))'
    BY <1>4
  <2> QED
    BY <1>1, <1>3, <1>5, <2>1, <2>2, Bounds DEF StructureInv, ReportInv, Approved
<1>9. SeriesInv'
  BY <1>1, <1>3, <1>5 DEF StructureInv, SeriesInv
<1>10. JobInv'
  <2>1. \A t \in Runs : job[t] # None => job[t].source \in Runs
    BY DEF TypeOK, Job
  <2> QED
    BY <1>1, <1>3, <1>4, <2>1 DEF StructureInv, JobInv
<1>11. HeadIsLatest'
  <2>1. \A x \in Runs : x # s => head'[x] = head[x]
    BY <1>1
  <2>2. s \in Runs => head'[s] = r
    BY <1>1
  <2>3. ASSUME NEW x \in Runs, head[x] # None, x # s
        PROVE  /\ report'[head[x]] # None
               /\ report'[head[x]].status = "published" /\ report'[head[x]].series = x
               /\ \A t \in Runs : (Approved(t))' => report'[t].parent # head[x]
    <3>1. head[x] \in Runs /\ head[x] # r /\ report[head[x]].series = x
      BY <1>1, <2>3 DEF HeadIsLatest, TypeOK
    <3>2. p # head[x]
      BY <1>1, <2>3, <3>1, Bounds DEF StructureInv, ReportInv
    <3> QED
      BY <2>3, <3>1, <3>2, <1>3, <1>4 DEF HeadIsLatest
  <2>4. s \in Runs => \A t \in Runs : (Approved(t))' => report'[t].parent # r
    BY <1>1, <1>3, <1>6 DEF Approved
  <2> QED
    BY <1>3, <2>1, <2>2, <2>3, <2>4 DEF HeadIsLatest
<1>12. NoFork'
  <2>1. ASSUME NEW t \in Runs, t # r, Approved(t), report[t].series = s, s # None
        PROVE  report[t].parent # p
    <3>1. CASE p # None
      BY <1>1, <1>2, <2>1, <3>1 DEF HeadIsLatest
    <3>2. CASE p = None /\ report[t].parent = None
      BY <1>1, <2>1, <3>2 DEF StructureInv, ReportInv, Approved
    <3> QED
      BY <3>1, <3>2
  <2>2. \A t \in Runs : report'[t] # None =>
          /\ report[t] # None /\ report'[t].parent = report[t].parent
          /\ report'[t].series = report[t].series /\ report'[t].number = report[t].number
    BY <1>1, <1>3
  <2>3. \A t, u \in Runs :
          /\ t # u /\ report'[t] # None /\ report'[u] # None
          /\ report'[t].series # None /\ report'[t].series = report'[u].series
          => report'[t].number # report'[u].number
    BY <2>2 DEF NoFork
  <2>4. ASSUME NEW t \in Runs, NEW u \in Runs, t # u, report'[t] # None, report'[u] # None,
               report'[t].series # None, report'[t].series = report'[u].series,
               (Approved(t))', (Approved(u))'
        PROVE  report'[t].parent # report'[u].parent
    BY <2>1, <2>2, <2>4, <1>1, <1>3, <1>4 DEF NoFork
  <2> QED
    BY <2>3, <2>4 DEF NoFork
<1> QED
  BY <1>7, <1>8, <1>9, <1>10, <1>11, <1>12 DEF StructureInv

LEMMA WithdrawKeeps ==
  ASSUME TypeOK, StructureInv, HeadIsLatest, NoFork, NEW r \in Runs, Withdraw(r)
  PROVE  StructureInv' /\ HeadIsLatest' /\ NoFork'
<1>1. /\ report[r] # None /\ report[r].status = "published" /\ report[r] \in Report
      /\ report' = [report EXCEPT ![r].status = "withdrawn"]
      /\ head' = [x \in Runs |-> IF x = report[r].series /\ head[x] = r THEN None ELSE head[x]]
      /\ run' = run /\ job' = job /\ revision' = revision
  BY DEF Withdraw, TypeOK
<1>2. \A t \in Runs :
        /\ (report'[t] = None) = (report[t] = None)
        /\ report[t] # None =>
             /\ report'[t].series = report[t].series /\ report'[t].parent = report[t].parent
             /\ report'[t].number = report[t].number
             /\ t # r => report'[t] = report[t]
  BY <1>1, Bounds DEF TypeOK, Report
<1>3. \A t \in Runs : (Approved(t))' = Approved(t)
  BY <1>1, <1>2 DEF Approved, TypeOK, Report
<1>4. /\ \A t \in Runs : report[t] # None =>
           report[t].parent \in Runs \union {None} /\ report[t].series \in Runs \union {None}
      /\ \A t \in Runs : /\ job[t] # None => job[t].source \in Runs
                         /\ head[t] # None => head[t] \in Runs
  BY DEF TypeOK, Report, Job
<1>5. RunInv'
  BY <1>1 DEF StructureInv, RunInv
<1>6. ReportInv'
  BY <1>1, <1>2, <1>3, <1>4 DEF StructureInv, ReportInv
<1>7. SeriesInv'
  BY <1>1, <1>2, <1>4 DEF StructureInv, SeriesInv
<1>8. JobInv'
  BY <1>1, <1>2, <1>3, <1>4, Bounds DEF StructureInv, JobInv, Approved
<1>9. HeadIsLatest'
  <2>1. \A x \in Runs : head'[x] # None => head'[x] = head[x] /\ head[x] # r
    BY <1>1 DEF HeadIsLatest
  <2> QED
    BY <2>1, <1>2, <1>3, <1>4 DEF HeadIsLatest, Approved
<1>10. NoFork'
  BY <1>2, <1>3 DEF NoFork
<1> QED
  BY <1>5, <1>6, <1>7, <1>8, <1>9, <1>10 DEF StructureInv

LEMMA DeleteKeeps ==
  ASSUME TypeOK, StructureInv, HeadIsLatest, NoFork, NEW r \in Runs, Delete(r)
  PROVE  StructureInv' /\ HeadIsLatest' /\ NoFork'
<1>1. /\ report[r] # None /\ report[r].status \in {"rejected", "withdrawn"}
      /\ report' = [report EXCEPT ![r] = None]
      /\ \A t \in Runs : /\ report[t] # None => report[t].parent # r
                         /\ job[t] # None => job[t].source # r
      /\ run' = run /\ job' = job /\ revision' = revision /\ head' = head
  BY DEF Delete, Dependents
<1>2. report'[r] = None /\ \A t \in Runs : t # r => report'[t] = report[t]
  BY <1>1 DEF TypeOK
<1>3. \A t \in Runs : t # r => (Approved(t))' = Approved(t)
  BY <1>2 DEF Approved
<1>4. /\ \A t \in Runs : report[t] # None =>
           report[t].parent \in Runs \union {None} /\ report[t].series \in Runs \union {None}
      /\ \A t \in Runs : /\ job[t] # None => job[t].source \in Runs
                         /\ head[t] # None => head[t] \in Runs
  BY DEF TypeOK, Report, Job
<1>5. RunInv'
  BY <1>1 DEF StructureInv, RunInv
<1>6. ReportInv'
  BY <1>1, <1>2, <1>3, <1>4 DEF StructureInv, ReportInv
<1>7. SeriesInv'
  BY <1>1, <1>2, <1>4 DEF StructureInv, SeriesInv
<1>8. JobInv'
  BY <1>1, <1>2, <1>3, <1>4 DEF StructureInv, JobInv
<1>9. HeadIsLatest'
  <2>1. \A x \in Runs : head[x] # None => head[x] # r
    BY <1>1 DEF HeadIsLatest
  <2> QED
    BY <2>1, <1>1, <1>2, <1>3, <1>4 DEF HeadIsLatest, Approved
<1>10. NoFork'
  BY <1>2, <1>3 DEF NoFork
<1> QED
  BY <1>5, <1>6, <1>7, <1>8, <1>9, <1>10 DEF StructureInv

LEMMA ReviseKeeps ==
  ASSUME TypeOK, StructureInv, HeadIsLatest, NoFork,
         NEW r \in Runs, NEW t \in Runs, NEW u \in Users, Revise(u, r, t)
  PROVE  StructureInv' /\ HeadIsLatest' /\ NoFork'
<1> DEFINE s == OwnSeries(r)
<1>1. /\ report[r] # None /\ report[r].status = "published" /\ report[r] \in Report
      /\ CurrentOf(r) = r /\ run[t].status = "none" /\ revision' = revision
      /\ report' = [report EXCEPT ![r].series = s]
      /\ head' = [head EXCEPT ![s] = r]
      /\ run' = [run EXCEPT ![t] = [@ EXCEPT !.status = "queued", !.owner = u, !.public = run[r].public]]
      /\ job' = [job EXCEPT ![t] = [source |-> r,
                                    target |-> IF run[r].corpus = Public THEN Public ELSE revision]]
  BY DEF Revise, TypeOK
<1>2. s \in Runs /\ (report[r].series # None => s = report[r].series /\ head[s] = r)
  BY <1>1 DEF OwnSeries, CurrentOf, TypeOK, Report
<1>3. /\ report'[r].series = s /\ report'[r].parent = report[r].parent /\ report'[r] # None
      /\ report'[r].number = report[r].number /\ report'[r].status = report[r].status
      /\ \A x \in Runs : x # r => report'[x] = report[x]
  BY <1>1, <1>2, Bounds DEF TypeOK, Report
<1>4. /\ \A x \in Runs : (Approved(x))' = Approved(x)
      /\ Approved(r)
  BY <1>1, <1>3 DEF Approved
<1>5. report[r].series = None =>
        /\ s = r /\ report[r].parent = None /\ head[s] = None
        /\ \A x \in Runs : report[x] # None => report[x].series # s /\ report[x].parent # r
  <2> SUFFICES ASSUME report[r].series = None
               PROVE  /\ s = r /\ report[r].parent = None /\ head[s] = None
                      /\ \A x \in Runs : report[x] # None => report[x].series # s /\ report[x].parent # r
    OBVIOUS
  <2>1. s = r
    BY DEF OwnSeries
  <2>2. report[r].parent = None
    BY <1>1 DEF StructureInv, ReportInv
  <2>3. \A x \in Runs : report[x] # None => report[x].series # r
    BY <1>1, Bounds DEF StructureInv, SeriesInv
  <2>4. \A x \in Runs : report[x] # None => report[x].parent # r
    BY Bounds DEF StructureInv, ReportInv
  <2>5. head[r] = None
    BY <2>3 DEF HeadIsLatest, TypeOK
  <2> QED
    BY <2>1, <2>2, <2>3, <2>4, <2>5
<1>6. /\ \A x \in Runs : report[x] # None =>
           report[x].parent \in Runs \union {None} /\ report[x].series \in Runs \union {None}
      /\ \A x \in Runs : /\ job[x] # None => job[x].source \in Runs
                         /\ head[x] # None => head[x] \in Runs
  BY DEF TypeOK, Report, Job
<1>7. report[t] = None /\ t # r
  BY <1>1 DEF StructureInv, ReportInv
<1>8. /\ run'[t].status = "queued" /\ run'[t].submitted = run[t].submitted
      /\ \A x \in Runs : x # t => run'[x] = run[x]
  BY <1>1 DEF TypeOK, Run
<1>9. RunInv'
  BY <1>1, <1>8 DEF StructureInv, RunInv
<1>10. ReportInv'
  <2>1. \A x \in Runs : report'[x] # None => report[x] # None /\ x # t
    BY <1>1, <1>3, <1>7
  <2>2. ASSUME NEW x \in Runs, report'[x] # None, x # r, report[x].parent # None
        PROVE  (Approved(report[x].parent))' /\ report'[report[x].parent].series = report[x].series
    <3>1. report[x].parent \in Runs /\ Approved(report[x].parent)
          /\ report[report[x].parent].series = report[x].series
      BY <2>1, <2>2, <1>6 DEF StructureInv, ReportInv
    <3>2. report[x].parent = r => report[r].series # None
      BY <1>5, <2>1, <2>2
    <3> QED
      BY <3>1, <3>2, <1>2, <1>3, <1>4
  <2>3. report[r].parent # None =>
          (Approved(report[r].parent))' /\ report'[report[r].parent].series = s
    <3> SUFFICES ASSUME report[r].parent # None
                 PROVE (Approved(report[r].parent))' /\ report'[report[r].parent].series = s
      OBVIOUS
    <3>1. report[r].parent \in Runs /\ Approved(report[r].parent) /\ report[r].series # None
          /\ report[report[r].parent].series = report[r].series
      BY <1>1, <1>6 DEF StructureInv, ReportInv
    <3> QED
      BY <3>1, <1>2, <1>3, <1>4
  <2>4. report[r].parent = None => s \in {None, r}
    BY <1>1, <1>2, <1>5 DEF StructureInv, ReportInv
  <2>5. /\ run[r].status = "completed" /\ run[r].submitted /\ run[r].corpus \in Public..revision
    BY <1>1 DEF StructureInv, ReportInv
  <2> HIDE DEF s
  <2>6. ASSUME NEW x \in Runs, report'[x] # None
        PROVE  /\ run'[x].status = "completed" /\ run'[x].submitted
               /\ run'[x].corpus \in Public..revision'
               /\ report'[x].parent = None => report'[x].series \in {None, x}
               /\ report'[x].parent # None => report'[x].series # None
    BY <2>1, <2>4, <2>5, <2>6, <1>1, <1>2, <1>3, <1>8, Bounds DEF StructureInv, ReportInv
  <2>7. ASSUME NEW x \in Runs, report'[x] # None, report'[x].parent # None
        PROVE  /\ report'[report'[x].parent] # None
               /\ report'[report'[x].parent].status \in {"published", "withdrawn"}
               /\ report'[report'[x].parent].series = report'[x].series
    <3>1. CASE x = r
      BY <3>1, <2>7, <2>3, <1>3 DEF Approved
    <3>2. CASE x # r
      BY <3>2, <2>7, <2>2, <1>3 DEF Approved
    <3> QED
      BY <3>1, <3>2
  <2> QED
    BY <2>6, <2>7 DEF ReportInv, Approved
<1>11. SeriesInv'
  <2>1. run[r].submitted /\ run[s].submitted
    BY <1>1, <1>2, <1>5 DEF StructureInv, ReportInv, SeriesInv
  <2>2. \A x \in Runs : run[x].submitted => run'[x].submitted
    BY <1>8
  <2>3. report'[s] # None => report'[s].series = s
    BY <1>1, <1>2, <1>3, <1>5 DEF StructureInv, SeriesInv
  <2>4. ASSUME NEW x \in Runs, x # r, report[x] # None, report[x].series # None
        PROVE  /\ run[report[x].series].submitted /\ report[x].series \in Runs
               /\ report'[report[x].series] # None => report'[report[x].series].series = report[x].series
    BY <1>1, <1>2, <1>3, <1>5, <1>6, <2>4 DEF StructureInv, SeriesInv
  <2> QED
    BY <1>2, <1>3, <2>1, <2>2, <2>3, <2>4 DEF SeriesInv
<1>12. JobInv'
  <2>1. job'[t].source = r /\ \A x \in Runs : x # t => job'[x] = job[x]
    BY <1>1 DEF TypeOK
  <2>2. \A x \in Runs : report[x] # None /\ report[x].series # None => report'[x].series # None
    BY <1>2, <1>3, Bounds
  <2> QED
    BY <2>1, <2>2, <1>2, <1>3, <1>4, <1>6, Bounds DEF StructureInv, JobInv, Approved
<1>13. HeadIsLatest'
  <2>1. head'[s] = r /\ \A x \in Runs : x # s => head'[x] = head[x]
    BY <1>1, <1>2 DEF TypeOK
  <2>2. \A x \in Runs : Approved(x) => report'[x].parent # r
    BY <1>2, <1>3, <1>5, Bounds DEF HeadIsLatest, Approved
  <2>3. \A x \in Runs : x # s /\ head[x] # None => head[x] # r /\ report'[head[x]] = report[head[x]]
    BY <1>2, <1>3, <1>6, Bounds DEF HeadIsLatest
  <2>4. \A x \in Runs : Approved(x) => report'[x].parent = report[x].parent
    BY <1>3
  <2> HIDE DEF s
  <2> QED
    BY <2>1, <2>2, <2>3, <2>4, <1>1, <1>2, <1>3, <1>4 DEF HeadIsLatest
<1>14. NoFork'
  <2>1. \A x \in Runs : report'[x] # None =>
          /\ report[x] # None /\ report'[x].parent = report[x].parent
          /\ report'[x].number = report[x].number
          /\ x # r => report'[x].series = report[x].series
    BY <1>1, <1>3
  <2>2. report[r].series # None => report'[r].series = report[r].series
    BY <1>2, <1>3
  <2>3. report[r].series = None => \A x \in Runs : x # r /\ report'[x] # None => report'[x].series # s
    BY <1>3, <1>5
  <2> HIDE DEF s
  <2>4. ASSUME NEW x \in Runs, NEW y \in Runs, x # y, report'[x] # None, report'[y] # None,
               report'[x].series # None, report'[x].series = report'[y].series
        PROVE  report[x].series # None /\ report[x].series = report[y].series
    BY <2>1, <2>2, <2>3, <2>4, <1>3
  <2> QED
    BY <2>1, <2>4, <1>4 DEF NoFork
<1> QED
  BY <1>9, <1>10, <1>11, <1>12, <1>13, <1>14 DEF StructureInv

LEMMA AssessType ==
  ASSUME TypeOK, NEW r \in Runs, report[r] # None,
         report' = [report EXCEPT ![r].evidence = Worse(@, Verdict(at, r))]
  PROVE  report'[r] # None
<1>1. report[r] \in Report /\ report[r].evidence \in {"legacy", "current", "check_pending", "undetermined", "needs_review"}
  BY DEF TypeOK, Report
<1>2. Worse(report[r].evidence, Verdict(at, r)) \in {"check_pending", "undetermined", "needs_review"}
  BY <1>1, WorseType
<1>3. report'[r] = [report[r] EXCEPT !.evidence = Worse(@, Verdict(at, r))]
  BY DEF TypeOK
<1>4. report'[r] \in Report
  BY <1>1, <1>2, <1>3 DEF Report
<1> QED
  BY <1>4, Bounds

LEMMA StructureStep ==
  ASSUME TypeOK, StructureInv, HeadIsLatest, NoFork, [Next]_publicationVars
  PROVE  StructureInv' /\ HeadIsLatest' /\ NoFork'
<1> USE Bounds
<1>1. ASSUME NEW r \in Runs, NEW u \in Users, NEW public \in BOOLEAN, Research(u, r, public)
      PROVE  StructureInv' /\ HeadIsLatest' /\ NoFork'
  <2>1. /\ run'[r].status = "queued" /\ run'[r].submitted = run[r].submitted
        /\ \A t \in Runs : t # r => run'[t] = run[t]
    BY <1>1 DEF Research, TypeOK, Run
  <2>2. report[r] = None
    BY <1>1 DEF Research, StructureInv, ReportInv
  <2> QED
    BY <1>1, <2>1, <2>2, StructureKept DEF Research, TypeOK
<1>2. ASSUME NEW r \in Runs, StartRun(r) PROVE StructureInv' /\ HeadIsLatest' /\ NoFork'
  <2>1. /\ run'[r].submitted = run[r].submitted /\ run'[r].corpus \in {Public, revision}
        /\ \A t \in Runs : t # r => run'[t] = run[t]
    BY <1>2 DEF StartRun, TypeOK, Run
  <2>2. report[r] = None
    BY <1>2 DEF StartRun, StructureInv, ReportInv
  <2>3. run'[r].corpus \in Public..revision
    BY <2>1 DEF TypeOK, Public
  <2> QED
    BY <1>2, <2>1, <2>2, <2>3, StructureKept DEF StartRun, TypeOK
<1>3. ASSUME NEW r \in Runs, CompleteRun(r) PROVE StructureInv' /\ HeadIsLatest' /\ NoFork'
  <2>1. /\ run'[r].submitted = run[r].submitted /\ run'[r].corpus = run[r].corpus
        /\ \A t \in Runs : t # r => run'[t] = run[t]
    BY <1>3 DEF CompleteRun, TypeOK, Run
  <2>2. report[r] = None
    BY <1>3 DEF CompleteRun, StructureInv, ReportInv
  <2>3. run'[r].corpus \in Public..revision
    BY <1>3, <2>1 DEF CompleteRun, StructureInv, RunInv
  <2> QED
    BY <1>3, <2>1, <2>2, <2>3, StructureKept DEF CompleteRun, TypeOK
<1>4. ASSUME NEW r \in Runs, NEW a \in Users, Reject(a, r)
      PROVE  StructureInv' /\ HeadIsLatest' /\ NoFork'
  BY <1>4, ReviewKept DEF Reject, TypeOK, Report
<1>5. ASSUME NEW r \in Runs, Recheck(r) PROVE StructureInv' /\ HeadIsLatest' /\ NoFork'
  BY <1>5, ReviewKept DEF Recheck, TypeOK, Report
<1>6. ASSUME NEW r \in Runs, Assess(r) PROVE StructureInv' /\ HeadIsLatest' /\ NoFork'
  <2>1. CASE report' = report
    BY <1>6, <2>1, ReviewKept DEF Assess
  <2>2. CASE report' # report
    <3>1. report[r] # None /\ report[r] \in Report
          /\ report' = [report EXCEPT ![r].evidence = Worse(@, Verdict(at, r))]
      BY <1>6, <2>2 DEF Assess, TypeOK
    <3>2. PICK v : report' = [report EXCEPT ![r].evidence = v]
      BY <3>1
    <3>3. UNCHANGED <<run, job, head, revision>>
      BY <1>6 DEF Assess
    <3>4. \A x \in Runs : x # r => report'[x] = report[x]
      BY <3>2 DEF TypeOK
    <3>5. report'[r] = [report[r] EXCEPT !.evidence = v]
      BY <3>2 DEF TypeOK
    <3>6. /\ report'[r] # None
          /\ report'[r].series = report[r].series /\ report'[r].parent = report[r].parent
          /\ report'[r].number = report[r].number /\ report'[r].status = report[r].status
      BY <3>1, <3>5, AssessType DEF Report
    <3> QED
      BY <3>1, <3>3, <3>4, <3>6, ReviewKept
  <2> QED
    BY <2>1, <2>2
<1>7. ASSUME NEW d \in Docs, Change(d) PROVE StructureInv' /\ HeadIsLatest' /\ NoFork'
  BY <1>7, StructureKept DEF Change, TypeOK
<1>8. ASSUME UNCHANGED <<run, job, report, head, revision>>
      PROVE  StructureInv' /\ HeadIsLatest' /\ NoFork'
  BY <1>8, StructureKept DEF TypeOK
<1>9. (\E e \in Revisions : TakeEvent(e)) \/ FinishEvent \/ AbandonEvent \/ UNCHANGED publicationVars
        => UNCHANGED <<run, job, report, head, revision>>
  BY DEF TakeEvent, FinishEvent, AbandonEvent, publicationVars, tables
<1> QED
  BY <1>1, <1>2, <1>3, <1>4, <1>5, <1>6, <1>7, <1>8, <1>9,
     SubmitKeeps, ApproveKeeps, WithdrawKeeps, DeleteKeeps, ReviseKeeps
     DEF Next, ResearchStep, PublicationStep, EventStep

-----------------------------------------------------------------------------
(* Assessments.                                                            *)

Fresh == {"legacy", "current"}

\* A step outside the processing of events: no report becomes older than an event it
\* was not older than before, and none looks fresh again.
LEMMA EvidenceKept ==
  ASSUME TypeOK, EventInv, ProcessedEventsAssessed, UNCHANGED <<event, at, todo, revision>>,
         \A r \in Runs : report'[r] # None => impact'[r] = impact[r],
         \A r \in Runs : report'[r] # None =>
           \/ run'[r].corpus \in {Public, revision}
           \/ /\ report[r] # None /\ run'[r].corpus = run[r].corpus
              /\ report[r].evidence \notin Fresh => report'[r].evidence \notin Fresh
  PROVE  EventInv' /\ ProcessedEventsAssessed'
<1>1. ASSUME NEW e \in Revisions, NEW r \in Runs, event[e] # None, (Older(e, r))'
      PROVE  Older(e, r) /\ (Assessed(e, r) => (Assessed(e, r))')
  <2>1. e <= revision /\ run'[r].corpus \in 0..(e - 1) /\ report'[r] # None
    BY <1>1 DEF EventInv, Older
  <2>2. run'[r].corpus \notin {Public, revision}
    BY <2>1, Bounds DEF Public, TypeOK, Revisions
  <2> QED
    BY <2>1, <2>2 DEF Older, Assessed, Fresh
<1>2. at # 0 => at \in Revisions /\ event[at] # None
  BY Bounds DEF EventInv, TypeOK, Revisions
<1>3. EventInv'
  BY <1>1, <1>2 DEF EventInv
<1>4. ProcessedEventsAssessed'
  BY <1>1 DEF ProcessedEventsAssessed, Older, Assessed
<1> QED
  BY <1>3, <1>4

LEMMA EventsInit == Init => EventInv /\ ProcessedEventsAssessed
  BY DEF Init, EventInv, ProcessedEventsAssessed

LEMMA EventsStep ==
  ASSUME TypeOK, StructureInv, EventInv, ProcessedEventsAssessed, [Next]_publicationVars
  PROVE  EventInv' /\ ProcessedEventsAssessed'
<1> USE Bounds
<1>1. ASSUME NEW r \in Runs,
             (\E u \in Users, public \in BOOLEAN : Research(u, r, public)) \/ StartRun(r) \/ CompleteRun(r)
      PROVE  EventInv' /\ ProcessedEventsAssessed'
  <2>1. /\ report[r] = None /\ \A t \in Runs : t # r => run'[t] = run[t]
        /\ UNCHANGED <<report, revision, event, impact, at, todo>>
    BY <1>1 DEF Research, StartRun, CompleteRun, TypeOK, StructureInv, ReportInv, process
  <2> QED
    BY <2>1, EvidenceKept
<1>2. ASSUME NEW r \in Runs, Submit(r) PROVE EventInv' /\ ProcessedEventsAssessed'
  <2>1. /\ run[r].corpus \in {Public, revision} /\ run'[r].corpus = run[r].corpus
        /\ \A t \in Runs : t # r => run'[t] = run[t]
    BY <1>2 DEF Submit, Current, TypeOK, Run
  <2>2. \A t \in Runs : t # r => report'[t] = report[t]
    <3>1. SubmitFirst(r) => \A t \in Runs : t # r => report'[t] = report[t]
      BY DEF SubmitFirst, TypeOK
    <3>2. SubmitRevision(r) => \A t \in Runs : t # r => report'[t] = report[t]
      BY DEF SubmitRevision, TypeOK
    <3> QED
      BY <1>2, <3>1, <3>2 DEF Submit
  <2> QED
    BY <1>2, <2>1, <2>2, EvidenceKept DEF Submit, process
<1>3. ASSUME NEW r \in Runs, Withdraw(r) \/ Recheck(r) \/ \E a \in Users : Approve(a, r) \/ Reject(a, r)
      PROVE  EventInv' /\ ProcessedEventsAssessed'
  <2>1. /\ UNCHANGED <<run, revision, event, impact, at, todo>>
        /\ \A t \in Runs : report'[t] # None =>
             /\ report[t] # None
             /\ report[t].evidence \notin Fresh => report'[t].evidence \notin Fresh
    BY <1>3 DEF Withdraw, Recheck, Approve, Reject, process, TypeOK, Report, Fresh
  <2> QED
    BY <2>1, EvidenceKept
<1>4. ASSUME NEW r \in Runs, Delete(r) PROVE EventInv' /\ ProcessedEventsAssessed'
  <2>1. /\ UNCHANGED <<run, revision, event, at, todo>>
        /\ report'[r] = None
        /\ \A t \in Runs : t # r => report'[t] = report[t] /\ impact'[t] = impact[t]
    BY <1>4 DEF Delete, process, TypeOK
  <2> QED
    BY <2>1, EvidenceKept
<1>5. ASSUME NEW r \in Runs, NEW t \in Runs, NEW u \in Users, Revise(u, r, t)
      PROVE  EventInv' /\ ProcessedEventsAssessed'
  <2>1. report[t] = None
    BY <1>5 DEF Revise, StructureInv, ReportInv
  <2>2. /\ UNCHANGED <<revision, event, impact, at, todo>>
        /\ \A x \in Runs : x # t => run'[x] = run[x]
        /\ \A x \in Runs : report'[x] # None => report[x] # None /\ report'[x].evidence = report[x].evidence
    BY <1>5 DEF Revise, process, TypeOK, Report
  <2> QED
    BY <2>1, <2>2, EvidenceKept
<1>6. ASSUME NEW d \in Docs, Change(d) PROVE EventInv' /\ ProcessedEventsAssessed'
  <2>1. /\ revision + 1 \in Revisions /\ event'[revision + 1].done = FALSE
        /\ \A e \in Revisions : e # revision + 1 => event'[e] = event[e]
        /\ revision' = revision + 1
        /\ UNCHANGED <<run, report, impact, at, todo>>
    BY <1>6 DEF Change, process, TypeOK, Revisions
  <2>2. at # 0 => at \in Revisions /\ at # revision + 1 /\ at <= revision
    BY DEF EventInv, TypeOK, Revisions
  <2>3. revision' \in Nat /\ revision \in Nat
    BY <2>1 DEF TypeOK
  <2>4. \A e \in Revisions : event'[e] # None => e <= revision'
    BY <2>1, <2>3 DEF EventInv, TypeOK, Revisions
  <2>5. EventInv'
    BY <2>1, <2>2, <2>4 DEF EventInv, Older, Assessed
  <2>6. ProcessedEventsAssessed'
    BY <2>1 DEF ProcessedEventsAssessed
  <2> QED
    BY <2>5, <2>6
<1>7. ASSUME NEW e \in Revisions, TakeEvent(e) PROVE EventInv' /\ ProcessedEventsAssessed'
  BY <1>7 DEF TakeEvent, tables, EventInv, ProcessedEventsAssessed, Older, Assessed, Revisions
<1>8. ASSUME NEW r \in Runs, Assess(r) PROVE EventInv' /\ ProcessedEventsAssessed'
  <2>1. at \in Revisions /\ event[at] # None /\ at # 0
    BY <1>8 DEF Assess, EventInv, TypeOK, Revisions
  <2>2. /\ UNCHANGED <<run, event, at, revision>> /\ todo' = todo \ {r}
    BY <1>8 DEF Assess
  <2>3. \A t \in Runs : t # r => report'[t] = report[t] /\ impact'[t] = impact[t]
    BY <1>8 DEF Assess, TypeOK
  <2>4. report[r] # None => report[r] \in Report
                            /\ report[r].evidence \in {"legacy", "current", "check_pending", "undetermined", "needs_review"}
    BY DEF TypeOK, Report
  <2>5. report'[r] # None => report[r] # None
    BY <1>8 DEF Assess, TypeOK
  <2>6. CASE Concerns(at, r)
    <3>1. impact'[r] = impact[r] \union {at}
      BY <1>8, <2>6 DEF Assess, TypeOK
    <3>2. report'[r] # None => report'[r].evidence = Worse(report[r].evidence, Verdict(at, r))
      <4> SUFFICES ASSUME report'[r] # None
                   PROVE  report'[r].evidence = Worse(report[r].evidence, Verdict(at, r))
        OBVIOUS
      <4>1. report' = [report EXCEPT ![r].evidence = Worse(@, Verdict(at, r))]
        BY <1>8, <2>5, <2>6 DEF Assess
      <4>2. report'[r] = [report[r] EXCEPT !.evidence = Worse(@, Verdict(at, r))]
        BY <4>1 DEF TypeOK
      <4> QED
        BY <2>4, <2>5, <4>2 DEF Report
    <3>3. report'[r] # None => report'[r].evidence \notin Fresh
      BY <2>4, <2>5, <3>2, WorseType DEF Fresh
    <3>4. \A e \in Revisions : (Older(e, r))' => Older(e, r)
                               /\ (Assessed(e, r) => (Assessed(e, r))')
      BY <2>2, <2>5, <3>1, <3>3 DEF Older, Assessed, Fresh
    <3>5. (Older(at, r))' => (Assessed(at, r))'
      BY <2>2, <3>1, <3>3 DEF Older, Assessed, Fresh
    <3>6. ASSUME NEW t \in Runs, NEW e \in Revisions, (Older(e, t))'
          PROVE  Older(e, t) /\ (Assessed(e, t) => (Assessed(e, t))')
      BY <2>2, <2>3, <3>4, <3>6 DEF Older, Assessed
    <3> QED
      BY <2>1, <2>2, <3>5, <3>6 DEF EventInv, ProcessedEventsAssessed, Older, Assessed
  <2>7. CASE ~Concerns(at, r)
    <3>1. report' = report /\ impact' = impact
      BY <1>8, <2>7 DEF Assess
    <3>2. ~Older(at, r)
      BY <2>1, <2>7 DEF Concerns, Older, Public, Revisions
    <3> QED
      BY <2>1, <2>2, <3>1, <3>2 DEF EventInv, ProcessedEventsAssessed, Older, Assessed
  <2> QED
    BY <2>6, <2>7
<1>9. ASSUME FinishEvent PROVE EventInv' /\ ProcessedEventsAssessed'
  <2>1. /\ at \in Revisions /\ event[at] # None /\ event[at] \in Event /\ at # 0 /\ todo = {}
        /\ UNCHANGED <<run, report, revision, impact, todo>> /\ at' = 0
    BY <1>9 DEF FinishEvent, EventInv, TypeOK, Revisions
  <2>2. \A e \in Revisions : e # at => event'[e] = event[e]
    BY <1>9 DEF FinishEvent, TypeOK
  <2>3. EventInv'
    BY <2>1, <2>2 DEF EventInv
  <2>4. \A r \in Runs : Older(at, r) => Assessed(at, r)
    BY <2>1 DEF EventInv
  <2> QED
    BY <2>1, <2>2, <2>3, <2>4 DEF ProcessedEventsAssessed, Older, Assessed
<1>10. ASSUME AbandonEvent PROVE EventInv' /\ ProcessedEventsAssessed'
  BY <1>10 DEF AbandonEvent, tables, EventInv, ProcessedEventsAssessed
<1>11. ASSUME UNCHANGED publicationVars PROVE EventInv' /\ ProcessedEventsAssessed'
  BY <1>11 DEF publicationVars, tables, process, EventInv, ProcessedEventsAssessed, Older, Assessed
<1> QED
  BY <1>1, <1>2, <1>3, <1>4, <1>5, <1>6, <1>7, <1>8, <1>9, <1>10, <1>11
     DEF Next, ResearchStep, PublicationStep, EventStep

-----------------------------------------------------------------------------
(* Theorems.                                                               *)

LEMMA Invariance == Spec => []PublicationInv
<1>1. Init => PublicationInv
  BY TypeInit, StructureInit, EventsInit DEF PublicationInv
<1>2. PublicationInv /\ [Next]_publicationVars => PublicationInv'
  <2> SUFFICES ASSUME PublicationInv, [Next]_publicationVars PROVE PublicationInv'
    OBVIOUS
  <2>1. TypeOK' /\ StructureInv' /\ HeadIsLatest' /\ NoFork' /\ EventInv' /\ ProcessedEventsAssessed'
    BY TypeStep, StructureStep, EventsStep DEF PublicationInv, StructureInv
  <2> QED
    BY <2>1 DEF PublicationInv
<1> QED
  BY <1>1, <1>2, PTL DEF Spec

\* Every table keeps its type; in particular the verdicts and numbers that submit and
\* process_events compute are ones their columns allow.
THEOREM TypeCorrect == Spec => []TypeOK
<1>1. PublicationInv => TypeOK
  BY DEF PublicationInv
<1> QED
  BY <1>1, Invariance, PTL

\* However submissions, reviews, withdrawals, revisions and deletions interleave, a
\* series has one line of approved reports, ending in its current report.
THEOREM SeriesStayLinear == Spec => []SeriesLinear
<1>1. PublicationInv => SeriesLinear
  BY DEF PublicationInv, SeriesLinear
<1> QED
  BY <1>1, Invariance, PTL

\* Whatever process_events was interrupted in or did twice, a processed event has
\* been assessed for every report of an older corpus.
THEOREM ProcessedAssessed == Spec => []ProcessedEventsAssessed
<1>1. PublicationInv => ProcessedEventsAssessed
  BY DEF PublicationInv
<1> QED
  BY <1>1, Invariance, PTL

\* The current report of a series moves to a revision of it, or is withdrawn for good.
THEOREM HeadsMoveForward == Spec => HeadMovesForward
<1> DEFINE Forward ==
      \A s \in Runs : head'[s] # head[s] =>
        \/ head'[s] = None /\ report'[head[s]].status = "withdrawn"
        \/ head'[s] = s /\ report[s].series = None
        \/ InTurn(s, head'[s]) /\ (head[s] = None => head'[s] = s)
<1>1. PublicationInv /\ [Next]_publicationVars => Forward
  <2> SUFFICES ASSUME PublicationInv, [Next]_publicationVars PROVE Forward
    OBVIOUS
  <2> USE Bounds
  <2>1. CASE head' = head
    BY <2>1
  <2>2. ASSUME NEW r \in Runs, NEW a \in Users, Approve(a, r) PROVE Forward
    <3> SUFFICES ASSUME NEW s \in Runs, head'[s] # head[s]
                 PROVE  InTurn(s, head'[s]) /\ (head[s] = None => head'[s] = s)
      OBVIOUS
    <3>1. s = report[r].series /\ head'[s] = r
      BY <2>2 DEF Approve
    <3>2. head[s] = report[r].parent /\ run[r].corpus \in {Public, revision} /\ report[r] # None
      BY <2>2, <3>1 DEF Approve, Succeeds, Current
    <3>3. head[s] = None => r = s
      BY <3>1, <3>2 DEF PublicationInv, StructureInv, ReportInv
    <3> QED
      BY <3>1, <3>2, <3>3 DEF InTurn
  <2>3. ASSUME NEW r \in Runs, Withdraw(r) PROVE Forward
    <3> SUFFICES ASSUME NEW s \in Runs, head'[s] # head[s]
                 PROVE  head'[s] = None /\ report'[head[s]].status = "withdrawn"
      OBVIOUS
    <3>1. head'[s] = None /\ head[s] = r
      BY <2>3 DEF Withdraw
    <3>2. report'[r].status = "withdrawn"
      BY <2>3 DEF Withdraw, PublicationInv, TypeOK, Report
    <3> QED
      BY <3>1, <3>2
  <2>4. ASSUME NEW r \in Runs, NEW t \in Runs, NEW u \in Users, Revise(u, r, t) PROVE Forward
    <3> SUFFICES ASSUME NEW s \in Runs, head'[s] # head[s]
                 PROVE  head'[s] = s /\ report[s].series = None
      OBVIOUS
    <3>1. s = OwnSeries(r) /\ head'[s] = r /\ CurrentOf(r) = r
      BY <2>4 DEF Revise, PublicationInv, TypeOK
    <3> QED
      BY <3>1 DEF OwnSeries, CurrentOf
  <2>5. ASSUME NEW r \in Runs, ResearchStep(r) \/ Submit(r) \/ Delete(r) \/ Recheck(r) \/ \E a \in Users : Reject(a, r)
        PROVE  head' = head
    <3>1. ResearchStep(r) => head' = head
      BY DEF ResearchStep, Research, StartRun, CompleteRun
    <3>2. Submit(r) \/ Delete(r) \/ Recheck(r) \/ (\E a \in Users : Reject(a, r)) => head' = head
      BY DEF Submit, Delete, Recheck, Reject
    <3> QED
      BY <2>5, <3>1, <3>2
  <2>6. (\E d \in Docs : Change(d)) \/ EventStep \/ UNCHANGED publicationVars => head' = head
    BY DEF Change, EventStep, TakeEvent, Assess, FinishEvent, AbandonEvent, publicationVars, tables
  <2> QED
    BY <2>1, <2>2, <2>3, <2>4, <2>5, <2>6 DEF Next, PublicationStep
<1> QED
  BY <1>1, Invariance, PTL DEF Spec, HeadMovesForward

\* No order of events, rechecks and reviews makes the evidence of a report look better.
THEOREM EvidenceStaysWorse == Spec => EvidenceNeverClears
<1> DEFINE NotClearer ==
      \A r \in Runs : report[r] # None /\ report'[r] # None =>
        Gravity(report'[r].evidence) >= Gravity(report[r].evidence)
<1>1. PublicationInv /\ [Next]_publicationVars => NotClearer
  <2> SUFFICES ASSUME PublicationInv, [Next]_publicationVars, NEW t \in Runs,
                      report[t] # None, report'[t] # None
               PROVE  Gravity(report'[t].evidence) >= Gravity(report[t].evidence)
    OBVIOUS
  <2> DEFINE e == report[t].evidence
  <2>1. report[t] \in Report /\ e \in {"legacy", "current", "check_pending", "undetermined", "needs_review"}
        /\ report \in [Runs -> Report \union {None}]
    BY DEF PublicationInv, TypeOK, Report
  <2>2. Gravity(e) \in 0..3
    BY <2>1 DEF Gravity
  <2>3. CASE report'[t].evidence = e
    BY <2>2, <2>3
  <2>4. ASSUME NEW r \in Runs, Submit(r) PROVE report'[t] = report[t]
    <3>1. t # r
      BY <2>4 DEF Submit
    <3>2. SubmitFirst(r) => report'[t] = report[t]
      BY <2>1, <3>1 DEF SubmitFirst
    <3>3. SubmitRevision(r) => report'[t] = report[t]
      BY <2>1, <3>1 DEF SubmitRevision
    <3> QED
      BY <2>4, <3>2, <3>3 DEF Submit
  <2>5. ASSUME NEW r \in Runs,
               \/ Withdraw(r) \/ Delete(r) \/ \E a \in Users : Approve(a, r) \/ Reject(a, r)
               \/ \E u \in Users, x \in Runs : Revise(u, r, x)
        PROVE  report'[t].evidence = e
    <3>1. Delete(r) => report'[t] = report[t]
      BY <2>1 DEF Delete
    <3>2. ASSUME NEW v, report' = [report EXCEPT ![r].status = v] \/ report' = [report EXCEPT ![r].series = v]
          PROVE  report'[t].evidence = e
      BY <2>1, <3>2 DEF Report
    <3> QED
      BY <2>5, <3>1, <3>2 DEF Withdraw, Approve, Reject, Revise
  <2>6. ASSUME NEW r \in Runs, Recheck(r) PROVE Gravity(report'[t].evidence) >= Gravity(e)
    <3>1. t # r => report'[t].evidence = e
      BY <2>6 DEF Recheck, PublicationInv, TypeOK
    <3>2. t = r => report'[t].evidence = "needs_review"
      BY <2>1, <2>6 DEF Recheck, Report
    <3>3. Gravity("needs_review") = 3
      BY DEF Gravity
    <3> QED
      BY <2>2, <3>1, <3>2, <3>3
  <2>7. ASSUME NEW r \in Runs, Assess(r) PROVE Gravity(report'[t].evidence) >= Gravity(e)
    <3>1. \/ report'[t].evidence = e
          \/ report'[t].evidence = Worse(e, Verdict(at, t))
      BY <2>1, <2>7 DEF Assess, Report
    <3> QED
      BY <2>1, <2>2, <3>1, WorseType
  <2>8. ASSUME NEW r \in Runs, ResearchStep(r) PROVE report' = report
    BY <2>8 DEF ResearchStep, Research, StartRun, CompleteRun
  <2>9. (\E d \in Docs : Change(d)) \/ (\E x \in Revisions : TakeEvent(x)) \/ FinishEvent \/ AbandonEvent
          \/ UNCHANGED publicationVars => report' = report
    BY DEF Change, TakeEvent, FinishEvent, AbandonEvent, publicationVars, tables
  <2> QED
    BY <2>3, <2>4, <2>5, <2>6, <2>7, <2>8, <2>9 DEF Next, PublicationStep, EventStep
<1> QED
  BY <1>1, Invariance, PTL DEF Spec, EvidenceNeverClears

=============================================================================
