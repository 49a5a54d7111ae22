------------------------------ MODULE Publication ------------------------------
(***************************************************************************)
(* Formal reports of one workspace: submission, review, withdrawal and     *)
(* revision (ReportPublicationService), and what a changed document does   *)
(* to them (services/evidence_lifecycle.py).                               *)
(*                                                                         *)
(* A report has the name of the run it was made from (source_run_id is     *)
(* unique), a series that of its first report, a change event that of the  *)
(* corpus revision it created.  A handler of the Java service is one       *)
(* transaction under the row locks it takes, so it is one action; the      *)
(* processing of an event commits report by report and is not.             *)
(***************************************************************************)
EXTENDS Integers

CONSTANTS
  Runs,         \* research runs, and the reports made from them
  Legacy,       \* those published before reports had a series
  Users,
  Admins,       \* the users whose role is admin; the others are researchers
  Docs,         \* the documents of the workspace
  MaxRevision,  \* bound of the model: changes of the corpus
  None

Revisions == 1..MaxRevision
Public == -1    \* the corpus revision of what uses no internal document
Corpora == Public..MaxRevision

Run == [status : {"none", "queued", "running", "completed"}, owner : Users \union {None},
        public : BOOLEAN, corpus : Corpora \union {None}, cites : SUBSET Docs, submitted : BOOLEAN]
Job == [source : Runs, target : Corpora]
Report == [status : {"pending", "published", "rejected", "withdrawn"}, series : Runs \union {None},
           parent : Runs \union {None}, number : Nat,
           evidence : {"legacy", "current", "check_pending", "undetermined", "needs_review"}]
Event == [doc : Docs, done : BOOLEAN]

ASSUME PublicationAssumption ==
  /\ Legacy \subseteq Runs /\ Admins \subseteq Users
  /\ MaxRevision \in Nat
  /\ None \notin Runs \union Users \union Int
  /\ None \notin Job /\ None \notin Report /\ None \notin Event

VARIABLES
  run,       \* runs, with the artifact in run_artifacts
  job,       \* report_revision_jobs, by target run
  report,    \* report_publications
  head,      \* report_series: the current report
  revision,  \* workspace_corpus_revisions
  event,     \* document_change_events
  impact,    \* report_impacts: the revisions assessed for each report
  at,        \* the event being processed under db.guard("impact:<workspace>"), or 0
  todo       \* the reports that have still to be assessed for it

tables == <<run, job, report, head, revision, event, impact>>
process == <<at, todo>>
publicationVars == <<tables, process>>

TypeOK ==
  /\ run \in [Runs -> Run]
  /\ job \in [Runs -> Job \union {None}]
  /\ report \in [Runs -> Report \union {None}]
  /\ head \in [Runs -> Runs \union {None}]
  /\ revision \in 0..MaxRevision
  /\ event \in [Revisions -> Event \union {None}]
  /\ impact \in [Runs -> SUBSET Revisions]
  /\ at \in 0..MaxRevision
  /\ todo \in SUBSET Runs

NoRun == [status |-> "none", owner |-> None, public |-> FALSE, corpus |-> None,
          cites |-> {}, submitted |-> FALSE]
LegacyReport == [status |-> "published", series |-> None, parent |-> None, number |-> 1,
                 evidence |-> "legacy"]

Init ==
  /\ \E owner \in Users :
       run = [r \in Runs |-> IF r \in Legacy
                             THEN [NoRun EXCEPT !.status = "completed", !.owner = owner,
                                                !.corpus = 0, !.submitted = TRUE]
                             ELSE NoRun]
  /\ job = [r \in Runs |-> None]
  /\ report = [r \in Runs |-> IF r \in Legacy THEN LegacyReport ELSE None]
  /\ head = [r \in Runs |-> None]
  /\ revision = 0
  /\ event = [e \in Revisions |-> None]
  /\ impact = [r \in Runs |-> {}]
  /\ at = 0 /\ todo = {}

-----------------------------------------------------------------------------
\* Mutant: a report older than the corpus passes.
CurrentOrOlder(corpus) == corpus \in Public..revision

\* The corpus a report, a revision or a run is about has not moved on.
Current(corpus) == corpus \in {Public, revision}

\* Every document the run cites is as it was at the run's corpus.
SourcesCurrent(r) ==
  \A e \in Revisions : event[e] # None /\ event[e].doc \in run[r].cites => e <= run[r].corpus

\* The revision job of a run, if it has one, is not stale.
RevisionValid(r) ==
  job[r] # None => Current(job[r].target) /\ report[job[r].source] # None

-----------------------------------------------------------------------------
\* Research, as far as it matters here.
Research(u, r, public) ==
  /\ run[r].status = "none"
  /\ run' = [run EXCEPT ![r] = [@ EXCEPT !.status = "queued", !.owner = u, !.public = public]]
  /\ UNCHANGED <<job, report, head, revision, event, impact, process>>

\* The first start fixes the corpus; a run that fails and is resumed keeps it, and goes
\* on here from where it was.
StartRun(r) ==
  /\ run[r].status = "queued"
  /\ RevisionValid(r)
  /\ LET corpus == IF run[r].public THEN Public ELSE revision IN
     run' = [run EXCEPT ![r] = [@ EXCEPT !.status = "running", !.corpus = corpus]]
  /\ UNCHANGED <<job, report, head, revision, event, impact, process>>

\* Under the document lock, so the corpus cannot move between check and commit.
CompleteRun(r) ==
  /\ run[r].status = "running"
  /\ Current(run[r].corpus) /\ RevisionValid(r)
  /\ \E cites \in SUBSET Docs :
       /\ run[r].public => cites = {}
       /\ run' = [run EXCEPT ![r] = [@ EXCEPT !.status = "completed", !.cites = cites]]
  /\ UNCHANGED <<job, report, head, revision, event, impact, process>>

-----------------------------------------------------------------------------
\* Publication.
InSeries(s) == {r \in Runs : report[r] # None /\ report[r].series = s}

\* COALESCE(MAX(revision_no), 0)
LastNumber(s, last) ==
  /\ last = 0 \/ \E r \in InSeries(s) : report[r].number = last
  /\ \A r \in InSeries(s) : report[r].number <= last

Pending(series, parent, number) ==
  [status |-> "pending", series |-> series, parent |-> parent, number |-> number,
   evidence |-> "current"]

SubmitFirst(r) ==
  /\ job[r] = None
  /\ report' = [report EXCEPT ![r] = Pending(r, None, 1)]

SubmitRevision(r) ==
  /\ job[r] # None
  /\ LET parent == job[r].source  series == report[parent].series IN
     /\ job[r].target = run[r].corpus
     /\ report[parent] # None
     /\ head[series] = parent
     /\ \E last \in {0} \union {report[t].number : t \in InSeries(series)} :
          /\ LastNumber(series, last)
          /\ report' = [report EXCEPT ![r] = Pending(series, parent, last + 1)]

Submit(r) ==
  /\ run[r].status = "completed" /\ ~run[r].submitted /\ report[r] = None
  /\ Current(run[r].corpus) /\ SourcesCurrent(r)
  /\ SubmitFirst(r) \/ SubmitRevision(r)
  /\ run' = [run EXCEPT ![r] = [@ EXCEPT !.submitted = TRUE]]
  /\ UNCHANGED <<job, head, revision, event, impact, process>>

\* Mutant: the parent must be published, not current.
SucceedsPublished(r) ==
  report[r].parent # None => report[report[r].parent].status = "published"

\* The current report of a series is replaced only by a revision of it.
Succeeds(r) == report[r].series # None => head[report[r].series] = report[r].parent

Approve(a, r) ==
  /\ a \in Admins /\ a # run[r].owner
  /\ report[r] # None /\ report[r].status = "pending"
  /\ Current(run[r].corpus) /\ SourcesCurrent(r)
  /\ report[r].parent # None => job[r] # None /\ job[r].target = run[r].corpus
  /\ Succeeds(r)
  /\ report' = [report EXCEPT ![r].status = "published"]
  /\ head' = [s \in Runs |-> IF s = report[r].series THEN r ELSE head[s]]
  /\ UNCHANGED <<run, job, revision, event, impact, process>>

Reject(a, r) ==
  /\ a \in Admins /\ a # run[r].owner
  /\ report[r] # None /\ report[r].status = "pending"
  /\ report' = [report EXCEPT ![r].status = "rejected"]
  /\ UNCHANGED <<run, job, head, revision, event, impact, process>>

Withdraw(r) ==
  /\ report[r] # None /\ report[r].status = "published"
  /\ report' = [report EXCEPT ![r].status = "withdrawn"]
  /\ head' = [s \in Runs |-> IF s = report[r].series /\ head[s] = r THEN None ELSE head[s]]
  /\ UNCHANGED <<run, job, revision, event, impact, process>>

Dependents(r) == {s \in Runs : \/ report[s] # None /\ report[s].parent = r
                               \/ job[s] # None /\ job[s].source = r}

Delete(r) ==
  /\ report[r] # None /\ report[r].status \in {"rejected", "withdrawn"}
  /\ Dependents(r) = {}
  /\ report' = [report EXCEPT ![r] = None]
  /\ impact' = [impact EXCEPT ![r] = {}]
  /\ UNCHANGED <<run, job, head, revision, event, process>>

\* A report without a series gets one when it is first revised.
OwnSeries(r) == IF report[r].series = None THEN r ELSE report[r].series
CurrentOf(r) == IF report[r].series = None THEN r ELSE head[report[r].series]

Revise(u, r, t) ==
  /\ report[r] # None /\ report[r].status = "published"
  /\ u \in Admins \/ u = run[r].owner
  /\ CurrentOf(r) = r
  /\ run[t].status = "none"
  /\ report' = [report EXCEPT ![r].series = OwnSeries(r)]
  /\ head' = [head EXCEPT ![OwnSeries(r)] = r]
  /\ run' = [run EXCEPT ![t] = [@ EXCEPT !.status = "queued", !.owner = u, !.public = run[r].public]]
  /\ job' = [job EXCEPT ![t] = [source |-> r,
                                target |-> IF run[r].corpus = Public THEN Public ELSE revision]]
  /\ UNCHANGED <<revision, event, impact, process>>

-----------------------------------------------------------------------------
\* Evidence.  A change commits its event with the new revision of the corpus.
Change(d) ==
  /\ revision < MaxRevision
  /\ revision' = revision + 1
  /\ event' = [event EXCEPT ![revision + 1] = [doc |-> d, done |-> FALSE]]
  /\ UNCHANGED <<run, job, report, head, impact, process>>

\* The pages of published reports were fetched again and one has changed.
Recheck(r) ==
  /\ report[r] # None
  /\ report' = [report EXCEPT ![r].evidence = "needs_review"]
  /\ UNCHANGED <<run, job, head, revision, event, impact, process>>

\* The pending events are read before the guard is taken, by every replica and every
\* upload: the event taken up may be processed already, or follow one that failed.
TakeEvent(e) ==
  /\ at = 0
  /\ event[e] # None
  /\ at' = e
  /\ todo' = {r \in Runs : report[r] # None}
  /\ UNCHANGED tables

\* The reports an event is about: those of an older corpus.
Concerns(e, r) == run[r].corpus # Public /\ run[r].corpus < e

Verdict(e, r) ==
  IF r \in Legacy THEN "undetermined"
  ELSE IF event[e].doc \in run[r].cites THEN "needs_review" ELSE "check_pending"

\* Mutant: the latest event decides.
WorseByLast(old, new) == new

Worse(old, new) ==
  IF "needs_review" \in {old, new} THEN "needs_review"
  ELSE IF "undetermined" \in {old, new} THEN "undetermined" ELSE new

\* One transaction for each report: the assessment is kept if it is there already.
Assess(r) ==
  /\ r \in todo
  /\ todo' = todo \ {r}
  /\ \/ /\ Concerns(at, r)
        /\ impact' = [impact EXCEPT ![r] = @ \union {at}]
        /\ \/ report[r] = None /\ UNCHANGED report
           \/ /\ report[r] # None
              /\ report' = [report EXCEPT ![r].evidence = Worse(@, Verdict(at, r))]
     \/ ~Concerns(at, r) /\ UNCHANGED <<impact, report>>
  /\ UNCHANGED <<run, job, head, revision, event, at>>

\* Mutant: an assessment that failed does not keep the event pending.
FinishEventEarly ==
  /\ at # 0
  /\ event' = [event EXCEPT ![at].done = TRUE]
  /\ at' = 0 /\ todo' = {}
  /\ UNCHANGED <<run, job, report, head, revision, impact>>

FinishEvent ==
  /\ at # 0 /\ todo = {}
  /\ event' = [event EXCEPT ![at].done = TRUE]
  /\ at' = 0
  /\ UNCHANGED <<run, job, report, head, revision, impact, todo>>

\* The processing raises, or its process stops: the event stays as it was.
AbandonEvent ==
  /\ at # 0
  /\ at' = 0 /\ todo' = {}
  /\ UNCHANGED tables

-----------------------------------------------------------------------------
ResearchStep(r) ==
  \/ \E u \in Users, public \in BOOLEAN : Research(u, r, public)
  \/ StartRun(r) \/ CompleteRun(r)

PublicationStep(r) ==
  \/ Submit(r) \/ Withdraw(r) \/ Delete(r)
  \/ \E a \in Users : Approve(a, r) \/ Reject(a, r)
  \/ \E u \in Users, t \in Runs : Revise(u, r, t)

EventStep ==
  \/ \E e \in Revisions : TakeEvent(e)
  \/ \E r \in Runs : Assess(r)
  \/ FinishEvent \/ AbandonEvent

Next ==
  \/ \E r \in Runs : ResearchStep(r) \/ PublicationStep(r) \/ Recheck(r)
  \/ \E d \in Docs : Change(d)
  \/ EventStep

Spec == Init /\ [][Next]_publicationVars

-----------------------------------------------------------------------------
(* Properties.                                                             *)

\* A report that has been approved at some time and not been deleted.
Approved(r) == report[r] # None /\ report[r].status \in {"published", "withdrawn"}

\* What a series shows as current is published, belongs to it and has not been
\* superseded (approve, withdraw).
HeadIsLatest ==
  \A s \in Runs : head[s] # None =>
    /\ report[head[s]] # None
    /\ report[head[s]].status = "published" /\ report[head[s]].series = s
    /\ \A r \in Runs : Approved(r) => report[r].parent # head[s]

\* Two revisions of one report are never both approved, and no number of a series
\* is used twice, however submissions and reviews interleave (submit, approve).
NoFork ==
  \A r, t \in Runs :
    /\ r # t /\ report[r] # None /\ report[t] # None
    /\ report[r].series # None /\ report[r].series = report[t].series
    => /\ report[r].number # report[t].number
       /\ Approved(r) /\ Approved(t) => report[r].parent # report[t].parent

\* A series has a single line of approved reports, which ends in the current one.
SeriesLinear == HeadIsLatest /\ NoFork

\* Report r becomes current in its turn, and for the corpus as it is now.
InTurn(s, r) ==
  /\ head[s] = report[r].parent
  /\ run[r].corpus \in {Public, revision}

\* The current report of a series gives way to a revision of it made for the corpus
\* as it is now, or to none by its withdrawal; what was current once never comes
\* back, and a series without a current report gets one only if it is its first.
HeadMovesForward ==
  [][\A s \in Runs : head'[s] # head[s] =>
       \/ head'[s] = None /\ report'[head[s]].status = "withdrawn"
       \/ head'[s] = s /\ report[s].series = None
       \/ InTurn(s, head'[s]) /\ (head[s] = None => head'[s] = s)]_publicationVars

\* An event is marked as processed only when every report of an older corpus
\* has its assessment and is no longer shown as current evidence, whatever
\* crashed or was processed twice on the way (process_events).
ProcessedEventsAssessed ==
  \A e \in Revisions, r \in Runs :
    event[e] # None /\ event[e].done /\ report[r] # None /\ run[r].corpus \in 0..(e - 1) =>
      e \in impact[r] /\ report[r].evidence \notin {"legacy", "current"}

Gravity(status) == CASE status \in {"legacy", "current"} -> 0 [] status = "check_pending" -> 1
                     [] status = "undetermined" -> 2 [] status = "needs_review" -> 3

\* Events processed late, twice or out of order never make the evidence of a
\* report look better than it was (process_events, recheck).
EvidenceNeverClears ==
  [][\A r \in Runs : report[r] # None /\ report'[r] # None =>
       Gravity(report'[r].evidence) >= Gravity(report[r].evidence)]_publicationVars

=============================================================================
