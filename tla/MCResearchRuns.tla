---------------------------- MODULE MCResearchRuns ----------------------------
(***************************************************************************)
(* Small instances of ResearchRuns for TLC.                                *)
(***************************************************************************)
EXTENDS ResearchRuns, TLC

CONSTANTS r1, r2, r3, w1, w2, u1, ws1, t1, t2, p1, p2

\* One run: duplicate jobs, crashes, recovery and resumes of the same run.
OwnerOne == [r \in {r1} |-> u1]
WorkspaceOne == [r \in {r1} |-> ws1]
ThreadOne == [r \in {r1} |-> t1]

\* Two runs of one account and workspace in separate threads.
OwnerTwo == [r \in {r1, r2} |-> u1]
WorkspaceTwo == [r \in {r1, r2} |-> ws1]
ThreadTwo == (r1 :> t1) @@ (r2 :> t2)

\* Three runs of one account: the first two share a thread, which may hold one active
\* run only.
OwnerThree == [r \in {r1, r2, r3} |-> u1]
WorkspaceThree == [r \in {r1, r2, r3} |-> ws1]
ThreadThree == (r1 :> t1) @@ (r2 :> t1) @@ (r3 :> t2)

\* Bounds of the runs that ask about limits: no deadline passes, the accounts are left
\* alone, and commands do not pile up.  Their order is the subject of the one-run
\* instance.
QuietAccounts ==
  /\ \A r \in Runs : ~expired[r]
  /\ disabled = {}
  /\ Cardinality(outbox) <= 1
  /\ Cardinality(marks) <= 1

\* The same for three runs: no abort is under way, there are two jobs at a time, and
\* commands are delivered before or after a pass of the recovery loop.
FewJobs ==
  /\ QuietAccounts /\ marks = {} /\ Cardinality(jobs) <= 2
  /\ outbox # {} => \A p \in Replicas : scan[p] = NoRows

\* Of the three only r2 is resumed, with one job beside it: its transaction may be open
\* while the other run of its thread is interrupted.
OneResume ==
  /\ FewJobs
  /\ resumed[r1] = 0 /\ resumed[r3] = 0
  /\ command # None => command.run = r2 /\ outbox = {}
  /\ command # None \/ resumed[r2] > 0 => Cardinality(jobs) <= 1

SlotSymmetry == Permutations({w1, w2})

=============================================================================
