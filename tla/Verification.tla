------------------------------ MODULE Verification ------------------------------
(***************************************************************************)
(* The validator node of one research run (research/graph.py) and its      *)
(* verification contract (research/verification_contract.py): the claims   *)
(* of the draft are checked in batches by a model that may leave claims    *)
(* out, repeat them, add others or answer with no JSON at all; refused     *)
(* claims are repaired once and the new texts are checked again.           *)
(*                                                                         *)
(* The node may stop at any point, with its process or with an error, and  *)
(* a later attempt starts it again from the stored draft, with the         *)
(* verdicts stored so far.  A text stands for a claim with its sources.    *)
(***************************************************************************)
EXTENDS Integers, FiniteSets

CONSTANTS
  Indices,      \* the positions of the draft's claims
  Texts,
  Admissible,   \* texts with known sources that pass validate_claim
  MaxBatch,     \* claims of a batch; its size in bytes is left out
  MaxStarts,    \* bound of the model: executions of the node
  None

PC == {"stopped", "batch", "ask", "reported"}

\* A verdict of the model on one claim: complete and supported, complete and not, or
\* without the judgement asked for (missing, repeated or unknown targets, repeated rows).
Row == {"none", "good", "bad", "torn"}

\* A row of verified_claims: the claims of a batch, and those of them supported.
Entry == [claims : SUBSET (Indices \X Texts), supported : SUBSET Indices]

ASSUME VerificationAssumption ==
  /\ Indices \subseteq Nat /\ IsFiniteSet(Indices)
  /\ Admissible \subseteq Texts
  /\ MaxBatch \in Nat \ {0} /\ MaxStarts \in Nat \ {0}
  /\ None \notin Texts

VARIABLES
  stored,     \* the draft in the checkpoint
  starts,     \* executions of the node so far
  pc, pass,   \* where the node is, and its first or second check_draft
  draft,      \* the draft in memory
  left,       \* eligible claims that no batch has taken
  approved,
  asked, pending, completed, try,   \* of the batch: its claims, those still without a
                                    \* verdict, those judged supported, the request
  saved,      \* verified_claims
  vouched, refused   \* history: texts that a complete verdict has supported, or not

nodeVars == <<pc, pass, draft, left, approved>>
askVars == <<asked, pending, completed, try>>
verificationVars == <<stored, starts, nodeVars, askVars, saved, vouched, refused>>

TypeOK ==
  /\ stored \in [Indices -> Texts] /\ draft \in [Indices -> Texts]
  /\ starts \in 0..MaxStarts /\ pc \in PC /\ pass \in {1, 2} /\ try \in {1, 2}
  /\ left \subseteq Indices /\ approved \subseteq Indices
  /\ asked \subseteq Indices /\ pending \subseteq asked /\ completed \subseteq asked \ pending
  /\ saved \subseteq Entry
  /\ vouched \subseteq Texts /\ refused \subseteq Texts

Init ==
  /\ stored \in [Indices -> Texts]
  /\ starts = 0 /\ pc = "stopped" /\ pass = 1 /\ draft = stored
  /\ left = {} /\ approved = {}
  /\ asked = {} /\ pending = {} /\ completed = {} /\ try = 1
  /\ saved = {} /\ vouched = {} /\ refused = {}

-----------------------------------------------------------------------------
Eligible(claims, S) == {i \in S : claims[i] \in Admissible}

Start ==
  /\ pc = "stopped" /\ starts < MaxStarts
  /\ starts' = starts + 1 /\ pc' = "batch" /\ pass' = 1
  /\ draft' = stored /\ approved' = {} /\ left' = Eligible(stored, Indices)
  /\ UNCHANGED <<stored, askVars, saved, vouched, refused>>

\* The process stops, or a request, a check or the database fails.
Stop ==
  /\ pc \notin {"stopped", "reported"}
  /\ pc' = "stopped"
  /\ UNCHANGED <<stored, starts, pass, draft, left, approved, askVars, saved, vouched, refused>>

\* The next batch of check_draft.
Batch == {i \in left : Cardinality({j \in left : j < i}) < MaxBatch}

\* Mutant: the key holds the claims as they were before the repair.
InputStored(S) == {<<i, stored[i]>> : i \in S}

\* What the cache key of a batch is computed from.
Input(S) == {<<i, draft[i]>> : i \in S}

Reuse ==
  /\ pc = "batch" /\ left # {}
  /\ \E entry \in saved :
       /\ entry.claims = Input(Batch)
       /\ approved' = approved \union entry.supported
  /\ left' = left \ Batch
  /\ UNCHANGED <<stored, starts, pc, pass, draft, askVars, saved, vouched, refused>>

Ask ==
  /\ pc = "batch" /\ left # {}
  /\ \A entry \in saved : entry.claims # Input(Batch)
  /\ asked' = Batch /\ pending' = Batch /\ completed' = {} /\ try' = 1
  /\ pc' = "ask"
  /\ UNCHANGED <<stored, starts, pass, draft, left, approved, saved, vouched, refused>>

\* Every claim of the batch has a verdict, which is stored.
Conclude(supported) ==
  /\ saved' = saved \union {[claims |-> Input(asked), supported |-> supported]}
  /\ approved' = approved \union supported
  /\ left' = left \ asked
  /\ pc' = "batch" /\ asked' = {} /\ pending' = {} /\ completed' = {} /\ try' = 1

\* Mutant: claims without a verdict count as refused after the second request.
AskAgainOrRefuse(incomplete, supported) ==
  \/ /\ try = 1
     /\ pending' = incomplete /\ completed' = supported /\ try' = 2
     /\ UNCHANGED <<pc, asked, saved, approved, left>>
  \/ try = 2 /\ Conclude(supported)

\* One more request for the claims without a verdict; then the run fails, the draft stays.
AskAgain(incomplete, supported) ==
  \/ /\ try = 1
     /\ pending' = incomplete /\ completed' = supported /\ try' = 2
     /\ UNCHANGED <<pc, asked, saved, approved, left>>
  \/ /\ try = 2
     /\ pc' = "stopped"
     /\ UNCHANGED <<asked, pending, completed, try, saved, approved, left>>

\* bind_target_verification: the claims with exactly one whole verdict of their own, in
\* an answer about no other claim than those asked for.
Complete(rows, alien) ==
  IF alien \/ \E i \in Indices \ pending : rows[i] # "none" THEN {}
  ELSE {i \in pending : rows[i] \in {"good", "bad"}}

Respond ==
  /\ pc = "ask"
  /\ \E rows \in [Indices -> Row], alien \in BOOLEAN :
       LET complete == Complete(rows, alien)
           good == {i \in complete : rows[i] = "good"}
       IN
       /\ vouched' = vouched \union {draft[i] : i \in good}
       /\ refused' = refused \union {draft[i] : i \in complete \ good}
       /\ \/ complete = pending /\ Conclude(completed \union good)
          \/ complete # pending /\ AskAgain(pending \ complete, completed \union good)
  /\ UNCHANGED <<stored, starts, pass, draft>>

\* No JSON, no content, or not of the schema.
Malformed ==
  /\ pc = "ask"
  /\ AskAgain(pending, completed)
  /\ UNCHANGED <<stored, starts, pass, draft, vouched, refused>>

-----------------------------------------------------------------------------
CheckDone == pc = "batch" /\ left = {}

\* Mutant: a patch replaces whatever claim it names.
PatchedAnywhere(patches) ==
  [i \in Indices |-> IF patches[i] \in Texts THEN patches[i] ELSE draft[i]]

\* apply_report_repair: patches of the model, at most one of which counts for a claim.
Patched(patches) ==
  [i \in Indices |-> IF i \notin approved /\ patches[i] \in Texts THEN patches[i] ELSE draft[i]]

\* The refused claims with one replacement are checked again, the others are left out.
Repair ==
  /\ CheckDone /\ pass = 1 /\ approved # Indices
  /\ \E patches \in [Indices -> Texts \union {None}] :
       /\ draft' = Patched(patches)
       /\ left' = Eligible(draft', {i \in Indices \ approved : patches[i] # None})
  /\ pass' = 2
  /\ UNCHANGED <<stored, starts, pc, approved, askVars, saved, vouched, refused>>

Report ==
  /\ CheckDone /\ (pass = 2 \/ approved = Indices)
  /\ pc' = "reported"
  /\ UNCHANGED <<stored, starts, pass, draft, left, approved, askVars, saved, vouched, refused>>

Next ==
  Start \/ Stop \/ Reuse \/ Ask \/ Respond \/ Malformed \/ Repair \/ Report

Spec == Init /\ [][Next]_verificationVars

-----------------------------------------------------------------------------
(* Properties.                                                             *)

\* partial_report: the texts a failed run shows as verified so far.
PartialReport == UNION {{c[2] : c \in {d \in entry.claims : d[1] \in entry.supported}} : entry \in saved}

\* A report, or the partial report of a failed run, holds no text but those that a whole
\* verdict on that very text has supported, over batches, requests repeated for some of
\* the claims, repairs, and verdicts stored by earlier attempts (validator, ask).
ReportVerified ==
  /\ PartialReport \subseteq vouched
  /\ pc = "reported" => \A i \in approved : draft[i] \in Admissible \intersect vouched

\* Within an execution a claim once approved stays, word for word, until the report
\* (check_draft, apply_report_repair).
ApprovedKept ==
  [][pc # "stopped" /\ pc' # "stopped" =>
       \A i \in approved : i \in approved' /\ draft'[i] = draft[i]]_verificationVars

\* graph.py:878: an incomplete verification leaves the draft to be continued and deletes
\* no fact: what a report lacks was refused by a whole verdict or by the program's checks.
DroppedOnlyIfRefused ==
  pc = "reported" =>
    \A i \in Indices \ approved : stored[i] \in refused \/ stored[i] \notin Admissible

=============================================================================
