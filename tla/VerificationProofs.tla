--------------------------- MODULE VerificationProofs ---------------------------
(***************************************************************************)
(* Proofs about Verification: its types, that a report holds verified      *)
(* texts only, that nothing is dropped unjudged, and that what is approved *)
(* stays.  The inductive invariant says, of every stored verdict and of    *)
(* the batch under way, that whole verdicts on the texts themselves are    *)
(* behind it.                                                              *)
(***************************************************************************)
EXTENDS Verification, TLAPS

USE VerificationAssumption

\* Stored verdicts judge every claim of their batch.
SavedSound ==
  \A entry \in saved :
    /\ \A i \in entry.supported : \E t \in Texts : <<i, t>> \in entry.claims
    /\ \A i \in Indices, t \in Texts : <<i, t>> \in entry.claims =>
         IF i \in entry.supported THEN t \in vouched ELSE t \in refused

\* So do the verdicts of the batch under way, but for the claims still asked about.
BatchSound ==
  pc = "ask" =>
    /\ asked \subseteq left
    /\ \A i \in completed : draft[i] \in vouched
    /\ \A i \in asked \ (pending \union completed) : draft[i] \in refused

\* The draft under check: approved claims, claims to check, and claims that fell.
DraftSound ==
  pc # "stopped" =>
    /\ left \subseteq Eligible(draft, Indices)
    /\ left \intersect approved = {}
    /\ approved \subseteq Eligible(draft, Indices)
    /\ \A i \in approved : draft[i] \in vouched
    /\ pass = 1 => draft = stored
    /\ pc = "reported" => left = {}
    /\ \A i \in Indices \ approved :
         (pass = 1 /\ i \in left) \/ stored[i] \in refused \/ stored[i] \notin Admissible

VerificationInv == TypeOK /\ SavedSound /\ BatchSound /\ DraftSound

-----------------------------------------------------------------------------
(* Facts about the operators.                                              *)

\* A batch is taken from the claims that are left.
LEMMA BatchLeft == Batch \subseteq left
BY DEF Batch

\* The input of a batch names its claims and no others, with their present texts.
LEMMA InputMembers ==
  ASSUME TypeOK, NEW S \in SUBSET Indices
  PROVE  /\ Input(S) \subseteq Indices \X Texts
         /\ \A i \in S : <<i, draft[i]>> \in Input(S)
         /\ \A i \in Indices, t \in Texts : <<i, t>> \in Input(S) => i \in S /\ t = draft[i]
BY DEF Input, TypeOK

\* Only claims that were asked for are complete.
LEMMA CompletePending ==
  ASSUME NEW rows \in [Indices -> Row], NEW alien \in BOOLEAN
  PROVE  Complete(rows, alien) \subseteq pending
BY DEF Complete

-----------------------------------------------------------------------------
(* Types.                                                                  *)

\* Storing the verdict of a batch keeps the types.
LEMMA ConcludeType ==
  ASSUME TypeOK, NEW supported \in SUBSET asked, Conclude(supported),
         stored' = stored, draft' = draft, starts' = starts, pass' = pass,
         vouched' \subseteq Texts, refused' \subseteq Texts
  PROVE  TypeOK'
<1>1. asked \subseteq Indices
  BY DEF TypeOK
<1>2. [claims |-> Input(asked), supported |-> supported] \in Entry
  BY <1>1, InputMembers DEF Entry
<1> QED
  BY <1>1, <1>2 DEF TypeOK, Conclude, PC

\* So does asking for the rest of it.
LEMMA AskAgainType ==
  ASSUME TypeOK, NEW incomplete \in SUBSET pending,
         NEW supported \in SUBSET (asked \ incomplete), AskAgain(incomplete, supported),
         stored' = stored, draft' = draft, starts' = starts, pass' = pass,
         vouched' \subseteq Texts, refused' \subseteq Texts
  PROVE  TypeOK'
BY DEF TypeOK, AskAgain, PC

\* Every step keeps the types.
LEMMA TypeStep ==
  ASSUME TypeOK, [Next]_verificationVars
  PROVE  TypeOK'
<1>1. CASE Start
  BY <1>1 DEF TypeOK, Start, Eligible, askVars, PC
<1>2. CASE Stop
  BY <1>2 DEF TypeOK, Stop, askVars, PC
<1>3. CASE Reuse
  BY <1>3 DEF TypeOK, Reuse, askVars, PC, Entry, Batch
<1>4. CASE Ask
  BY <1>4, BatchLeft DEF TypeOK, Ask, PC
<1>5. CASE Respond
  <2>1. PICK rows \in [Indices -> Row], alien \in BOOLEAN :
          LET complete == Complete(rows, alien)
              good == {i \in complete : rows[i] = "good"}
          IN
          /\ vouched' = vouched \union {draft[i] : i \in good}
          /\ refused' = refused \union {draft[i] : i \in complete \ good}
          /\ \/ complete = pending /\ Conclude(completed \union good)
             \/ complete # pending /\ AskAgain(pending \ complete, completed \union good)
    BY <1>5 DEF Respond
  <2> DEFINE complete == Complete(rows, alien)
             good == {i \in complete : rows[i] = "good"}
  <2>2. complete \subseteq pending /\ pending \subseteq asked /\ asked \subseteq Indices
        /\ completed \subseteq asked \ pending
    BY CompletePending DEF TypeOK
  <2>3. vouched' \subseteq Texts /\ refused' \subseteq Texts
    BY <2>1, <2>2 DEF TypeOK
  <2>4. completed \union good \in SUBSET (asked \ (pending \ complete)) /\ pending \ complete \in SUBSET pending
    BY <2>2
  <2>5. UNCHANGED <<stored, starts, pass, draft>>
    BY <1>5 DEF Respond
  <2>6. CASE Conclude(completed \union good)
    BY <2>2, <2>3, <2>4, <2>5, <2>6, ConcludeType
  <2>7. CASE AskAgain(pending \ complete, completed \union good)
    BY <2>3, <2>4, <2>5, <2>7, AskAgainType
  <2> QED
    BY <2>1, <2>6, <2>7
<1>6. CASE Malformed
  <2>1. pending \in SUBSET pending /\ completed \in SUBSET (asked \ pending)
    BY DEF TypeOK
  <2> QED
    BY <1>6, <2>1, AskAgainType DEF Malformed, TypeOK
<1>7. CASE Repair
  BY <1>7 DEF TypeOK, Repair, Patched, Eligible, askVars, PC
<1>8. CASE Report
  BY <1>8 DEF TypeOK, Report, askVars, PC
<1>9. CASE UNCHANGED verificationVars
  BY <1>9 DEF TypeOK, verificationVars, nodeVars, askVars
<1> QED
  BY <1>1, <1>2, <1>3, <1>4, <1>5, <1>6, <1>7, <1>8, <1>9 DEF Next

-----------------------------------------------------------------------------
(* The rest of the invariant.                                              *)

\* A stored verdict stays sound as more verdicts are heard.
LEMMA SavedStays ==
  ASSUME SavedSound, saved' = saved, vouched \subseteq vouched', refused \subseteq refused'
  PROVE  SavedSound'
BY DEF SavedSound

\* When a batch is complete, its verdict is sound and its claims are approved or fall.
LEMMA ConcludeInv ==
  ASSUME VerificationInv, TypeOK', pc = "ask", NEW supported \in SUBSET asked, Conclude(supported),
         UNCHANGED <<stored, pass, draft>>, vouched \subseteq vouched', refused \subseteq refused',
         \A i \in supported : draft[i] \in vouched',
         \A i \in asked \ supported : draft[i] \in refused'
  PROVE  VerificationInv'
<1> DEFINE new == [claims |-> Input(asked), supported |-> supported]
<1>1. asked \subseteq Indices /\ asked \subseteq left /\ TypeOK
  BY DEF VerificationInv, TypeOK, BatchSound
<1>2. saved' = saved \union {new}
  BY DEF Conclude
<1>3. SavedSound'
  <2>1. ASSUME NEW entry \in saved
        PROVE  /\ \A i \in entry.supported : \E t \in Texts : <<i, t>> \in entry.claims
               /\ \A i \in Indices, t \in Texts : <<i, t>> \in entry.claims =>
                    IF i \in entry.supported THEN t \in vouched' ELSE t \in refused'
    BY <2>1 DEF VerificationInv, SavedSound
  <2>2. \A i \in new.supported : \E t \in Texts : <<i, t>> \in new.claims
    BY <1>1, InputMembers DEF TypeOK
  <2>3. \A i \in Indices, t \in Texts : <<i, t>> \in new.claims =>
          IF i \in new.supported THEN t \in vouched' ELSE t \in refused'
    BY <1>1, InputMembers
  <2> QED
    BY <1>2, <2>1, <2>2, <2>3 DEF SavedSound
<1>4. BatchSound'
  BY DEF BatchSound, Conclude
<1>5. DraftSound'
  <2>1. pc # "stopped" /\ pc' = "batch" /\ left' = left \ asked /\ approved' = approved \union supported
    BY DEF Conclude
  <2>2. asked \subseteq Eligible(draft, Indices)
    BY <1>1, <2>1 DEF VerificationInv, DraftSound
  <2>3. \A i \in approved' : draft'[i] \in vouched'
    BY <2>1 DEF VerificationInv, DraftSound
  <2>4. approved' \subseteq Eligible(draft, Indices) /\ left' \subseteq Eligible(draft, Indices)
        /\ left' \intersect approved' = {}
    BY <1>1, <2>1, <2>2 DEF VerificationInv, DraftSound
  <2>5. ASSUME NEW i \in Indices \ approved'
        PROVE  (pass = 1 /\ i \in left') \/ stored[i] \in refused' \/ stored[i] \notin Admissible
    <3>1. (pass = 1 /\ i \in left) \/ stored[i] \in refused \/ stored[i] \notin Admissible
      BY <2>1, <2>5 DEF VerificationInv, DraftSound
    <3>2. CASE pass = 1 /\ i \in asked
      BY <2>1, <2>5, <3>2 DEF VerificationInv, DraftSound
    <3> QED
      BY <2>1, <3>1, <3>2
  <2> QED
    BY <2>1, <2>3, <2>4, <2>5 DEF DraftSound, VerificationInv, Eligible
<1> QED
  BY <1>3, <1>4, <1>5 DEF VerificationInv

\* When it is not, the verdicts heard so far are kept with the rest still to ask for.
LEMMA AskAgainInv ==
  ASSUME VerificationInv, TypeOK', pc = "ask", NEW incomplete \in SUBSET pending,
         NEW supported \in SUBSET (asked \ incomplete), AskAgain(incomplete, supported),
         UNCHANGED <<stored, pass, draft>>, vouched \subseteq vouched', refused \subseteq refused',
         \A i \in supported : draft[i] \in vouched',
         \A i \in asked \ (incomplete \union supported) : draft[i] \in refused'
  PROVE  VerificationInv'
<1>1. SavedSound'
  BY SavedStays DEF VerificationInv, AskAgain
<1>2. BatchSound'
  BY DEF VerificationInv, BatchSound, AskAgain
<1>3. DraftSound'
  BY DEF VerificationInv, DraftSound, AskAgain, Eligible
<1> QED
  BY <1>1, <1>2, <1>3 DEF VerificationInv

\* A stored verdict approves what it supports; the other claims of the batch fell before.
LEMMA ReuseInv ==
  ASSUME VerificationInv, TypeOK', Reuse
  PROVE  VerificationInv'
<1>1. PICK entry \in saved : entry.claims = Input(Batch) /\ approved' = approved \union entry.supported
  BY DEF Reuse
<1>2. TypeOK /\ pc = "batch" /\ left' = left \ Batch /\ Batch \subseteq left /\ Batch \in SUBSET Indices
      /\ UNCHANGED <<stored, pc, pass, draft, saved, vouched, refused>>
  BY BatchLeft DEF Reuse, VerificationInv, TypeOK
<1>3. entry.supported \subseteq Batch
  <2>1. ASSUME NEW i \in entry.supported PROVE i \in Batch
    <3>1. PICK t \in Texts : <<i, t>> \in entry.claims
      BY DEF VerificationInv, SavedSound
    <3>2. i \in Indices
      BY <1>2 DEF TypeOK, Entry
    <3> QED
      BY <1>1, <1>2, <3>1, <3>2, InputMembers
  <2> QED
    BY <2>1
<1>4. ASSUME NEW i \in Batch
      PROVE  IF i \in entry.supported THEN draft[i] \in vouched ELSE draft[i] \in refused
  <2>1. <<i, draft[i]>> \in entry.claims /\ i \in Indices /\ draft[i] \in Texts
    BY <1>1, <1>2, InputMembers DEF TypeOK
  <2> QED
    BY <2>1 DEF VerificationInv, SavedSound
<1>5. SavedSound' /\ BatchSound'
  BY <1>2, SavedStays DEF VerificationInv, BatchSound
<1>6. DraftSound'
  <2>1. Batch \subseteq Eligible(draft, Indices)
    BY <1>2 DEF VerificationInv, DraftSound
  <2>2. (\A i \in approved' : draft'[i] \in vouched')
    BY <1>1, <1>2, <1>3, <1>4 DEF VerificationInv, DraftSound
  <2>3. approved' \subseteq Eligible(draft, Indices) /\ left' \subseteq Eligible(draft, Indices)
        /\ left' \intersect approved' = {}
    BY <1>1, <1>2, <1>3, <2>1 DEF VerificationInv, DraftSound
  <2>4. ASSUME NEW i \in Indices \ approved'
        PROVE  (pass = 1 /\ i \in left') \/ stored[i] \in refused \/ stored[i] \notin Admissible
    <3>1. (pass = 1 /\ i \in left) \/ stored[i] \in refused \/ stored[i] \notin Admissible
      BY <1>1, <1>2, <2>4 DEF VerificationInv, DraftSound
    <3>2. CASE pass = 1 /\ i \in Batch
      BY <1>1, <1>2, <1>4, <2>4, <3>2 DEF VerificationInv, DraftSound
    <3> QED
      BY <1>2, <3>1, <3>2
  <2> QED
    BY <1>2, <2>2, <2>3, <2>4 DEF DraftSound, VerificationInv, Eligible
<1> QED
  BY <1>5, <1>6 DEF VerificationInv

\* Approved texts stay; a claim that is not approved had fallen before its repair.
LEMMA RepairInv ==
  ASSUME VerificationInv, TypeOK', Repair
  PROVE  VerificationInv'
<1>1. PICK patches \in [Indices -> Texts \union {None}] :
        /\ draft' = Patched(patches)
        /\ left' = Eligible(draft', {i \in Indices \ approved : patches[i] # None})
  BY DEF Repair
<1>2. pc = "batch" /\ left = {} /\ pass = 1 /\ pass' = 2
      /\ UNCHANGED <<stored, pc, approved, saved, vouched, refused>>
  BY DEF Repair, CheckDone
<1>3. \A i \in approved : draft'[i] = draft[i]
  BY <1>1 DEF Patched, VerificationInv, TypeOK
<1>4. SavedSound' /\ BatchSound'
  BY <1>2, SavedStays DEF VerificationInv, BatchSound
<1>5. left' \subseteq Eligible(draft', Indices) /\ left' \intersect approved' = {}
  BY <1>1, <1>2 DEF Eligible
<1>6. approved' \subseteq Eligible(draft', Indices) /\ (\A i \in approved' : draft'[i] \in vouched')
  BY <1>2, <1>3 DEF VerificationInv, DraftSound, Eligible
<1>7. \A i \in Indices \ approved : stored[i] \in refused \/ stored[i] \notin Admissible
  BY <1>2 DEF VerificationInv, DraftSound
<1>8. DraftSound'
  BY <1>2, <1>5, <1>6, <1>7 DEF DraftSound, Eligible
<1> QED
  BY <1>4, <1>8 DEF VerificationInv

\* The invariant is inductive.
LEMMA InvStep ==
  ASSUME VerificationInv, [Next]_verificationVars
  PROVE  VerificationInv'
<1>0. TypeOK' /\ TypeOK
  BY TypeStep DEF VerificationInv
<1>1. CASE Start
  <2>1. SavedSound' /\ BatchSound'
    BY <1>1, SavedStays DEF VerificationInv, Start, BatchSound
  <2>2. DraftSound'
    BY <1>1 DEF Start, DraftSound, Eligible
  <2> QED
    BY <1>0, <2>1, <2>2 DEF VerificationInv
<1>2. CASE Stop
  BY <1>0, <1>2, SavedStays DEF VerificationInv, Stop, BatchSound, DraftSound
<1>3. CASE Reuse
  BY <1>0, <1>3, ReuseInv
<1>4. CASE Ask
  <2>1. SavedSound'
    BY <1>4, SavedStays DEF VerificationInv, Ask
  <2>2. BatchSound'
    BY <1>4, BatchLeft DEF Ask, BatchSound
  <2>3. DraftSound'
    BY <1>4 DEF VerificationInv, Ask, DraftSound, Eligible
  <2> QED
    BY <1>0, <2>1, <2>2, <2>3 DEF VerificationInv
<1>5. CASE Respond
  <2>1. PICK rows \in [Indices -> Row], alien \in BOOLEAN :
          LET complete == Complete(rows, alien)
              good == {i \in complete : rows[i] = "good"}
          IN
          /\ vouched' = vouched \union {draft[i] : i \in good}
          /\ refused' = refused \union {draft[i] : i \in complete \ good}
          /\ \/ complete = pending /\ Conclude(completed \union good)
             \/ complete # pending /\ AskAgain(pending \ complete, completed \union good)
    BY <1>5 DEF Respond
  <2> DEFINE complete == Complete(rows, alien)
             good == {i \in complete : rows[i] = "good"}
             supported == completed \union good
  <2>2. complete \subseteq pending /\ pending \subseteq asked /\ completed \subseteq asked \ pending
    BY <1>0, CompletePending DEF TypeOK
  <2>3. pc = "ask" /\ UNCHANGED <<stored, pass, draft>>
    BY <1>5 DEF Respond
  <2>4. vouched \subseteq vouched' /\ refused \subseteq refused'
    BY <2>1
  <2>5. \A i \in supported : draft[i] \in vouched'
    BY <2>1, <2>3 DEF VerificationInv, BatchSound
  <2>6. \A i \in asked \ ((pending \ complete) \union supported) : draft[i] \in refused'
    BY <2>1, <2>3 DEF VerificationInv, BatchSound
  <2>7. supported \in SUBSET asked /\ pending \ complete \in SUBSET pending
        /\ supported \in SUBSET (asked \ (pending \ complete))
    BY <2>2
  <2>8. CASE complete = pending /\ Conclude(supported)
    <3>1. \A i \in asked \ supported : draft[i] \in refused'
      BY <2>6, <2>8
    <3> HIDE DEF complete, good, supported
    <3> QED
      BY <1>0, <2>3, <2>4, <2>5, <2>7, <2>8, <3>1, ConcludeInv
  <2>9. CASE AskAgain(pending \ complete, supported)
    <3> HIDE DEF complete, good, supported
    <3> QED
      BY <1>0, <2>3, <2>4, <2>5, <2>6, <2>7, <2>9, AskAgainInv
  <2> QED
    BY <2>1, <2>8, <2>9
<1>6. CASE Malformed
  <2>1. pc = "ask" /\ AskAgain(pending, completed) /\ UNCHANGED <<stored, pass, draft, vouched, refused>>
    BY <1>6 DEF Malformed
  <2>2. pending \in SUBSET pending /\ completed \in SUBSET (asked \ pending)
    BY <1>0 DEF TypeOK
  <2>3. \A i \in completed : draft[i] \in vouched'
    BY <2>1 DEF VerificationInv, BatchSound
  <2>4. \A i \in asked \ (pending \union completed) : draft[i] \in refused'
    BY <2>1 DEF VerificationInv, BatchSound
  <2> QED
    BY <1>0, <2>1, <2>2, <2>3, <2>4, AskAgainInv
<1>7. CASE Repair
  BY <1>0, <1>7, RepairInv
<1>8. CASE Report
  BY <1>0, <1>8, SavedStays DEF VerificationInv, Report, BatchSound, DraftSound, Eligible, CheckDone
<1>9. CASE UNCHANGED verificationVars
  BY <1>0, <1>9, SavedStays
     DEF VerificationInv, verificationVars, nodeVars, askVars, BatchSound, DraftSound, Eligible
<1> QED
  BY <1>1, <1>2, <1>3, <1>4, <1>5, <1>6, <1>7, <1>8, <1>9 DEF Next

\* It holds at the start.
LEMMA InvInit == Init => VerificationInv
BY DEF Init, VerificationInv, TypeOK, SavedSound, BatchSound, DraftSound, PC

LEMMA Invariance == Spec => []VerificationInv
<1>1. VerificationInv /\ [Next]_verificationVars => VerificationInv'
  BY InvStep
<1> QED
  BY <1>1, InvInit, PTL DEF Spec

-----------------------------------------------------------------------------
(* Theorems.                                                               *)

\* The variables keep their types.
THEOREM TypeCorrect == Spec => []TypeOK
<1>1. VerificationInv => TypeOK
  BY DEF VerificationInv
<1> QED
  BY <1>1, Invariance, PTL

\* Reports and partial reports hold texts that a whole verdict on them has supported
\* (validator, ask, partial_report).
THEOREM ReportsAreVerified == Spec => []ReportVerified
<1>1. VerificationInv => ReportVerified
  <2> SUFFICES ASSUME VerificationInv PROVE ReportVerified
    OBVIOUS
  <2>1. ASSUME NEW entry \in saved, NEW c \in entry.claims, c[1] \in entry.supported
        PROVE  c[2] \in vouched
    <3>1. c = <<c[1], c[2]>> /\ c[1] \in Indices /\ c[2] \in Texts
      BY <2>1 DEF VerificationInv, TypeOK, Entry
    <3> QED
      BY <2>1, <3>1 DEF VerificationInv, SavedSound
  <2>2. PartialReport \subseteq vouched
    BY <2>1 DEF PartialReport
  <2>3. pc = "reported" => \A i \in approved : draft[i] \in Admissible \intersect vouched
    BY DEF VerificationInv, DraftSound, Eligible
  <2> QED
    BY <2>2, <2>3 DEF ReportVerified
<1> QED
  BY <1>1, Invariance, PTL

\* What a report lacks was refused by a whole verdict or by the program's checks: no
\* claim is lost to an incomplete verification (check_draft).
THEOREM NothingDroppedUnjudged == Spec => []DroppedOnlyIfRefused
<1>1. VerificationInv => DroppedOnlyIfRefused
  BY DEF VerificationInv, DraftSound, DroppedOnlyIfRefused
<1> QED
  BY <1>1, Invariance, PTL

\* An approved claim stays as it is within an execution (apply_report_repair).
THEOREM ApprovedStay == Spec => ApprovedKept
<1>1. VerificationInv /\ [Next]_verificationVars =>
        (pc # "stopped" /\ pc' # "stopped" =>
           \A i \in approved : i \in approved' /\ draft'[i] = draft[i])
  <2> SUFFICES ASSUME VerificationInv, [Next]_verificationVars, pc # "stopped", NEW i \in approved
               PROVE  i \in approved' /\ draft'[i] = draft[i]
    OBVIOUS
  <2>1. i \in Indices
    BY DEF VerificationInv, TypeOK
  <2>2. CASE Repair
    BY <2>1, <2>2 DEF Repair, Patched
  <2>3. CASE Respond
    BY <2>3 DEF Respond, Conclude, AskAgain
  <2>4. CASE Malformed
    BY <2>4 DEF Malformed, AskAgain
  <2> QED
    BY <2>2, <2>3, <2>4 DEF Next, Start, Stop, Reuse, Ask, Report, verificationVars, nodeVars
<1> QED
  BY <1>1, Invariance, PTL DEF Spec, ApprovedKept

=============================================================================
