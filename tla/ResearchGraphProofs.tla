-------------------------- MODULE ResearchGraphProofs --------------------------
(***************************************************************************)
(* Theorems about ResearchGraph, for any queries, rounds, attempts and     *)
(* editions of the documents.                                              *)
(***************************************************************************)
EXTENDS ResearchGraph, TLAPS

\* How many supersteps there are at most before a node in the first round.
Depth(n) ==
  CASE n = "vision" -> 0
    [] n = "router" -> 1
    [] n \in {"chat", "planner"} -> 2
    [] n \in Scouts -> 3
    [] n = "judge" -> 4
    [] n = "analyst" -> 5
    [] n = "reflect" -> 6
    [] n = "writer" -> 7
    [] n = "validator" -> 8

Opening == {"vision", "router", "chat", "planner"}

\* The nodes left are those of one superstep, and each further round took four supersteps.
Bounded(c) ==
  /\ c.values.round <= MaxRounds
  /\ c.left \subseteq Scouts \/ \E n \in Nodes : c.left = {n}
  /\ \A n \in c.left : c.steps <= Depth(n) + 4 * c.values.round
  /\ c.left = {} => c.steps <= 9 + 4 * c.values.round
  /\ c.left \intersect Opening # {} => c.values.round = 0

\* The later checkpoint of one execution of the graph.
Ahead(c, d) ==
  /\ d.born = c.born
  /\ d.steps > c.steps \/ (d.steps = c.steps /\ d.left \subseteq c.left)

Working(e) == exec[e].pc = "working"

\* An attempt has a checkpoint in memory exactly while it executes the graph.
PlaceInv ==
  \A e \in Attempts :
    /\ e > run.attempt => exec[e].pc = "none"
    /\ ~Working(e) => exec[e].memory = None /\ exec[e].begun = {}
    /\ Working(e) =>
         /\ exec[e].memory \in Checkpoint /\ Bounded(exec[e].memory)
         /\ exec[e].memory.born <= run.attempt
         /\ exec[e].begun \subseteq exec[e].memory.left

\* The saved checkpoint lies behind the one in the owner's memory.
SavedInv ==
  saved # None =>
    /\ Bounded(saved) /\ saved.born <= run.attempt
    /\ \A e \in Attempts : Working(e) /\ Owns(e) => Ahead(saved, exec[e].memory)

\* A start of the graph whose failure is recorded is over: nobody who has the run works on
\* it, and what is saved of it says that it has to be started anew.
FreshInv ==
  /\ \A b \in Attempts : failures[b] \in {0, 1} /\ (failures[b] = 1 => b <= run.attempt)
  /\ \A e \in Attempts : Owns(e) =>
       /\ exec[e].pc = "claimed" => failures[e] = 0
       /\ Working(e) => failures[exec[e].memory.born] = 0
  /\ saved # None /\ failures[saved.born] = 1 => run.retrievalFailed /\ saved.left = {}

GraphInv == TypeOK /\ PlaceInv /\ SavedInv /\ FreshInv

-----------------------------------------------------------------------------
(* Types.                                                                  *)

LEMMA GraphConstants ==
  /\ MaxRounds \in Nat /\ MaxSearches \in Nat /\ MaxEditions \in Nat /\ MaxAttempts \in Nat \ {0}
  /\ None \notin Verdict /\ None \notin Outcome /\ None \notin Checkpoint
  BY GraphAssumption

\* What the images and the local source give is evidence, as is what the web gives.
LEMMA ItemTypes ==
  ASSUME NEW v \in Values, TypeOK
  PROVE  /\ {<<"web", 0>>} \subseteq Item /\ Image(v) \subseteq Item
         /\ {<<"local", edition>>} \subseteq Item
  BY DEF Item, Image, TypeOK

\* The values and the checkpoint a start begins with.
LEMMA BlankType == Blank \in Values
  BY DEF Blank, Values

LEMMA FreshType ==
  ASSUME NEW e \in Attempts, TypeOK
  PROVE  [born |-> e, steps |-> 0, left |-> First, values |-> Blank] \in Checkpoint
  BY BlankType DEF Checkpoint, First, Nodes

LEMMA GoneType == Gone \in Execution
  BY DEF Gone, Execution, PC, Unasked

\* The edges lead to nodes.
LEMMA AfterType ==
  ASSUME NEW n \in Nodes, NEW v \in Values PROVE After(n, v) \subseteq Nodes
  BY DEF After, Nodes, Scouts

-----------------------------------------------------------------------------
(* The nodes.                                                              *)

\* How a node changes the number of rounds.
Counts(n, u, v) ==
  \/ n \notin {"planner", "reflect"} /\ v.round = u.round
  \/ n = "planner" /\ v.round = 0
  \/ n = "reflect" /\ v.reflect /\ v.round = u.round + 1 /\ v.round <= MaxRounds
  \/ n = "reflect" /\ ~v.reflect /\ v.round = u.round

Finishes(e) ==
  \E n \in Nodes : \E v \in Values :
    Runs(e, n) /\ Counts(n, Mind(e), v) /\ Finish(e, n, v)

\* What an attempt that works has in mind.
LEMMA MindType ==
  ASSUME GraphInv, NEW e \in Attempts, Working(e)
  PROVE  exec[e].memory \in Checkpoint /\ Mind(e) \in Values /\ exec[e] \in Execution
  BY DEF GraphInv, PlaceInv, TypeOK, Mind, Checkpoint

\* Every node returns values, and counts rounds as it should.
LEMMA OpeningNodes ==
  ASSUME GraphInv, NEW e \in Attempts, Vision(e) \/ Router(e) \/ Chat(e) \/ Planner(e)
  PROVE  Finishes(e)
<1>0. Working(e)
  BY DEF Vision, Router, Chat, Planner, Runs, Working
<1>m. Mind(e) \in Values /\ TypeOK
  BY <1>0, MindType DEF GraphInv
<1>1. CASE Vision(e)
  <2>1. PICK readable \in BOOLEAN : Finish(e, "vision", [Mind(e) EXCEPT !.image = readable])
    BY <1>1 DEF Vision
  <2>2. [Mind(e) EXCEPT !.image = readable] \in Values
    BY <1>m DEF Values
  <2> QED BY <1>1, <1>m, <2>1, <2>2 DEF Vision, Finishes, Nodes, Counts, Values
<1>2. CASE Router(e)
  <2>1. PICK v \in {[Mind(e) EXCEPT !.mode = mode] : mode \in {"chat", "quick", "deep"}}
                   \union {[Mind(e) EXCEPT !.mode = "chat", !.verdict = "answer"]} :
          Finish(e, "router", v)
    BY <1>2 DEF Router
  <2>2. v \in Values /\ v.round = Mind(e).round
    BY <1>m DEF Values, Verdict
  <2> QED BY <1>2, <2>1, <2>2 DEF Router, Finishes, Nodes, Counts
<1>3. CASE Chat(e)
  <2> DEFINE v == [Mind(e) EXCEPT !.evidence = Image(Mind(e)),
                                  !.verdict = IF run.images /\ ~Mind(e).image
                                              THEN "insufficient" ELSE "answer"]
  <2>1. v \in Values /\ v.round = Mind(e).round
    BY <1>m, ItemTypes DEF Values, Verdict
  <2>2. Finish(e, "chat", v)
    BY <1>3 DEF Chat
  <2> QED BY <1>3, <2>1, <2>2 DEF Chat, Finishes, Nodes, Counts
<1>4. CASE Planner(e)
  <2>1. PICK queries \in SUBSET Queries :
          Finish(e, "planner", [Mind(e) EXCEPT !.queries = queries, !.searched = {}, !.round = 0,
                                               !.evidence = {}])
    BY <1>4 DEF Planner
  <2> DEFINE v == [Mind(e) EXCEPT !.queries = queries, !.searched = {}, !.round = 0,
                                  !.evidence = {}]
  <2>2. v \in Values /\ v.round = 0
    BY <1>m DEF Values
  <2> QED BY <1>4, <2>1, <2>2 DEF Planner, Finishes, Nodes, Counts
<1> QED BY <1>1, <1>2, <1>3, <1>4

\* What reflect returns.
LEMMA ReflectedType ==
  ASSUME NEW u \in Values, NEW reflect \in BOOLEAN, NEW queries \in SUBSET Queries, NEW k \in Nat
  PROVE  LET v == [u EXCEPT !.reflect = reflect, !.queries = queries, !.round = k]
         IN v \in Values /\ v.round = k /\ v.reflect = reflect
  BY DEF Values

\* The nodes of a round.
LEMMA RoundNodes ==
  ASSUME GraphInv, NEW e \in Attempts,
         WebScout(e) \/ LocalScout(e) \/ Judge(e) \/ Analyst(e) \/ Reflect(e)
  PROVE  Finishes(e)
<1>0. Working(e)
  BY DEF WebScout, LocalScout, Judge, Analyst, Reflect, Runs, Working
<1>m. Mind(e) \in Values /\ TypeOK
  BY <1>0, MindType DEF GraphInv
<1>1. CASE WebScout(e)
  <2> DEFINE outcomes == {exec[e].answered[q] : q \in Mind(e).queries}
             V(web) == [Mind(e) EXCEPT !.web = web, !.searched = @ \union Mind(e).queries,
                                       !.attempted = @ \union (outcomes \intersect Attempted)]
  <2>1. PICK web \in SUBSET {<<"web", 0>>} : Finish(e, "web_scout", V(web))
    BY <1>1 DEF WebScout
  <2>2. V(web) \in Values /\ V(web).round = Mind(e).round
    BY <1>m, <2>1, ItemTypes DEF Values
  <2> QED BY <1>1, <2>1, <2>2 DEF WebScout, Finishes, Nodes, Counts
<1>2. CASE LocalScout(e)
  <2>1. CASE Finish(e, "local_scout", [Mind(e) EXCEPT !.local = {}])
    <3>1. [Mind(e) EXCEPT !.local = {}] \in Values
          /\ [Mind(e) EXCEPT !.local = {}].round = Mind(e).round
      BY <1>m DEF Values
    <3> QED BY <1>2, <2>1, <3>1 DEF LocalScout, Finishes, Nodes, Counts
  <2>2. ASSUME NEW outcome \in {"ok", "empty", "error"}, NEW local \in SUBSET Item,
               Finish(e, "local_scout", [Mind(e) EXCEPT !.local = local,
                                                        !.attempted = @ \union {outcome}])
        PROVE  Finishes(e)
    <3> DEFINE v == [Mind(e) EXCEPT !.local = local, !.attempted = @ \union {outcome}]
    <3>1. v \in Values /\ v.round = Mind(e).round
      BY <1>m DEF Values, Attempted
    <3> QED BY <1>2, <2>2, <3>1 DEF LocalScout, Finishes, Nodes, Counts
  <2> QED BY <1>2, <1>m, <2>1, <2>2, ItemTypes DEF LocalScout
<1>3. CASE Judge(e)
  <2> DEFINE candidates == Mind(e).evidence \union Image(Mind(e)) \union Mind(e).web
                           \union Mind(e).local
  <2>1. PICK accepted \in SUBSET candidates :
          Finish(e, "judge", [Mind(e) EXCEPT !.evidence = accepted])
    BY <1>3 DEF Judge
  <2>2. [Mind(e) EXCEPT !.evidence = accepted] \in Values
        /\ [Mind(e) EXCEPT !.evidence = accepted].round = Mind(e).round
    BY <1>m, <2>1, ItemTypes DEF Values
  <2> QED BY <1>3, <2>1, <2>2 DEF Judge, Finishes, Nodes, Counts
<1>4. CASE Analyst(e)
  <2>1. PICK claims \in BOOLEAN, gaps \in BOOLEAN :
          Finish(e, "analyst", [Mind(e) EXCEPT !.claims = claims, !.gaps = gaps])
    BY <1>4 DEF Analyst
  <2>2. [Mind(e) EXCEPT !.claims = claims, !.gaps = gaps] \in Values
        /\ [Mind(e) EXCEPT !.claims = claims, !.gaps = gaps].round = Mind(e).round
    BY <1>m DEF Values
  <2> QED BY <1>4, <2>1, <2>2 DEF Analyst, Finishes, Nodes, Counts
<1>5. CASE Reflect(e)
  <2> DEFINE u == Mind(e)
             asks == u.mode # "quick" /\ u.gaps /\ u.round < MaxRounds
             V(queries, capacity) ==
               LET goes == asks /\ capacity /\ queries # {}
               IN [u EXCEPT !.reflect = goes,
                            !.queries = IF asks /\ capacity THEN queries ELSE @,
                            !.round = IF goes THEN @ + 1 ELSE @]
  <2>1. PICK queries \in SUBSET Queries, capacity \in BOOLEAN :
          Finish(e, "reflect", V(queries, capacity))
    <3>1. PICK queries \in SUBSET (Queries \ u.searched), hasLocal \in BOOLEAN, searchOn \in BOOLEAN :
            Finish(e, "reflect", V(queries, (searchOn /\ counter < MaxSearches) \/ hasLocal))
      BY <1>5 DEF Reflect
    <3> QED BY <3>1
  <2> DEFINE goes == asks /\ capacity /\ queries # {}
  <2>2. CASE goes
    <3>1. V(queries, capacity) = [u EXCEPT !.reflect = TRUE, !.queries = queries, !.round = @ + 1]
      BY <2>2
    <3> DEFINE v == [u EXCEPT !.reflect = TRUE, !.queries = queries, !.round = @ + 1]
    <3>2. u.round + 1 \in Nat /\ u.round + 1 <= MaxRounds
      BY <1>m, <2>2, GraphConstants DEF Values
    <3>3. v \in Values /\ v.round = u.round + 1 /\ v.reflect = TRUE
      BY <1>m, <3>2, ReflectedType
    <3> QED BY <1>5, <2>1, <3>1, <3>2, <3>3 DEF Reflect, Finishes, Nodes, Counts
  <2>3. CASE ~goes
    <3> DEFINE qs == IF asks /\ capacity THEN queries ELSE u.queries
               v == [u EXCEPT !.reflect = FALSE, !.queries = qs, !.round = @]
    <3>1. V(queries, capacity) = v
      BY <2>3
    <3>2. qs \in SUBSET Queries /\ u.round \in Nat
      BY <1>m DEF Values
    <3> HIDE DEF qs
    <3>3. v \in Values /\ v.round = u.round /\ ~v.reflect
      BY <1>m, <3>2 DEF Values
    <3>4. Counts("reflect", u, v)
      BY <3>3 DEF Counts
    <3> HIDE DEF v, V
    <3> QED BY <1>5, <2>1, <3>1, <3>3, <3>4 DEF Reflect, Finishes, Nodes
  <2> QED BY <2>2, <2>3
<1> QED BY <1>1, <1>2, <1>3, <1>4, <1>5

\* The nodes that write and check the report.
LEMMA ClosingNodes ==
  ASSUME GraphInv, NEW e \in Attempts, Writer(e) \/ Validator(e)
  PROVE  Finishes(e)
<1>0. Working(e)
  BY DEF Writer, Validator, Runs, Working
<1>m. Mind(e) \in Values /\ TypeOK
  BY <1>0, MindType DEF GraphInv
<1>1. CASE Writer(e)
  <2>1. PICK draft \in BOOLEAN, verdict \in {None, "failed", "insufficient"} :
          Finish(e, "writer", [Mind(e) EXCEPT !.draft = draft, !.verdict = verdict])
    BY <1>1 DEF Writer
  <2>2. [Mind(e) EXCEPT !.draft = draft, !.verdict = verdict] \in Values
        /\ [Mind(e) EXCEPT !.draft = draft, !.verdict = verdict].round = Mind(e).round
    BY <1>m DEF Values, Verdict
  <2> QED BY <1>1, <2>1, <2>2 DEF Writer, Finishes, Nodes, Counts
<1>2. CASE Validator(e)
  <2>1. CASE Finish(e, "validator", Mind(e))
    BY <1>2, <1>m, <2>1 DEF Validator, Finishes, Nodes, Counts
  <2>2. ASSUME NEW used \in SUBSET Mind(e).evidence,
               Finish(e, "validator",
                      [Mind(e) EXCEPT !.evidence = used,
                                      !.verdict = IF used = {} THEN "insufficient" ELSE "verified"])
        PROVE  Finishes(e)
    <3> DEFINE v == [Mind(e) EXCEPT !.evidence = used,
                                    !.verdict = IF used = {} THEN "insufficient" ELSE "verified"]
    <3>1. v \in Values /\ v.round = Mind(e).round
      BY <1>m DEF Values, Verdict
    <3> QED BY <1>2, <2>2, <3>1 DEF Validator, Finishes, Nodes, Counts
  <2> QED BY <1>2, <2>1, <2>2 DEF Validator
<1> QED BY <1>1, <1>2

-----------------------------------------------------------------------------
(* The end of a node.                                                      *)

\* The depths and the edges, node by node.
LEMMA Depths ==
  /\ Depth("vision") = 0 /\ Depth("router") = 1 /\ Depth("chat") = 2 /\ Depth("planner") = 2
  /\ Depth("web_scout") = 3 /\ Depth("local_scout") = 3 /\ Depth("judge") = 4
  /\ Depth("analyst") = 5 /\ Depth("reflect") = 6 /\ Depth("writer") = 7 /\ Depth("validator") = 8
  BY DEF Depth, Scouts

LEMMA Edges ==
  ASSUME NEW v
  PROVE  /\ After("vision", v) = {"router"} /\ After("router", v) \in {{}, {"chat"}, {"planner"}}
         /\ After("planner", v) = Scouts /\ After("chat", v) = {}
         /\ After("web_scout", v) = {"judge"} /\ After("local_scout", v) = {"judge"}
         /\ After("judge", v) = {"analyst"} /\ After("analyst", v) = {"reflect"}
         /\ v.reflect => After("reflect", v) = Scouts
         /\ ~v.reflect => After("reflect", v) = {"writer"}
         /\ After("writer", v) = {"validator"} /\ After("validator", v) = {}
  BY DEF After, Scouts

\* A checkpoint at the start of a superstep keeps the bound, if it is not too late.
LEMMA Lands ==
  ASSUME NEW d \in Checkpoint, d.values.round \in Nat, d.values.round <= MaxRounds,
         \/ d.left = {} /\ d.steps <= 9 + 4 * d.values.round
         \/ d.left = Scouts /\ d.steps <= 3 + 4 * d.values.round
         \/ \E m \in Nodes : /\ d.left = {m} /\ d.steps <= Depth(m) + 4 * d.values.round
                             /\ m \in Opening => d.values.round = 0
  PROVE  Bounded(d)
<1>1. CASE d.left = {} /\ d.steps <= 9 + 4 * d.values.round
  BY <1>1 DEF Bounded
<1>2. CASE d.left = Scouts /\ d.steps <= 3 + 4 * d.values.round
  <2>1. Scouts \intersect Opening = {} /\ Scouts # {} /\ \A m \in Scouts : Depth(m) = 3
    BY Depths DEF Scouts, Opening
  <2> QED BY <1>2, <2>1 DEF Bounded
<1>3. ASSUME NEW m \in Nodes, d.left = {m}, d.steps <= Depth(m) + 4 * d.values.round,
             m \in Opening => d.values.round = 0
      PROVE  Bounded(d)
  BY <1>3 DEF Bounded
<1> QED BY <1>1, <1>2, <1>3

\* It is one, it is later, and it keeps the bound on the supersteps.
LEMMA StepForward ==
  ASSUME NEW c \in Checkpoint, Bounded(c), NEW n \in c.left, NEW v \in Values,
         Counts(n, c.values, v)
  PROVE  /\ Returned(c, n, v) \in Checkpoint /\ Bounded(Returned(c, n, v))
         /\ Ahead(c, Returned(c, n, v)) /\ Returned(c, n, v).born = c.born
         /\ \/ c.left \ {n} = {}
            \/ Returned(c, n, v).left = c.left \ {n}
<1> DEFINE d == Returned(c, n, v)
           u == c.values
<1>1. /\ n \in Nodes /\ c.steps \in Nat /\ u \in Values /\ u.round \in Nat /\ v.round \in Nat
      /\ MaxRounds \in Nat /\ c.left \subseteq Nodes
  BY GraphConstants DEF Checkpoint, Values
<1>2. CASE c.left \ {n} # {}
  <2>1. d = [c EXCEPT !.values = v, !.left = c.left \ {n}, !.steps = c.steps]
    BY <1>2 DEF Returned
  <2>2. d.values = v /\ d.left = c.left \ {n} /\ d.steps = c.steps /\ d.born = c.born
        /\ d \in Checkpoint
    BY <1>1, <2>1 DEF Checkpoint
  <2>3. c.left \subseteq Scouts
    BY <1>2 DEF Bounded
  <2>4. v.round = u.round
    BY <2>3 DEF Counts, Scouts
  <2>5. Bounded(d)
    BY <1>2, <2>2, <2>3, <2>4 DEF Bounded, Scouts, Opening
  <2> QED BY <2>2, <2>5 DEF Ahead
<1>3. CASE c.left \ {n} = {}
  <2>1. d = [c EXCEPT !.values = v, !.left = After(n, v), !.steps = c.steps + 1]
    BY <1>3 DEF Returned
  <2> HIDE DEF d
  <2>2. d.values = v /\ d.left = After(n, v) /\ d.steps = c.steps + 1 /\ d.born = c.born
        /\ d \in Checkpoint
    <3>1. PICK left \in SUBSET Nodes : left = After(n, v)
      BY <1>1, AfterType
    <3>2. PICK k \in Nat : k = c.steps + 1
      BY <1>1
    <3>3. d = [c EXCEPT !.values = v, !.left = left, !.steps = k]
      BY <2>1, <3>1, <3>2
    <3>4. d \in Checkpoint /\ d.values = v /\ d.left = left /\ d.steps = k /\ d.born = c.born
      BY <3>3 DEF Checkpoint
    <3> QED BY <3>1, <3>2, <3>4
  <2>3. c.steps <= Depth(n) + 4 * u.round /\ u.round <= MaxRounds
        /\ (n \in Opening => u.round = 0)
    BY DEF Bounded
  <2>4. v.round <= MaxRounds
    BY <1>1, <2>3 DEF Counts
  <2>5. Bounded(d)
    <3>1. CASE n \in Opening
      <4>1. v.round = 0 /\ c.steps <= Depth(n)
        BY <1>1, <2>3, <3>1, Depths DEF Counts, Opening
      <4>2. CASE n = "vision"
        BY <1>1, <2>2, <2>4, <4>1, <4>2, Depths, Edges, Lands DEF Nodes
      <4>3. CASE n = "router"
        <5>1. d.left = {} \/ d.left = {"chat"} \/ d.left = {"planner"}
          BY <2>2, <4>3, Edges
        <5> QED BY <1>1, <2>2, <2>4, <4>1, <4>3, <5>1, Depths, Lands DEF Nodes
      <4>4. CASE n = "chat"
        BY <1>1, <2>2, <2>4, <4>1, <4>4, Depths, Edges, Lands
      <4>5. CASE n = "planner"
        BY <1>1, <2>2, <2>4, <4>1, <4>5, Depths, Edges, Lands
      <4> QED BY <3>1, <4>2, <4>3, <4>4, <4>5 DEF Opening
    <3>2. CASE n = "reflect" /\ v.reflect
      <4>1. v.round = u.round + 1 /\ After(n, v) = Scouts
        BY <3>2, Edges DEF Counts
      <4> QED BY <1>1, <2>2, <2>3, <2>4, <3>2, <4>1, Depths, Lands
    <3>3. CASE n = "reflect" /\ ~v.reflect
      <4>1. v.round = u.round /\ After(n, v) = {"writer"}
        BY <3>3, Edges DEF Counts
      <4>2. "writer" \in Nodes \ Opening
        BY DEF Nodes, Opening
      <4> QED BY <1>1, <2>2, <2>3, <2>4, <3>3, <4>1, <4>2, Depths, Lands
    <3>4. CASE n \in Nodes \ (Opening \union {"reflect"})
      <4>1. v.round = u.round
        BY <3>4 DEF Counts, Opening
      <4>2. Depth(n) \in Nat
        BY <3>4, Depths DEF Nodes, Opening
      <4>3. \/ After(n, v) = {} /\ Depth(n) = 8
            \/ \E m \in Nodes \ Opening : After(n, v) = {m} /\ Depth(m) = Depth(n) + 1
        <5>1. {"judge", "analyst", "reflect", "validator"} \subseteq Nodes \ Opening
          BY DEF Nodes, Opening
        <5>2. \/ n \in Scouts /\ After(n, v) = {"judge"} /\ Depth("judge") = Depth(n) + 1
              \/ n = "judge" /\ After(n, v) = {"analyst"} /\ Depth("analyst") = Depth(n) + 1
              \/ n = "analyst" /\ After(n, v) = {"reflect"} /\ Depth("reflect") = Depth(n) + 1
              \/ n = "writer" /\ After(n, v) = {"validator"} /\ Depth("validator") = Depth(n) + 1
              \/ n = "validator" /\ After(n, v) = {} /\ Depth(n) = 8
          BY <3>4, Edges, Depths DEF Nodes, Opening, Scouts
        <5> QED BY <5>1, <5>2
      <4> QED BY <1>1, <2>2, <2>3, <2>4, <4>1, <4>2, <4>3, Lands
    <3> QED BY <1>1, <3>1, <3>2, <3>3, <3>4
  <2> QED BY <1>1, <1>3, <2>2, <2>5 DEF d, Ahead
<1> QED BY <1>2, <1>3

\* A later checkpoint than a later one is later.
LEMMA AheadTransitive ==
  ASSUME NEW a \in Checkpoint, NEW b \in Checkpoint, NEW c \in Checkpoint, Ahead(a, b), Ahead(b, c)
  PROVE  Ahead(a, c)
  BY DEF Ahead, Checkpoint

\* The end of a node keeps the invariant.
LEMMA FinishKeeps ==
  ASSUME GraphInv, NEW e \in Attempts, Finishes(e)
  PROVE  GraphInv'
<1>1. PICK n \in Nodes, v \in Values : Runs(e, n) /\ Counts(n, Mind(e), v) /\ Finish(e, n, v)
  BY DEF Finishes
<1> DEFINE c == exec[e].memory
           d == Returned(c, n, v)
<1>2. /\ Working(e) /\ n \in exec[e].begun /\ n \in c.left /\ c \in Checkpoint /\ Bounded(c)
      /\ c.born <= run.attempt /\ exec[e].begun \subseteq c.left /\ exec[e] \in Execution
  BY <1>1 DEF Runs, Working, GraphInv, PlaceInv, TypeOK
<1>3. /\ d \in Checkpoint /\ Bounded(d) /\ Ahead(c, d) /\ d.born = c.born
      /\ (c.left \ {n} = {} \/ d.left = c.left \ {n})
  BY <1>1, <1>2, StepForward DEF Mind
<1>4. /\ exec' = [exec EXCEPT ![e].begun = @ \ {n}, ![e].answered = Unasked, ![e].memory = d]
      /\ UNCHANGED <<run, basis, corpus, edition, saved, counter, cache, failures>> /\ Owns(e)
  BY <1>1 DEF Finish
<1> HIDE DEF d
<1>5. exec'[e] \in Execution /\ exec'[e].pc = "working" /\ exec'[e].memory = d
      /\ exec'[e].begun = exec[e].begun \ {n} /\ \A f \in Attempts \ {e} : exec'[f] = exec[f]
  BY <1>2, <1>3, <1>4 DEF Execution, Unasked, GraphInv, TypeOK, Working
<1>6. TypeOK'
  BY <1>4, <1>5 DEF GraphInv, TypeOK
<1>7. PlaceInv'
  BY <1>2, <1>3, <1>4, <1>5 DEF GraphInv, PlaceInv, Working
<1>8. SavedInv'
  <2>1. ASSUME saved # None PROVE Ahead(saved, d)
    BY <1>2, <1>3, <1>4, <2>1, AheadTransitive DEF GraphInv, SavedInv, TypeOK
  <2> QED BY <1>4, <1>5, <2>1 DEF GraphInv, SavedInv, Working, Owns
<1>9. FreshInv'
  <2>1. failures[d.born] = 0
    BY <1>2, <1>3, <1>4 DEF GraphInv, FreshInv
  <2>2. ASSUME NEW f \in Attempts, Owns(f)
        PROVE  /\ exec'[f].pc = "claimed" => failures[f] = 0
               /\ exec'[f].pc = "working" => failures[exec'[f].memory.born] = 0
    BY <1>5, <2>1, <2>2 DEF GraphInv, FreshInv, Working
  <2> QED BY <1>4, <2>2 DEF GraphInv, FreshInv, Working, Owns
<1> QED BY <1>6, <1>7, <1>8, <1>9 DEF GraphInv

-----------------------------------------------------------------------------
(* Attempts: their beginning, their writes and their end.                  *)

\* What is known of the variables and of one attempt.
LEMMA GraphTypes ==
  ASSUME GraphInv, NEW e \in Attempts
  PROVE  /\ exec[e] \in Execution /\ exec \in [Attempts -> Execution] /\ run \in Run
         /\ e \in Nat /\ run.attempt \in Nat /\ e <= MaxAttempts
         /\ Attempts \subseteq Nat /\ MaxAttempts \in Nat
         /\ failures \in [Attempts -> Nat] /\ saved \in Checkpoint \union {None}
         /\ saved # None => saved \in Checkpoint /\ saved.born \in Attempts
<1>1. /\ exec \in [Attempts -> Execution] /\ run \in Run /\ failures \in [Attempts -> Nat]
      /\ saved \in Checkpoint \union {None}
  BY DEF GraphInv, TypeOK
<1>2. run.attempt \in Nat
  BY <1>1, GraphConstants DEF Run
<1>3. Attempts \subseteq Nat /\ MaxAttempts \in Nat /\ e <= MaxAttempts /\ e \in Nat
  BY GraphConstants DEF Attempts
<1>4. saved # None => saved \in Checkpoint /\ saved.born \in Attempts
  BY <1>1 DEF Checkpoint
<1> QED BY <1>1, <1>2, <1>3, <1>4

\* A claim passes the run to an attempt that has not done anything yet.
LEMMA ClaimKeeps ==
  ASSUME GraphInv, NEW e \in Attempts, Claim(e) PROVE GraphInv'
<1>1. /\ e = run.attempt + 1 /\ run' = [run EXCEPT !.status = "running", !.attempt = e]
      /\ exec' = [exec EXCEPT ![e].pc = "claimed"]
      /\ UNCHANGED <<basis, corpus, edition, saved, counter, cache, failures>>
  BY DEF Claim
<1>2. /\ run'.attempt = e /\ run'.status = "running" /\ run'.retrievalFailed = run.retrievalFailed
      /\ run' \in Run
  <2>1. run \in Run /\ e \in 0..MaxAttempts
    BY GraphTypes
  <2> QED BY <1>1, <2>1 DEF Run
<1>3. ~Working(e) /\ exec[e].memory = None /\ exec[e].begun = {}
  BY <1>1, GraphTypes DEF GraphInv, PlaceInv, Working
<1>4. /\ exec'[e].pc = "claimed" /\ exec'[e].memory = None /\ exec'[e].begun = {}
      /\ exec' \in [Attempts -> Execution] /\ \A f \in Attempts \ {e} : exec'[f] = exec[f]
  <2>1. exec[e] \in Execution /\ exec \in [Attempts -> Execution]
    BY GraphTypes
  <2> DEFINE x == [exec[e] EXCEPT !.pc = "claimed"]
  <2>2. x \in Execution /\ x.pc = "claimed" /\ x.memory = None /\ x.begun = {}
    BY <1>3, <2>1 DEF Execution, PC
  <2>3. exec' = [exec EXCEPT ![e] = x]
    BY <1>1, <2>1
  <2> HIDE DEF x
  <2> QED BY <2>1, <2>2, <2>3
<1>5. TypeOK'
  BY <1>1, <1>2, <1>4 DEF GraphInv, TypeOK
<1>6. PlaceInv'
  <2> SUFFICES ASSUME NEW f \in Attempts
               PROVE  /\ f > e => exec'[f].pc = "none"
                      /\ exec'[f].pc # "working" => exec'[f].memory = None /\ exec'[f].begun = {}
                      /\ exec'[f].pc = "working" =>
                           /\ exec'[f].memory \in Checkpoint /\ Bounded(exec'[f].memory)
                           /\ exec'[f].memory.born <= e
                           /\ exec'[f].begun \subseteq exec'[f].memory.left
    BY <1>2 DEF PlaceInv, Working
  <2>1. CASE f = e
    BY <1>4, <2>1, GraphTypes
  <2>2. CASE f # e
    <3>1. exec[f].memory \in Checkpoint => exec[f].memory.born \in Nat
      BY GraphTypes DEF Checkpoint
    <3> QED BY <1>1, <1>4, <2>2, <3>1, GraphTypes DEF GraphInv, PlaceInv, Working
  <2> QED BY <2>1, <2>2
<1>7. SavedInv'
  BY <1>1, <1>2, <1>4, GraphTypes DEF GraphInv, SavedInv, Working, Owns
<1>8. FreshInv'
  <2>1. failures[e] = 0
    BY <1>1, GraphTypes DEF GraphInv, FreshInv
  <2>2. ASSUME NEW b \in Attempts
        PROVE  failures[b] \in {0, 1} /\ (failures[b] = 1 => b <= e)
    BY <1>1, GraphTypes DEF GraphInv, FreshInv, Attempts
  <2> QED BY <1>1, <1>2, <1>4, <2>1, <2>2 DEF GraphInv, FreshInv, Working, Owns
<1> QED BY <1>5, <1>6, <1>7, <1>8 DEF GraphInv

\* A start of the graph, from nothing or from what is saved.
LEMMA LoadKeeps ==
  ASSUME GraphInv, NEW e \in Attempts, Load(e) PROVE GraphInv'
<1> DEFINE fresh == [born |-> e, steps |-> 0, left |-> First, values |-> Blank]
           c == IF StartsAnew THEN fresh ELSE saved
<1>1. /\ exec[e].pc = "claimed" /\ Owns(e)
      /\ exec' = [exec EXCEPT ![e].pc = "working", ![e].memory = c]
      /\ saved' = IF StartsAnew THEN None ELSE saved
      /\ basis' = IF basis = None THEN corpus ELSE basis
      /\ UNCHANGED <<run, corpus, edition, counter, cache, failures>>
  BY DEF Load
<1>2. failures[e] = 0 /\ exec[e].begun = {} /\ run.attempt = e
  <2>1. run.attempt = e /\ ~Working(e)
    BY <1>1 DEF Owns, Working
  <2> QED BY <1>1, <2>1 DEF GraphInv, FreshInv, PlaceInv
<1>3. fresh \in Checkpoint /\ Bounded(fresh)
  <2>1. fresh \in Checkpoint
    BY FreshType DEF GraphInv
  <2>2. /\ fresh.left = {"vision"} \/ fresh.left = {"router"}
        /\ fresh.steps = 0 /\ fresh.values.round = 0
    BY DEF First, Blank
  <2>3. "vision" \in Nodes /\ "router" \in Nodes
    BY DEF Nodes
  <2> HIDE DEF fresh
  <2>4. PICK m \in Nodes : fresh.left = {m} /\ (m = "vision" \/ m = "router")
    BY <2>2, <2>3
  <2>5. fresh.steps <= Depth(m) + 4 * fresh.values.round
    BY <2>2, <2>4, Depths
  <2>6. fresh.values.round \in Nat /\ fresh.values.round <= MaxRounds
    BY <2>2, GraphConstants
  <2> QED BY <2>1, <2>2, <2>4, <2>5, <2>6, Lands
<1>4. StartsAnew \/ (saved \in Checkpoint /\ Bounded(saved) /\ saved.born <= e
                     /\ failures[saved.born] = 0)
  BY <1>2, GraphTypes DEF StartsAnew, GraphInv, SavedInv, FreshInv
<1>5. c \in Checkpoint /\ Bounded(c) /\ c.born <= e /\ failures[c.born] = 0
  BY <1>2, <1>3, <1>4, GraphTypes
<1>6. saved' = None \/ (saved' = saved /\ c = saved)
  BY <1>1
<1> HIDE DEF c
<1>7. /\ exec'[e].pc = "working" /\ exec'[e].memory = c /\ exec'[e].begun = {}
      /\ exec' \in [Attempts -> Execution] /\ \A f \in Attempts \ {e} : exec'[f] = exec[f]
  BY <1>1, <1>2, <1>5, GraphTypes DEF Execution, PC
<1>8. TypeOK'
  BY <1>1, <1>6, <1>7 DEF GraphInv, TypeOK
<1>9. PlaceInv'
  BY <1>1, <1>2, <1>5, <1>7, GraphTypes DEF GraphInv, PlaceInv, Working
<1>10. SavedInv'
  <2>1. Ahead(c, c)
    BY DEF Ahead
  <2>2. ASSUME saved' # None, NEW f \in Attempts, Owns(f) PROVE Ahead(saved', exec'[f].memory)
    BY <1>1, <1>6, <1>7, <2>1, <2>2 DEF Owns
  <2>3. ASSUME saved' # None PROVE Bounded(saved') /\ saved'.born <= run.attempt
    BY <1>2, <1>5, <1>6, <2>3
  <2> QED BY <1>1, <2>2, <2>3 DEF SavedInv, Working, Owns
<1>11. FreshInv'
  <2>1. ASSUME NEW f \in Attempts, Owns(f)
        PROVE  f = e
    BY <1>1, <2>1 DEF Owns
  <2>2. saved' # None /\ failures[saved'.born] = 1 => run.retrievalFailed /\ saved'.left = {}
    BY <1>6 DEF GraphInv, FreshInv
  <2> QED BY <1>1, <1>2, <1>5, <1>7, <2>1, <2>2 DEF GraphInv, FreshInv, Working, Owns
<1> QED BY <1>8, <1>9, <1>10, <1>11 DEF GraphInv

\* Searches and the beginning of a node touch neither the checkpoint nor what is saved.
LEMMA BusyKeeps ==
  ASSUME GraphInv, NEW e \in Attempts,
         (\E n \in Nodes : Begin(e, n)) \/ (\E q \in Queries : Search(e, q))
  PROVE  GraphInv'
<1>1. /\ Working(e) /\ exec'[e].pc = "working" /\ exec'[e].memory = exec[e].memory
      /\ exec'[e].begun \subseteq exec[e].memory.left
      /\ exec' \in [Attempts -> Execution] /\ \A f \in Attempts \ {e} : exec'[f] = exec[f]
      /\ UNCHANGED <<run, basis, corpus, edition, saved, failures>>
      /\ counter' \in Nat /\ cache' \in [Queries -> {"ok", "empty", None}]
  <2>1. CASE \E n \in Nodes : Begin(e, n)
    BY <2>1, GraphTypes DEF Begin, Working, Execution, GraphInv, PlaceInv, TypeOK
  <2>2. ASSUME NEW q \in Queries, Search(e, q)
        PROVE  /\ Working(e) /\ UNCHANGED <<run, basis, corpus, edition, saved, failures>>
               /\ \E outcome \in Outcome : exec' = [exec EXCEPT ![e].answered[q] = outcome]
               /\ counter' \in Nat /\ cache' \in [Queries -> {"ok", "empty", None}]
    <3>1. Working(e) /\ UNCHANGED <<run, basis, corpus, edition, saved, failures>>
      BY <2>2 DEF Search, Runs, Working
    <3>2. PICK outcome \in Outcome :
            /\ exec' = [exec EXCEPT ![e].answered[q] = outcome]
            /\ \/ UNCHANGED <<counter, cache>>
               \/ /\ outcome \in {"ok", "empty", "error"} /\ counter' = counter + 1
                  /\ cache' = [cache EXCEPT ![q] = IF outcome = "error" THEN @ ELSE outcome]
      BY <2>2 DEF Search
    <3>3. counter \in Nat /\ cache \in [Queries -> {"ok", "empty", None}]
      BY DEF GraphInv, TypeOK
    <3>4. counter' \in Nat /\ cache' \in [Queries -> {"ok", "empty", None}]
      BY <3>2, <3>3
    <3> QED BY <3>1, <3>2, <3>4
  <2>3. ASSUME NEW q \in Queries, NEW outcome \in Outcome, Working(e),
               exec' = [exec EXCEPT ![e].answered[q] = outcome]
        PROVE  /\ exec'[e].pc = "working" /\ exec'[e].memory = exec[e].memory
               /\ exec'[e].begun = exec[e].begun
               /\ exec' \in [Attempts -> Execution] /\ \A f \in Attempts \ {e} : exec'[f] = exec[f]
    BY <2>3, GraphTypes DEF Execution, Working
  <2> QED BY <2>1, <2>2, <2>3 DEF GraphInv, PlaceInv
<1>2. TypeOK'
  BY <1>1 DEF GraphInv, TypeOK
<1>3. PlaceInv'
  BY <1>1 DEF GraphInv, PlaceInv, Working
<1>4. SavedInv'
  BY <1>1 DEF GraphInv, SavedInv, Working, Owns
<1>5. FreshInv'
  BY <1>1 DEF GraphInv, FreshInv, Working, Owns
<1> QED BY <1>2, <1>3, <1>4, <1>5 DEF GraphInv

\* What the owner stores is its own memory.
LEMMA SaveKeeps ==
  ASSUME GraphInv, NEW e \in Attempts, Save(e) PROVE GraphInv'
<1>1. /\ Working(e) /\ Owns(e) /\ saved' = exec[e].memory
      /\ UNCHANGED <<run, basis, corpus, edition, counter, cache, exec, failures>>
  BY DEF Save, Working
<1>2. /\ exec[e].memory \in Checkpoint /\ Bounded(exec[e].memory)
      /\ exec[e].memory.born <= run.attempt /\ failures[exec[e].memory.born] = 0
  BY <1>1 DEF GraphInv, PlaceInv, FreshInv
<1>3. TypeOK'
  BY <1>1, <1>2 DEF GraphInv, TypeOK
<1>4. PlaceInv'
  BY <1>1 DEF GraphInv, PlaceInv, Working
<1>5. SavedInv'
  <2>1. \A f \in Attempts : Owns(f) => f = e
    BY <1>1 DEF Owns
  <2>2. Ahead(saved', exec[e].memory)
    BY <1>1 DEF Ahead
  <2> QED BY <1>1, <1>2, <2>1, <2>2 DEF SavedInv, Working, Owns
<1>6. FreshInv'
  <2>1. \A b \in Attempts : failures[b] \in {0, 1} /\ (failures[b] = 1 => b <= run.attempt)
    BY DEF GraphInv, FreshInv
  <2>2. \A f \in Attempts : Owns(f) =>
          /\ exec[f].pc = "claimed" => failures[f] = 0
          /\ Working(f) => failures[exec[f].memory.born] = 0
    BY DEF GraphInv, FreshInv
  <2> QED BY <1>1, <1>2, <2>1, <2>2 DEF FreshInv, Working, Owns
<1> QED BY <1>3, <1>4, <1>5, <1>6 DEF GraphInv

\* An attempt that has begun is no longer there afterwards; the others are as before.
LEMMA GoneKeeps ==
  ASSUME GraphInv, NEW e \in Attempts, exec[e].pc # "none", exec' = [exec EXCEPT ![e] = Gone],
         run'.attempt = run.attempt
  PROVE  /\ PlaceInv' /\ exec' \in [Attempts -> Execution]
         /\ exec'[e].pc = "over" /\ \A f \in Attempts \ {e} : exec'[f] = exec[f]
<1>1. /\ exec' \in [Attempts -> Execution] /\ exec'[e] = Gone
      /\ \A f \in Attempts \ {e} : exec'[f] = exec[f]
  BY GraphTypes, GoneType
<1>2. Gone.pc = "over" /\ Gone.memory = None /\ Gone.begun = {}
  BY DEF Gone
<1>3. ~(e > run.attempt)
  BY DEF GraphInv, PlaceInv
<1>4. PlaceInv'
  BY <1>1, <1>2, <1>3 DEF GraphInv, PlaceInv, Working
<1> QED BY <1>1, <1>2, <1>4

\* An attempt ends without a word.
LEMMA LeavingKeeps ==
  ASSUME GraphInv, NEW e \in Attempts, exec[e].pc # "none", exec' = [exec EXCEPT ![e] = Gone],
         UNCHANGED <<run, basis, corpus, edition, saved, cache, failures>>, counter' \in Nat
  PROVE  GraphInv'
<1>1. /\ PlaceInv' /\ exec' \in [Attempts -> Execution]
      /\ exec'[e].pc = "over" /\ \A f \in Attempts \ {e} : exec'[f] = exec[f]
  BY GoneKeeps
<1>2. TypeOK'
  BY <1>1 DEF GraphInv, TypeOK
<1>3. SavedInv'
  BY <1>1 DEF GraphInv, SavedInv, Working, Owns
<1>4. FreshInv'
  BY <1>1 DEF GraphInv, FreshInv, Working, Owns
<1> QED BY <1>1, <1>2, <1>3, <1>4 DEF GraphInv

\* An attempt ends with an error: what it had begun has not been recorded as failed.
LEMMA DieKeeps ==
  ASSUME GraphInv, NEW e \in Attempts, exec[e].pc # "none", Owns(e) => Working(e),
         NEW retryable \in BOOLEAN, Die(e, retryable)
  PROVE  GraphInv'
<1>1. /\ exec' = [exec EXCEPT ![e] = Gone]
      /\ UNCHANGED <<basis, corpus, edition, saved, counter, cache, failures>>
      /\ \/ UNCHANGED run
         \/ Owns(e) /\ run' = [run EXCEPT !.status = "failed", !.retryable = retryable,
                                          !.retrievalFailed = FALSE]
  BY DEF Die
<1>2. CASE UNCHANGED run
  BY <1>1, <1>2, LeavingKeeps DEF GraphInv, TypeOK
<1>3. CASE Owns(e) /\ run' = [run EXCEPT !.status = "failed", !.retryable = retryable,
                                         !.retrievalFailed = FALSE]
  <2>1. run' \in Run /\ run'.attempt = run.attempt /\ run'.status = "failed"
    <3>1. run \in Run
      BY GraphTypes
    <3> QED BY <1>3, <3>1 DEF Run
  <2>2. /\ PlaceInv' /\ exec' \in [Attempts -> Execution]
        /\ exec'[e].pc = "over" /\ \A f \in Attempts \ {e} : exec'[f] = exec[f]
    BY <1>1, <2>1, GoneKeeps
  <2>3. TypeOK'
    BY <1>1, <2>1, <2>2 DEF GraphInv, TypeOK
  <2>4. SavedInv'
    BY <1>1, <2>1 DEF GraphInv, SavedInv, Owns
  <2>5. FreshInv'
    <3>1. saved # None => failures[saved.born] = 0
      BY <1>3 DEF GraphInv, SavedInv, FreshInv, Ahead
    <3> QED BY <1>1, <2>1, <3>1 DEF GraphInv, FreshInv, Owns
  <2> QED BY <2>2, <2>3, <2>4, <2>5 DEF GraphInv
<1> QED BY <1>1, <1>2, <1>3

\* A result is recorded of what is saved, for the first time for this start of the graph.
LEMMA CompleteKeeps ==
  ASSUME GraphInv, NEW e \in Attempts, Complete(e) PROVE GraphInv'
<1> DEFINE c == exec[e].memory
           failed == Mind(e).verdict = "failed"
<1>1. /\ Working(e) /\ Owns(e) /\ c.left = {} /\ saved = c /\ exec' = [exec EXCEPT ![e] = Gone]
      /\ UNCHANGED <<basis, corpus, edition, saved, counter, cache>>
      /\ failures' = [failures EXCEPT ![c.born] = IF failed THEN @ + 1 ELSE @]
      /\ \E status \in {"failed", "insufficient", "completed"} :
           run' = [run EXCEPT !.status = status, !.retryable = TRUE, !.retrievalFailed = failed]
  BY DEF Complete, Working
<1>2. c \in Checkpoint /\ c.born \in Attempts /\ c.born <= run.attempt /\ failures[c.born] = 0
  <2>1. c \in Checkpoint /\ c.born <= run.attempt /\ failures[c.born] = 0
    BY <1>1 DEF GraphInv, PlaceInv, FreshInv
  <2> QED BY <2>1 DEF Checkpoint
<1> HIDE DEF c
<1>3. /\ run' \in Run /\ run'.attempt = run.attempt /\ run'.status # "running"
      /\ run'.retrievalFailed = failed
  <2>1. run \in Run /\ failed \in BOOLEAN
    BY GraphTypes
  <2> HIDE DEF failed
  <2> QED BY <1>1, <2>1 DEF Run
<1>4. /\ failures' \in [Attempts -> Nat] /\ \A b \in Attempts \ {c.born} : failures'[b] = failures[b]
      /\ failures'[c.born] = IF failed THEN 1 ELSE 0
  <2>1. failures \in [Attempts -> Nat]
    BY GraphTypes
  <2> HIDE DEF failed
  <2> QED BY <1>1, <1>2, <2>1
<1>5. PlaceInv' /\ exec' \in [Attempts -> Execution]
  <2>1. exec[e].pc # "none"
    BY <1>1 DEF Working
  <2> QED BY <1>1, <1>3, <2>1, GoneKeeps
<1>6. TypeOK'
  BY <1>1, <1>3, <1>4, <1>5 DEF GraphInv, TypeOK
<1>7. SavedInv'
  BY <1>1, <1>3 DEF GraphInv, SavedInv, Owns
<1>8. FreshInv'
  <2>1. \A b \in Attempts : failures'[b] \in {0, 1} /\ (failures'[b] = 1 => b <= run.attempt)
    BY <1>2, <1>4 DEF GraphInv, FreshInv
  <2>2. saved' = c /\ (failures'[c.born] = 1 => failed)
    BY <1>1, <1>4
  <2> QED BY <1>1, <1>3, <2>1, <2>2 DEF FreshInv, Owns
<1> QED BY <1>5, <1>6, <1>7, <1>8 DEF GraphInv

\* The documents are none of the invariant's business.
LEMMA ChangeKeeps ==
  ASSUME GraphInv, Change PROVE GraphInv'
<1>1. /\ corpus < MaxEditions /\ corpus' = corpus + 1 /\ edition' \in {edition, corpus'}
      /\ UNCHANGED <<run, basis, saved, counter, cache, exec, failures>>
  BY DEF Change
<1>2. TypeOK'
  <2>1. corpus \in Editions /\ edition \in Editions
    BY DEF GraphInv, TypeOK
  <2>2. corpus' \in Editions /\ edition' \in Editions
    BY <1>1, <2>1, GraphConstants DEF Editions
  <2> QED BY <1>1, <2>2 DEF GraphInv, TypeOK
<1>3. PlaceInv'
  BY <1>1 DEF GraphInv, PlaceInv, Working
<1>4. SavedInv'
  BY <1>1 DEF GraphInv, SavedInv, Working, Owns
<1>5. FreshInv'
  BY <1>1 DEF GraphInv, FreshInv, Working, Owns
<1> QED BY <1>2, <1>3, <1>4, <1>5 DEF GraphInv

-----------------------------------------------------------------------------
(* The invariant.                                                          *)

LEMMA GraphBegins == Init => GraphInv
<1> SUFFICES ASSUME Init PROVE GraphInv
  OBVIOUS
<1> DEFINE idle == [Gone EXCEPT !.pc = "none"]
<1>1. idle \in Execution /\ idle.pc = "none" /\ idle.memory = None /\ idle.begun = {}
  BY DEF Gone, Execution, PC, Unasked
<1> HIDE DEF idle
<1>2. exec \in [Attempts -> Execution] /\ \A e \in Attempts : exec[e] = idle
  BY <1>1 DEF Init, idle
<1>3. run \in Run /\ run.attempt = 0 /\ run.status = "queued"
  <2>1. 0 \in 0..MaxAttempts
    BY GraphConstants
  <2>2. PICK p \in {"public", "internal"}, i \in BOOLEAN :
          run = [policy |-> p, images |-> i, attempt |-> 0, status |-> "queued",
                 retryable |-> TRUE, retrievalFailed |-> FALSE]
    BY DEF Init
  <2> QED BY <2>1, <2>2 DEF Run
<1>4. saved = None /\ failures \in [Attempts -> Nat] /\ \A b \in Attempts : failures[b] = 0
  BY DEF Init
<1>5. TypeOK
  <2>1. 0 \in Editions
    BY GraphConstants DEF Editions
  <2> QED BY <1>2, <1>3, <1>4, <2>1 DEF Init, TypeOK, Unasked
<1>6. PlaceInv
  BY <1>1, <1>2 DEF PlaceInv, Working
<1>7. SavedInv /\ FreshInv
  BY <1>3, <1>4 DEF SavedInv, FreshInv, Owns
<1> QED BY <1>5, <1>6, <1>7 DEF GraphInv

LEMMA GraphInductive == GraphInv /\ [Next]_graphVars => GraphInv'
<1> SUFFICES ASSUME GraphInv, [Next]_graphVars PROVE GraphInv'
  OBVIOUS
<1>1. ASSUME NEW e \in Attempts, Node(e) PROVE GraphInv'
  <2>1. CASE \E q \in Queries : SearchRefused(e, q)
    <3>1. exec[e].pc # "none" /\ exec' = [exec EXCEPT ![e] = Gone] /\ counter' = counter + 1
          /\ UNCHANGED <<run, basis, corpus, edition, saved, cache, failures>>
      BY <2>1 DEF SearchRefused, Runs
    <3>2. counter' \in Nat
      BY <3>1 DEF GraphInv, TypeOK
    <3> QED BY <3>1, <3>2, LeavingKeeps
  <2> QED BY <1>1, <2>1, OpeningNodes, RoundNodes, ClosingNodes, FinishKeeps, BusyKeeps DEF Node
<1>2. ASSUME NEW e \in Attempts, Refused(e) PROVE GraphInv'
  BY <1>2, DieKeeps DEF Refused, Working
<1>3. ASSUME NEW e \in Attempts, NodeFails(e) PROVE GraphInv'
  <2>1. Working(e)
    BY <1>3 DEF NodeFails, GraphInv, PlaceInv
  <2> QED BY <1>3, <2>1, DieKeeps DEF NodeFails, Working
<1>4. ASSUME NEW e \in Attempts, Crash(e) PROVE GraphInv'
  <2>1. exec[e].pc # "none" /\ exec' = [exec EXCEPT ![e] = Gone] /\ counter' \in Nat
        /\ UNCHANGED <<run, basis, corpus, edition, saved, cache, failures>>
    BY <1>4 DEF Crash, GraphInv, TypeOK
  <2> QED BY <2>1, LeavingKeeps
<1>5. ASSUME NEW e \in Attempts, Work(e) PROVE GraphInv'
  BY <1>1, <1>2, <1>5, LoadKeeps, BusyKeeps, SaveKeeps, CompleteKeeps DEF Work
<1>6. CASE UNCHANGED graphVars
  BY <1>6 DEF graphVars, GraphInv, TypeOK, PlaceInv, SavedInv, FreshInv, Working, Owns
<1> QED BY <1>3, <1>4, <1>5, <1>6, ClaimKeeps, ChangeKeeps DEF Next

\* The variables keep their types, the saved checkpoint lies behind its owner's memory and
\* no start that failed is worked on (Claim to Complete, core/checkpoints.py, execute_run).
THEOREM GraphSafe == Spec => []GraphInv
  BY GraphBegins, GraphInductive, PTL DEF Spec

\* The rounds never exceed max_reflection_rounds, nor the supersteps 5 + 4 for each of them
\* (planner, reflect, build): recursion_limit=80 is not reached with the settings admitted.
THEOREM RecursionStaysBounded == Spec => []StepsBounded
<1>1. GraphInv => StepsBounded
  <2> SUFFICES ASSUME GraphInv, NEW e \in Attempts, exec[e].memory # None
               PROVE  /\ Mind(e).round <= MaxRounds
                      /\ exec[e].memory.steps <= 5 + 4 * (Mind(e).round + 1)
    BY DEF StepsBounded
  <2> DEFINE c == exec[e].memory
  <2>1. c \in Checkpoint /\ Bounded(c) /\ Mind(e) = c.values
    BY DEF GraphInv, PlaceInv, Mind
  <2> HIDE DEF c
  <2>2. c.steps \in Nat /\ c.values.round \in Nat /\ c.left \subseteq Nodes
    BY <2>1 DEF Checkpoint, Values
  <2>3. CASE c.left = {}
    BY <2>1, <2>2, <2>3 DEF Bounded, c
  <2>4. ASSUME NEW n \in c.left PROVE c.steps <= 9 + 4 * c.values.round
    <3>1. Depth(n) \in 0..8
      BY <2>2, <2>4, Depths DEF Nodes
    <3>2. c.steps <= Depth(n) + 4 * c.values.round
      BY <2>1 DEF Bounded
    <3> QED BY <2>2, <3>1, <3>2
  <2>5. c.steps <= 9 + 4 * c.values.round /\ c.values.round <= MaxRounds
    BY <2>1, <2>3, <2>4 DEF Bounded
  <2> QED BY <2>1, <2>2, <2>5 DEF c
<1> QED BY <1>1, GraphSafe, PTL

\* At most one retrieval failure is recorded of each start of the graph: who resumes the run
\* gets a new search, whatever crashed in between (execute_run).
THEOREM ResumedRunsSearchAnew == Spec => []FailuresAreFresh
<1>1. GraphInv => FailuresAreFresh
  BY DEF GraphInv, FreshInv, FailuresAreFresh
<1> QED BY <1>1, GraphSafe, PTL

\* Nothing that is saved is replaced by an earlier checkpoint of the same start or by one of
\* an earlier start (FencedCheckpointer).
THEOREM SavedMovesForward == Spec => CheckpointsForward
<1> DEFINE Forward ==
      saved # None /\ saved' # None =>
        \/ saved'.born > saved.born
        \/ saved'.born = saved.born /\ saved'.steps > saved.steps
        \/ saved'.born = saved.born /\ saved'.steps = saved.steps /\ saved'.left \subseteq saved.left
<1>1. GraphInv /\ [Next]_graphVars => [Forward]_graphVars
  <2> SUFFICES ASSUME GraphInv, [Next]_graphVars PROVE Forward
    OBVIOUS
  <2>1. ASSUME NEW e \in Attempts, Save(e) PROVE Forward
    BY <2>1 DEF Save, GraphInv, SavedInv, Working, Ahead
  <2>2. CASE saved' = saved \/ saved' = None
    BY <2>2
  <2>3. ASSUME NEW e \in Attempts, Node(e) PROVE saved' = saved
    BY <2>3 DEF Node, Vision, Router, Chat, Planner, WebScout, LocalScout, Judge, Analyst, Reflect,
                Writer, Validator, Finish, Search, SearchRefused
  <2>4. ASSUME NEW e \in Attempts, ~Save(e), Work(e) PROVE saved' = saved \/ saved' = None
    BY <2>3, <2>4 DEF Work, Load, Begin, Complete, Refused, Die
  <2> QED BY <2>1, <2>2, <2>4 DEF Next, Claim, NodeFails, Die, Crash, Change, graphVars
<1> QED BY <1>1, GraphSafe, PTL DEF Spec, CheckpointsForward

=============================================================================
