----------------------------- MODULE ResearchGraph -----------------------------
(***************************************************************************)
(* The research graph of one run (research/graph.py), executed by one      *)
(* attempt after another over the saved checkpoint (core/checkpoints.py,   *)
(* execute_run of services/runtime.py).                                    *)
(*                                                                         *)
(* An attempt holds the graph's state in memory and stores the result of   *)
(* each node behind its back, so what it stored may lag.  An attempt whose *)
(* run another worker has claimed keeps going until a check stops it.  Of  *)
(* the state the model keeps what decides the way through the graph and    *)
(* the outcome; texts, claims and single sources are left out.             *)
(***************************************************************************)
EXTENDS Integers, FiniteSets

CONSTANTS
  Queries,
  MaxRounds,        \* max_reflection_rounds
  MaxSearches,      \* max_search_calls
  MaxAttempts,      \* bounds of the model: claims of the run
  MaxEditions,      \* and changes of the workspace's documents
  None

Nodes == {"vision", "router", "chat", "planner", "web_scout", "local_scout", "judge",
          "analyst", "reflect", "writer", "validator"}
Scouts == {"web_scout", "local_scout"}
Attempts == 1..MaxAttempts
Editions == 0..MaxEditions

\* Evidence: from the web, from the user's images, from the local source as retrieved.
Item == {<<"web", 0>>, <<"image", 0>>} \union ({"local"} \X Editions)
Attempted == {"ok", "empty", "error"}      \* the outcomes that writer looks at
Outcome == Attempted \union {"search_limit_reached", "policy_blocked"}
Verdict == {"answer", "failed", "insufficient", "verified"}

Values == [mode : {"chat", "quick", "deep", None}, round : Nat,
           queries : SUBSET Queries, searched : SUBSET Queries,
           web : SUBSET Item, local : SUBSET Item, attempted : SUBSET Attempted,
           image : BOOLEAN, evidence : SUBSET Item, claims : BOOLEAN, gaps : BOOLEAN,
           reflect : BOOLEAN, draft : BOOLEAN, verdict : Verdict \union {None}]

\* A checkpoint with the results stored for its superstep: the nodes left to do, the
\* supersteps done, and the attempt that began the graph.
Checkpoint == [born : Attempts, steps : Nat, left : SUBSET Nodes, values : Values]

PC == {"none", "claimed", "working", "over"}
Execution == [pc : PC, memory : Checkpoint \union {None}, begun : SUBSET Nodes,
              answered : [Queries -> Outcome \union {None}]]

ASSUME GraphAssumption ==
  /\ IsFiniteSet(Queries) /\ Queries # {}
  /\ MaxRounds \in Nat /\ MaxSearches \in Nat /\ MaxEditions \in Nat
  /\ MaxAttempts \in Nat \ {0}
  /\ None \notin Verdict /\ None \notin Outcome /\ None \notin Checkpoint
  /\ None \notin {"chat", "quick", "deep"}

VARIABLES
  run,      \* columns of runs: status, attempt_count, error_info and validation
  basis,    \* run_artifacts.corpus_revision of the run, or None
  corpus,   \* the workspace's corpus revision
  edition,  \* the revision at which the local source took its present form
  saved,    \* the saved checkpoint, or None
  counter,  \* counters.search_calls
  cache,    \* search_cache: the queries that have a stored result, and which
  exec,     \* the attempts
  failures  \* history: retrieval failures recorded of each start of the graph

graphVars == <<run, basis, corpus, edition, saved, counter, cache, exec, failures>>

Run == [policy : {"public", "internal"}, images : BOOLEAN, attempt : 0..MaxAttempts,
        status : {"queued", "running", "failed", "insufficient", "completed"},
        retryable : BOOLEAN, retrievalFailed : BOOLEAN]

TypeOK ==
  /\ run \in Run
  /\ basis \in Editions \union {None}
  /\ corpus \in Editions /\ edition \in Editions
  /\ saved \in Checkpoint \union {None}
  /\ counter \in Nat
  /\ cache \in [Queries -> {"ok", "empty", None}]
  /\ exec \in [Attempts -> Execution]
  /\ failures \in [Attempts -> Nat]

Blank == [mode |-> None, round |-> 0, queries |-> {}, searched |-> {}, web |-> {}, local |-> {},
          attempted |-> {}, image |-> FALSE, evidence |-> {},
          claims |-> FALSE, gaps |-> FALSE, reflect |-> FALSE, draft |-> FALSE, verdict |-> None]
Unasked == [q \in Queries |-> None]
Gone == [pc |-> "over", memory |-> None, begun |-> {}, answered |-> Unasked]

Init ==
  /\ run \in {[policy |-> p, images |-> i, attempt |-> 0, status |-> "queued",
               retryable |-> TRUE, retrievalFailed |-> FALSE] :
                p \in {"public", "internal"}, i \in BOOLEAN}
  /\ basis = None /\ corpus = 0 /\ edition = 0
  /\ saved = None /\ counter = 0 /\ cache = Unasked
  /\ exec = [e \in Attempts |-> [Gone EXCEPT !.pc = "none"]]
  /\ failures = [e \in Attempts |-> 0]

-----------------------------------------------------------------------------
\* The edges of the graph.
First == IF run.images THEN {"vision"} ELSE {"router"}

After(n, v) ==
  CASE n = "vision" -> {"router"}
    [] n = "router" -> IF v.verdict # None THEN {} ELSE IF v.mode = "chat" THEN {"chat"} ELSE {"planner"}
    [] n = "planner" -> Scouts
    [] n \in Scouts -> {"judge"}
    [] n = "judge" -> {"analyst"}
    [] n = "analyst" -> {"reflect"}
    [] n = "reflect" -> IF v.reflect THEN Scouts ELSE {"writer"}
    [] n = "writer" -> {"validator"}
    [] n \in {"chat", "validator"} -> {}

Owns(e) == run.status = "running" /\ run.attempt = e
Mind(e) == exec[e].memory.values

\* validate_sources: what was read of local sources is still what they say.
Current(items) == \A i \in items : i[1] = "local" => i[2] = edition

-----------------------------------------------------------------------------
\* A worker claims the run: a new or requeued one, one whose worker was lost (its
\* process may live on), or a failed one that its user resumes.
Claim(e) ==
  /\ e = run.attempt + 1
  /\ \/ run.status \in {"queued", "running"}
     \/ run.status = "failed" /\ run.retryable
  /\ run' = [run EXCEPT !.status = "running", !.attempt = e]
  /\ exec' = [exec EXCEPT ![e].pc = "claimed"]
  /\ UNCHANGED <<basis, corpus, edition, saved, counter, cache, failures>>

\* Mutant: a finished graph is taken for the result whatever came of it.
StartsOnlyOnce == saved = None

\* A graph that ended in a retrieval failure is started anew.
StartsAnew == saved # None => run.retrievalFailed /\ saved.left = {}

Load(e) ==
  /\ exec[e].pc = "claimed" /\ Owns(e)
  /\ basis' = IF basis = None THEN corpus ELSE basis
  /\ LET fresh == [born |-> e, steps |-> 0, left |-> First, values |-> Blank]
     IN exec' = [exec EXCEPT ![e].pc = "working",
                             ![e].memory = IF StartsAnew THEN fresh ELSE saved]
  /\ saved' = IF StartsAnew THEN None ELSE saved       \* adelete_thread
  /\ UNCHANGED <<run, corpus, edition, counter, cache, failures>>

\* The attempt ends with an error, which it records if it still has the run.
Die(e, retryable) ==
  /\ exec' = [exec EXCEPT ![e] = Gone]
  /\ \/ ~Owns(e) /\ UNCHANGED run
     \/ Owns(e) /\ run' = [run EXCEPT !.status = "failed", !.retryable = retryable,
                                      !.retrievalFailed = FALSE]
  /\ UNCHANGED <<basis, corpus, edition, saved, counter, cache, failures>>

-----------------------------------------------------------------------------
\* instrument: checks before a node and after it.
Begin(e, n) ==
  /\ exec[e].pc = "working" /\ n \in exec[e].memory.left \ exec[e].begun
  /\ Owns(e) /\ Current(Mind(e).evidence \union Mind(e).local)
  /\ exec' = [exec EXCEPT ![e].begun = @ \union {n}]
  /\ UNCHANGED <<run, basis, corpus, edition, saved, counter, cache, failures>>

\* The checkpoint after node n has returned v: a superstep ends with the last of its nodes.
Returned(c, n, v) ==
  LET rest == c.left \ {n} IN
  [c EXCEPT !.values = v,
            !.left = IF rest = {} THEN After(n, v) ELSE rest,
            !.steps = IF rest = {} THEN @ + 1 ELSE @]

Finish(e, n, v) ==
  /\ Owns(e)
  /\ exec' = [exec EXCEPT ![e].begun = @ \ {n}, ![e].answered = Unasked,
                          ![e].memory = Returned(@, n, v)]
  /\ UNCHANGED <<run, basis, corpus, edition, saved, counter, cache, failures>>

Runs(e, n) == exec[e].pc = "working" /\ n \in exec[e].begun

\* What the images show, if anything in them can be read.
Image(v) == IF v.image THEN {<<"image", 0>>} ELSE {}

Vision(e) ==
  /\ Runs(e, "vision")
  /\ \E readable \in BOOLEAN : Finish(e, "vision", [Mind(e) EXCEPT !.image = readable])

Router(e) ==
  /\ Runs(e, "router")
  /\ \/ \E mode \in {"chat", "quick", "deep"} : Finish(e, "router", [Mind(e) EXCEPT !.mode = mode])
     \/ Finish(e, "router", [Mind(e) EXCEPT !.mode = "chat", !.verdict = "answer"])   \* profile

Chat(e) ==
  LET v == Mind(e) IN
  /\ Runs(e, "chat")
  /\ Finish(e, "chat",
            [v EXCEPT !.evidence = Image(v),
                      !.verdict = IF run.images /\ ~v.image THEN "insufficient" ELSE "answer"])

Planner(e) ==
  /\ Runs(e, "planner")
  /\ \E queries \in SUBSET Queries :
       /\ queries # {} /\ Mind(e).mode = "quick" => Cardinality(queries) = 1
       /\ Finish(e, "planner", [Mind(e) EXCEPT !.queries = queries, !.searched = {}, !.round = 0,
                                               !.evidence = {}])

\* Providers.search for one query of the web scout.
Search(e, q) ==
  /\ Runs(e, "web_scout") /\ q \in Mind(e).queries /\ exec[e].answered[q] = None
  /\ \E outcome \in Outcome :
       /\ exec' = [exec EXCEPT ![e].answered[q] = outcome]
       /\ \/ /\ run.policy = "internal"
             /\ outcome = "policy_blocked" /\ UNCHANGED <<counter, cache>>
          \/ /\ run.policy = "public" /\ cache[q] # None
             /\ outcome = cache[q] /\ UNCHANGED <<counter, cache>>
          \/ /\ run.policy = "public" /\ cache[q] = None /\ counter >= MaxSearches
             /\ outcome = "search_limit_reached" /\ UNCHANGED <<counter, cache>>
          \/ /\ run.policy = "public" /\ cache[q] = None /\ counter < MaxSearches
             /\ Owns(e)                               \* or post refuses: see SearchRefused
             /\ outcome \in {"ok", "empty", "error"}
             /\ counter' = counter + 1
             /\ cache' = [cache EXCEPT ![q] = IF outcome = "error" THEN @ ELSE outcome]
  /\ UNCHANGED <<run, basis, corpus, edition, saved, failures>>

\* The search is counted before the request is refused for want of ownership.
SearchRefused(e, q) ==
  /\ Runs(e, "web_scout") /\ q \in Mind(e).queries /\ exec[e].answered[q] = None
  /\ run.policy = "public" /\ cache[q] = None /\ counter < MaxSearches /\ ~Owns(e)
  /\ counter' = counter + 1
  /\ exec' = [exec EXCEPT ![e] = Gone]
  /\ UNCHANGED <<run, basis, corpus, edition, saved, cache, failures>>

WebScout(e) ==
  LET outcomes == {exec[e].answered[q] : q \in Mind(e).queries} IN
  /\ Runs(e, "web_scout") /\ None \notin outcomes
  /\ \E web \in SUBSET {<<"web", 0>>} :
       /\ "ok" \notin outcomes => web = {}
       /\ Finish(e, "web_scout", [Mind(e) EXCEPT !.web = web, !.searched = @ \union Mind(e).queries,
                                                 !.attempted = @ \union (outcomes \intersect Attempted)])

LocalScout(e) ==
  /\ Runs(e, "local_scout")
  /\ \/ Finish(e, "local_scout", [Mind(e) EXCEPT !.local = {}])   \* public, or no document is ready
     \/ /\ run.policy = "internal"
        /\ \E outcome \in {"ok", "empty", "error"} :
             Finish(e, "local_scout",
                    [Mind(e) EXCEPT !.local = IF outcome = "ok" THEN {<<"local", edition>>} ELSE {},
                                    !.attempted = @ \union {outcome}])

Judge(e) ==
  LET v == Mind(e)
      candidates == v.evidence \union Image(v) \union v.web \union v.local IN
  /\ Runs(e, "judge")
  /\ \E accepted \in SUBSET candidates :
       /\ v.evidence # {} /\ candidates \subseteq v.evidence => accepted = candidates
       /\ Finish(e, "judge", [v EXCEPT !.evidence = accepted])

Analyst(e) ==
  /\ Runs(e, "analyst")
  /\ \E claims, gaps \in BOOLEAN :
       /\ Mind(e).evidence = {} => ~claims /\ gaps
       /\ Finish(e, "analyst", [Mind(e) EXCEPT !.claims = claims, !.gaps = gaps])

\* Mutant: whether there is anything new to search for is not looked at.
ReflectAnyway(e) ==
  /\ Runs(e, "reflect")
  /\ \E queries \in SUBSET (Queries \ Mind(e).searched), capacity \in BOOLEAN :
       LET v == Mind(e)
           goes == v.mode # "quick" /\ v.gaps /\ v.round < MaxRounds /\ capacity
           fresh == IF goes THEN queries ELSE {}
       IN Finish(e, "reflect", [v EXCEPT !.reflect = goes,
                                         !.queries = IF goes THEN queries ELSE @,
                                         !.round = @ + (IF fresh = {} THEN 0 ELSE 1)])

\* Another round needs a gap, room in the limits, somewhere to search and new queries.
Reflect(e) ==
  /\ Runs(e, "reflect")
  /\ \E queries \in SUBSET (Queries \ Mind(e).searched), hasLocal, searchOn \in BOOLEAN :
       LET v == Mind(e)
           capacity == (searchOn /\ counter < MaxSearches) \/ hasLocal
           asks == v.mode # "quick" /\ v.gaps /\ v.round < MaxRounds
           goes == asks /\ capacity /\ queries # {}
       IN Finish(e, "reflect",
                 [v EXCEPT !.reflect = goes,
                           !.queries = IF asks /\ capacity THEN queries ELSE @,
                           !.round = IF goes THEN @ + 1 ELSE @])

Writer(e) ==
  LET v == Mind(e)
      nothing == v.evidence = {} \/ ~v.claims
      failed == v.attempted = {"error"} /\ ~v.image IN
  /\ Runs(e, "writer")
  /\ Finish(e, "writer", [v EXCEPT !.draft = ~nothing,
                                   !.verdict = IF ~nothing THEN None
                                               ELSE IF failed THEN "failed" ELSE "insufficient"])

\* Of the evidence stays what the verified claims cite.
Validator(e) ==
  /\ Runs(e, "validator")
  /\ \/ ~Mind(e).draft /\ Finish(e, "validator", Mind(e))
     \/ /\ Mind(e).draft /\ Current(Mind(e).evidence)
        /\ \E used \in SUBSET Mind(e).evidence :
             Finish(e, "validator",
                    [Mind(e) EXCEPT !.evidence = used,
                                    !.verdict = IF used = {} THEN "insufficient" ELSE "verified"])

-----------------------------------------------------------------------------
\* Mutant: what an attempt writes is not fenced.
SaveAnyway(e) ==
  /\ exec[e].pc = "working" /\ saved # exec[e].memory
  /\ saved' = exec[e].memory
  /\ UNCHANGED <<run, basis, corpus, edition, counter, cache, exec, failures>>

\* FencedCheckpointer: a checkpoint, or the result of one of its nodes, is stored.
Save(e) ==
  /\ exec[e].pc = "working" /\ saved # exec[e].memory
  /\ Owns(e)
  /\ saved' = exec[e].memory
  /\ UNCHANGED <<run, basis, corpus, edition, counter, cache, exec, failures>>

\* The graph has ended and everything is stored; the result is recorded if its sources stand.
Publishable(e) ==
  /\ Current(Mind(e).evidence)
  /\ run.policy = "internal" => basis = corpus

Complete(e) ==
  /\ exec[e].pc = "working" /\ Owns(e)
  /\ exec[e].memory.left = {} /\ saved = exec[e].memory
  /\ Publishable(e)
  /\ LET failed == Mind(e).verdict = "failed" IN
     /\ run' = [run EXCEPT !.status = IF failed THEN "failed"
                                      ELSE IF Mind(e).verdict = "insufficient" THEN "insufficient"
                                      ELSE "completed",
                           !.retryable = TRUE, !.retrievalFailed = failed]
     /\ failures' = [failures EXCEPT ![exec[e].memory.born] = IF failed THEN @ + 1 ELSE @]
  /\ exec' = [exec EXCEPT ![e] = Gone]
  /\ UNCHANGED <<basis, corpus, edition, saved, counter, cache>>

\* A check refuses the attempt, or a source it has read has changed.
Refused(e) ==
  /\ exec[e].pc \in {"claimed", "working"}
  /\ \/ ~Owns(e) /\ Die(e, FALSE)
     \/ /\ exec[e].pc = "working"
        /\ \/ ~Current(Mind(e).evidence \union Mind(e).local)
           \/ exec[e].memory.left = {} /\ ~Publishable(e)
        /\ Die(e, FALSE)

\* A node raises: a service is down, a budget is used up, a permission is gone.
NodeFails(e) == exec[e].begun # {} /\ \E retryable \in BOOLEAN : Die(e, retryable)

\* The process stops; the run still has the status the database gives it.
Crash(e) ==
  /\ exec[e].pc \in {"claimed", "working"} /\ e < MaxAttempts
  /\ exec' = [exec EXCEPT ![e] = Gone]
  /\ UNCHANGED <<run, basis, corpus, edition, saved, counter, cache, failures>>

\* A document of the workspace changes, the local source or another.
Change ==
  /\ corpus < MaxEditions
  /\ corpus' = corpus + 1
  /\ edition' \in {edition, corpus'}
  /\ UNCHANGED <<run, basis, saved, counter, cache, exec, failures>>

Node(e) ==
  \/ Vision(e) \/ Router(e) \/ Chat(e) \/ Planner(e) \/ WebScout(e) \/ LocalScout(e) \/ Judge(e)
  \/ Analyst(e) \/ Reflect(e) \/ Writer(e) \/ Validator(e)
  \/ \E q \in Queries : Search(e, q) \/ SearchRefused(e, q)

Work(e) ==
  Load(e) \/ (\E n \in Nodes : Begin(e, n)) \/ Node(e) \/ Save(e) \/ Complete(e) \/ Refused(e)

Next ==
  \/ \E e \in Attempts : Claim(e) \/ Work(e) \/ NodeFails(e) \/ Crash(e)
  \/ Change

Spec == Init /\ [][Next]_graphVars

-----------------------------------------------------------------------------
(* Properties.                                                             *)

\* The saved checkpoint only moves forward: no attempt that lost the run, however late,
\* stores over what a later one has reached (FencedCheckpointer).
CheckpointsForward ==
  [][saved # None /\ saved' # None =>
       \/ saved'.born > saved.born
       \/ saved'.born = saved.born /\ saved'.steps > saved.steps
       \/ saved'.born = saved.born /\ saved'.steps = saved.steps /\ saved'.left \subseteq saved.left]_graphVars

\* A user who resumes a run that failed to retrieve anything gets a new search, never the
\* stored failure again (execute_run), crashes in between included.
FailuresAreFresh == \A e \in Attempts : failures[e] <= 1

\* Every return to the scouts is counted as a round and the rounds are limited, whatever
\* the model asks for, so that recursion_limit=80 is out of reach for each
\* max_reflection_rounds the settings admit (planner, reflect, build).
StepsBounded ==
  \A e \in Attempts : exec[e].memory # None =>
    /\ Mind(e).round <= MaxRounds
    /\ exec[e].memory.steps <= 5 + 4 * (Mind(e).round + 1)

=============================================================================
