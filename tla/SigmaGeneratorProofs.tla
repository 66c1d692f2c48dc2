------------------------ MODULE SigmaGeneratorProofs ------------------------
(* Proofs about SigmaGenerator for every set of chains, indicators, values  *)
(* and installed backends, and every number of rules.                      *)
EXTENDS SigmaGenerator, FiniteSetTheorems, SequenceTheorems, TLAPS

----------------------------------------------------------------------------
(* The inductive invariant.  What the files of the chain at hand hold      *)
(* depends on how far generate has come: before the rule file is written   *)
(* every file is older than the rule; then the rule file is of the rule,   *)
(* and the query files of the backends still to come are older.            *)

Queues ==
  {<<"splunk", "elastic", "sentinel">>, <<"elastic", "sentinel">>, <<"sentinel">>, <<>>}

Pending == {todo[i] : i \in DOMAIN todo}

\* What the query file of a backend is to hold in the end.
Current(b) ==
  IF compiled[b] \in {"query", "error"}
  THEN queries[chain.id][b] = [made |-> made, text |-> compiled[b]]
  ELSE queries[chain.id][b].made < made

Older(b) == queries[chain.id][b].made < made

Progress ==
  /\ todo \in Queues
  /\ pc # "idle" => Built
  /\ pc = "yaml" => \A id \in Ids : \A b \in Backends : queries[id][b].made < made
  /\ pc \in {"compile", "queries"} => yaml[chain.id] = made
  /\ pc = "compile" => \A b \in Backends : Older(b)
  /\ pc = "queries" =>
       \A b \in Backends : IF b \in Pending THEN Older(b) ELSE Current(b)

IInv == TypeOK /\ QueriesFollowRule /\ Progress /\ CleanRunIsCurrent

----------------------------------------------------------------------------
(* Lemmas *)

\* Taking the first backend off the queue leaves those that were behind it.
LEMMA QueueSteps ==
  ASSUME NEW q \in Queues, q # <<>>
  PROVE  /\ Head(q) \in Backends /\ Tail(q) \in Queues
         /\ {Tail(q)[i] : i \in DOMAIN Tail(q)} = {q[i] : i \in DOMAIN q} \ {Head(q)}
<1>1. CASE q = <<"splunk", "elastic", "sentinel">>
  BY <1>1 DEF Queues, Backends
<1>2. CASE q = <<"elastic", "sentinel">>
  BY <1>2 DEF Queues, Backends
<1>3. CASE q = <<"sentinel">>
  BY <1>3 DEF Queues, Backends
<1> QED
  BY <1>1, <1>2, <1>3 DEF Queues

\* All backends are in the queue that compile_rule leaves.
LEMMA FullQueue ==
  ASSUME NEW q, q = <<"splunk", "elastic", "sentinel">>
  PROVE  q \in Queues /\ q # <<>> /\ q \in Seq(Backends) /\ {q[i] : i \in DOMAIN q} = Backends
BY DEF Queues, Backends

\* A queue of backends is a sequence of backends; an empty one has none.
LEMMA QueueTypes ==
  ASSUME NEW q \in Queues
  PROVE  q \in Seq(Backends) /\ (q = <<>> => {q[i] : i \in DOMAIN q} = {})
<1>1. q = <<>> => {q[i] : i \in DOMAIN q} = {}
  OBVIOUS
<1>2. CASE q = <<"splunk", "elastic", "sentinel">>
  BY <1>2 DEF Backends
<1>3. CASE q = <<"elastic", "sentinel">>
  BY <1>3 DEF Backends
<1>4. CASE q = <<"sentinel">>
  BY <1>4 DEF Backends
<1>5. CASE q = <<>>
  BY <1>5 DEF Backends
<1> QED
  BY <1>1, <1>2, <1>3, <1>4, <1>5 DEF Queues

\* The chain at hand has an id.
LEMMA IdOfChain == chain \in Chains => chain.id \in Ids
BY DEF Ids

\* What converting may give is what a result may be.
LEMMA ConvertedTexts ==
  ASSUME NEW b PROVE Converted(b) \subseteq {"query", "none", "error", "missing"}
BY DEF Converted

----------------------------------------------------------------------------
(* Initial states and steps *)

LEMMA InitHolds == Init => IInv
<1> SUFFICES ASSUME Init PROVE IInv
  OBVIOUS
<1>1. chain \in Chains
  BY ChainsAssumption DEF Init
<1>2. made = 0 /\ ~ Built /\ 0 \in 0 .. MaxRules /\ 0 .. 0 = {0}
  BY BackendAssumption DEF Init, Built
<1>3. TypeOK
  BY <1>1, <1>2 DEF Init, TypeOK, Texts
<1>4. QueriesFollowRule
  BY DEF Init, QueriesFollowRule
<1>5. Progress
  BY DEF Init, Progress, Queues
<1>6. CleanRunIsCurrent
  BY <1>2 DEF CleanRunIsCurrent
<1> QED
  BY <1>3, <1>4, <1>5, <1>6 DEF IInv

\* A new rule: every file is older than it.
LEMMA BuildKeeps == IInv /\ Build => IInv'
<1> SUFFICES ASSUME IInv, Build PROVE IInv'
  OBVIOUS
<1>1. made \in Nat /\ made' = made + 1 /\ made' \in 0 .. MaxRules /\ 0 .. made \subseteq 0 .. made'
  BY BackendAssumption DEF IInv, TypeOK, Build
<1>2. todo = <<>> /\ todo' = <<>>
  BY DEF IInv, TypeOK, Build
<1>3. yaml' \in [Ids -> 0 .. made']
  BY <1>1 DEF IInv, TypeOK, Build, Files
<1>4. \A id \in Ids : \A b \in Backends :
        queries[id][b] \in [made : 0 .. made, text : Texts] /\ queries[id][b].made \in 0 .. made
  BY DEF IInv, TypeOK
<1>5. queries' \in [Ids -> [Backends -> [made : 0 .. made', text : Texts]]]
  <2>1. [made : 0 .. made, text : Texts] \subseteq [made : 0 .. made', text : Texts]
    BY <1>1
  <2>2. [Backends -> [made : 0 .. made, text : Texts]]
          \subseteq [Backends -> [made : 0 .. made', text : Texts]]
    BY <2>1
  <2> QED
    BY <2>2 DEF IInv, TypeOK, Build, Files
<1>6. TypeOK'
  BY <1>1, <1>2, <1>3, <1>5 DEF IInv, TypeOK, Build
<1>7. QueriesFollowRule'
  BY DEF IInv, QueriesFollowRule, Build, Files
<1>8. \A id \in Ids : \A b \in Backends : queries'[id][b].made < made'
  BY <1>1, <1>4 DEF Build, Files
<1>9. Progress' /\ CleanRunIsCurrent'
  BY <1>1, <1>2, <1>8 DEF Progress, CleanRunIsCurrent, Build, Built, Queues
<1> QED
  BY <1>6, <1>7, <1>9 DEF IInv

\* A rule file that gets a newer rule stays ahead of the query files.
LEMMA YamlMayGrow ==
  ASSUME IInv, pc = "yaml", yaml' \in {yaml, [yaml EXCEPT ![chain.id] = made]},
         UNCHANGED <<chain, made, compiled, todo, queries>>,
         pc' \in {"idle", "compile"}, clean' \in BOOLEAN
  PROVE  TypeOK' /\ QueriesFollowRule'
<1>1. chain.id \in Ids /\ made \in 0 .. made /\ todo = <<>>
  BY IdOfChain DEF IInv, TypeOK
<1>2. yaml' \in [Ids -> 0 .. made]
  BY <1>1 DEF IInv, TypeOK
<1>3. \A id \in Ids : yaml'[id] \in {yaml[id], made}
  BY <1>1 DEF IInv, TypeOK
<1>4. \A id \in Ids : \A b \in Backends :
        queries[id][b].made \in 0 .. made /\ queries[id][b].made <= yaml[id]
  BY DEF IInv, TypeOK, QueriesFollowRule
<1>5. QueriesFollowRule'
  BY <1>3, <1>4 DEF QueriesFollowRule
<1>6. TypeOK'
  BY <1>1, <1>2 DEF IInv, TypeOK
<1> QED
  BY <1>5, <1>6

LEMMA WriteYamlKeeps == IInv /\ WriteYaml => IInv'
<1> SUFFICES ASSUME IInv, WriteYaml PROVE IInv'
  OBVIOUS
<1>1. TypeOK' /\ QueriesFollowRule'
  BY YamlMayGrow DEF WriteYaml, IInv, TypeOK
<1>2. chain.id \in Ids /\ yaml'[chain.id] = made
  BY IdOfChain DEF IInv, TypeOK, WriteYaml
<1>3. \A b \in Backends : queries[chain.id][b].made < made
  BY <1>2 DEF IInv, Progress, WriteYaml
<1>4. Progress' /\ CleanRunIsCurrent'
  BY <1>2, <1>3 DEF IInv, Progress, CleanRunIsCurrent, WriteYaml, Built, Older
<1> QED
  BY <1>1, <1>4 DEF IInv

LEMMA WriteYamlFailsKeeps == IInv /\ WriteYamlFails => IInv'
<1> SUFFICES ASSUME IInv, WriteYamlFails PROVE IInv'
  OBVIOUS
<1>1. TypeOK' /\ QueriesFollowRule'
  BY YamlMayGrow DEF WriteYamlFails, IInv, TypeOK
<1>2. Progress' /\ CleanRunIsCurrent'
  BY DEF IInv, Progress, CleanRunIsCurrent, WriteYamlFails
<1> QED
  BY <1>1, <1>2 DEF IInv

LEMMA CompileKeeps == IInv /\ Compile => IInv'
<1> SUFFICES ASSUME IInv, Compile PROVE IInv'
  OBVIOUS
<1>1. compiled' \in [Backends -> {"query", "none", "error", "missing"}]
  <2>1. CASE compiled' = [b \in Backends |-> "error"]
    BY <2>1
  <2>2. CASE compiled' \in [Backends -> UNION {Converted(b) : b \in Backends}]
    <3>1. UNION {Converted(b) : b \in Backends} \subseteq {"query", "none", "error", "missing"}
      BY ConvertedTexts
    <3> QED
      BY <2>2, <3>1
  <2> QED
    BY <2>1, <2>2 DEF Compile
<1>2. todo' \in Queues /\ todo' # <<>> /\ todo' \in Seq(Backends)
        /\ {todo'[i] : i \in DOMAIN todo'} = Backends
  <2>1. PICK q : q = <<"splunk", "elastic", "sentinel">> /\ todo' = q
    BY DEF Compile
  <2>2. q \in Queues /\ q # <<>> /\ q \in Seq(Backends) /\ {q[i] : i \in DOMAIN q} = Backends
    BY <2>1, FullQueue
  <2>3. todo' = q
    BY <2>1
  <2> QED
    BY <2>2, <2>3
<1>3. TypeOK'
  BY <1>1, <1>2 DEF IInv, TypeOK, Compile, Files
<1>4. QueriesFollowRule'
  BY DEF IInv, QueriesFollowRule, Compile, Files
<1>5. Progress' /\ CleanRunIsCurrent'
  BY <1>2 DEF IInv, Progress, CleanRunIsCurrent, Pending, Compile, Files, Built, Older
<1> QED
  BY <1>3, <1>4, <1>5 DEF IInv

\* Writing a query file of the rule at hand, behind a rule file of that rule.
LEMMA QueryMayGrow ==
  ASSUME IInv, pc = "queries", NEW h \in Backends, NEW t \in Texts,
         queries' \in {queries, [queries EXCEPT ![chain.id][h] = [made |-> made, text |-> t]]},
         UNCHANGED <<chain, made, compiled, yaml>>,
         pc' \in {"queries", "idle"}, clean' \in BOOLEAN,
         todo' \in Queues, todo' # <<>> => pc' = "queries"
  PROVE  TypeOK' /\ QueriesFollowRule'
<1>1. chain.id \in Ids /\ made \in 0 .. made /\ yaml[chain.id] = made
  BY IdOfChain DEF IInv, TypeOK, Progress
<1>2. queries \in [Ids -> [Backends -> [made : 0 .. made, text : Texts]]]
  BY DEF IInv, TypeOK
<1> DEFINE file == [made |-> made, text |-> t]
           files == [queries[chain.id] EXCEPT ![h] = file]
<1>3. file \in [made : 0 .. made, text : Texts] /\ file.made = made
  BY <1>1
<1> HIDE DEF file
<1>4. /\ files \in [Backends -> [made : 0 .. made, text : Texts]]
      /\ \A b \in Backends : files[b] = IF b = h THEN file ELSE queries[chain.id][b]
  BY <1>1, <1>2, <1>3
<1>5. queries' \in {queries, [queries EXCEPT ![chain.id] = files]}
  BY DEF file
<1> HIDE DEF files
<1>6. /\ queries' \in [Ids -> [Backends -> [made : 0 .. made, text : Texts]]]
      /\ \A id \in Ids : queries'[id] = queries[id] \/ (id = chain.id /\ queries'[id] = files)
  BY <1>1, <1>2, <1>4, <1>5
<1>7. TypeOK'
  BY <1>6, QueueTypes DEF IInv, TypeOK
<1>8. \A id \in Ids : \A b \in Backends :
        \/ queries'[id][b] = queries[id][b]
        \/ id = chain.id /\ queries'[id][b].made = made
  BY <1>3, <1>4, <1>6
<1>9. QueriesFollowRule'
  <2> SUFFICES ASSUME NEW id \in Ids, NEW b \in Backends
               PROVE  queries'[id][b].made <= yaml[id]
    BY DEF QueriesFollowRule
  <2>1. queries[id][b].made <= yaml[id] /\ made \in Nat
    BY <1>1 DEF IInv, QueriesFollowRule
  <2> QED
    BY <1>1, <1>8, <2>1
<1> QED
  BY <1>7, <1>9

LEMMA WriteQueryKeeps == IInv /\ WriteQuery => IInv'
<1> SUFFICES ASSUME IInv, WriteQuery PROVE IInv'
  OBVIOUS
<1> DEFINE h == Head(todo)
<1>1. h \in Backends /\ todo' \in Queues /\ Pending' = Pending \ {h} /\ h \in Pending
  <2>1. todo \in Queues /\ todo # <<>> /\ todo' = Tail(todo)
    BY DEF IInv, Progress, WriteQuery
  <2>2. todo[1] = h /\ 1 \in DOMAIN todo
    BY <2>1 DEF Queues
  <2> QED
    BY <2>1, <2>2, QueueSteps DEF Pending
<1>2. chain.id \in Ids /\ compiled[h] \in {"query", "none", "error", "missing"}
  BY <1>1, IdOfChain DEF IInv, TypeOK
<1>3. pc = "queries" /\ pc' = pc /\ UNCHANGED <<chain, made, compiled, yaml, clean>>
  BY DEF WriteQuery
<1>4. queries' = IF compiled[h] \in {"query", "error"}
                 THEN [queries EXCEPT ![chain.id][h] = [made |-> made, text |-> compiled[h]]]
                 ELSE queries
  BY DEF WriteQuery, Written
<1>5. clean \in BOOLEAN /\ queries \in [Ids -> [Backends -> [made : 0 .. made, text : Texts]]]
  BY DEF IInv, TypeOK
<1> HIDE DEF h
<1>6. TypeOK' /\ QueriesFollowRule'
  <2>1. CASE compiled[h] \in {"query", "error"}
    BY <1>1, <1>3, <1>4, <1>5, <2>1, QueryMayGrow DEF Texts
  <2>2. CASE compiled[h] \notin {"query", "error"}
    <3>1. "none" \in Texts /\ queries' = queries
      BY <1>4, <2>2 DEF Texts
    <3> QED
      BY <1>1, <1>3, <1>5, <3>1, QueryMayGrow
  <2> QED
    BY <2>1, <2>2
<1>7. \A b \in Backends : b # h => queries'[chain.id][b] = queries[chain.id][b]
  BY <1>1, <1>2, <1>4, <1>5
<1>8. IF compiled[h] \in {"query", "error"}
      THEN queries'[chain.id][h] = [made |-> made, text |-> compiled[h]]
      ELSE queries'[chain.id][h] = queries[chain.id][h]
  BY <1>1, <1>2, <1>4, <1>5
<1>9. \A b \in Backends : IF b \in Pending THEN Older(b) ELSE Current(b)
  BY <1>3 DEF IInv, Progress
<1>10. \A b \in Backends : IF b \in Pending' THEN Older(b)' ELSE Current(b)'
  <2> SUFFICES ASSUME NEW b \in Backends
               PROVE  IF b \in Pending' THEN Older(b)' ELSE Current(b)'
    OBVIOUS
  <2>1. CASE b = h
    BY <1>1, <1>3, <1>8, <1>9, <2>1 DEF Older, Current
  <2>2. CASE b # h
    BY <1>1, <1>3, <1>7, <1>9, <2>2 DEF Older, Current
  <2> QED
    BY <2>1, <2>2
<1>11. Progress' /\ CleanRunIsCurrent'
  BY <1>1, <1>3, <1>10 DEF IInv, Progress, CleanRunIsCurrent, Built
<1> QED
  BY <1>6, <1>11 DEF IInv

LEMMA WriteQueryFailsKeeps == IInv /\ WriteQueryFails => IInv'
<1> SUFFICES ASSUME IInv, WriteQueryFails PROVE IInv'
  OBVIOUS
<1> DEFINE h == Head(todo)
<1>1. h \in Backends
  BY QueueSteps DEF IInv, Progress, WriteQueryFails
<1>2. "partial" \in Texts /\ todo' \in Queues /\ todo' = <<>>
  BY DEF Texts, Queues, WriteQueryFails
<1>3. queries' \in {queries, [queries EXCEPT ![chain.id][h] = [made |-> made, text |-> "partial"]]}
  BY DEF WriteQueryFails
<1>4. pc = "queries" /\ pc' = "idle" /\ clean' = FALSE /\ UNCHANGED <<chain, made, compiled, yaml>>
  BY DEF WriteQueryFails
<1> HIDE DEF h
<1>5. TypeOK' /\ QueriesFollowRule'
  BY <1>1, <1>2, <1>3, <1>4, QueryMayGrow
<1>6. Progress' /\ CleanRunIsCurrent'
  BY <1>2, <1>4 DEF Progress, CleanRunIsCurrent
<1> QED
  BY <1>5, <1>6 DEF IInv

\* With no backend left, every query file is what it is to be.
LEMMA ReturnKeeps == IInv /\ Return => IInv'
<1> SUFFICES ASSUME IInv, Return PROVE IInv'
  OBVIOUS
<1>1. Pending = {}
  BY QueueTypes DEF IInv, Progress, Return, Pending
<1>2. yaml[chain.id] = made /\ \A b \in Backends : Current(b)
  BY <1>1 DEF IInv, Progress, Return
<1>3. CleanRunIsCurrent'
  BY <1>2 DEF Return, Files, CleanRunIsCurrent, Current
<1>4. TypeOK' /\ QueriesFollowRule'
  BY DEF IInv, TypeOK, QueriesFollowRule, Return, Files
<1>5. Progress'
  BY DEF IInv, Progress, Return
<1> QED
  BY <1>3, <1>4, <1>5 DEF IInv

\* No step leaves the invariant.
LEMMA StepHolds == IInv /\ [Next]_vars => IInv'
<1> SUFFICES ASSUME IInv, [Next]_vars PROVE IInv'
  OBVIOUS
<1>1. CASE UNCHANGED vars
  BY <1>1 DEF vars, IInv, TypeOK, QueriesFollowRule, Progress, CleanRunIsCurrent, Pending,
              Older, Current, Built
<1> QED
  BY <1>1, BuildKeeps, WriteYamlKeeps, WriteYamlFailsKeeps, CompileKeeps, WriteQueryKeeps,
     WriteQueryFailsKeeps, ReturnKeeps DEF Next

LEMMA Invariance == Spec => []IInv
BY InitHolds, StepHolds, PTL DEF Spec

----------------------------------------------------------------------------
(* Theorems *)

\* The files and results of generate stay well formed, whatever backends are
\* installed and whichever write fails.
THEOREM GeneratorTypes == Spec => []TypeOK
<1>1. IInv => TypeOK
  BY DEF IInv
<1> QED
  BY <1>1, Invariance, PTL

\* generate writes the rule file first, so a query file beside it is never of
\* a newer rule, after any failure too.
THEOREM QueriesStayBehind == Spec => []QueriesFollowRule
<1>1. IInv => QueriesFollowRule
  BY DEF IInv
<1> QED
  BY <1>1, Invariance, PTL

\* When generate raised nothing, the files tell of the rule just built and of
\* what compile_rule made of it.
THEOREM CleanRunsAreCurrent == Spec => []CleanRunIsCurrent
<1>1. IInv => CleanRunIsCurrent
  BY DEF IInv
<1> QED
  BY <1>1, Invariance, PTL

\* A rule for events of one type fires on a record only if the engine accepts
\* the event for every step, as long as the rule takes the values of the chain
\* as the engine does: each value the engine tests is an entry of a selection.
THEOREM RulesFireOnSteps == Spec => []OneTypeRuleImpliesSteps
<1>1. OneTypeRuleImpliesSteps
  <2> SUFFICES ASSUME NEW i \in DOMAIN chain.steps, NEW log \in LogRecords, Fires(chain, log),
                      \A j \in DOMAIN chain.steps :
                        /\ chain.steps[j].event_type = LogSource(chain)
                        /\ \A x \in Detection(chain)[j] : x.value \notin Anchored \cup Reshaped
               PROVE  EngineAccepts(chain.steps[i], log)
    BY DEF OneTypeRuleImpliesSteps, FiresOnlyOnSteps
  <2> DEFINE step == chain.steps[i]
  <2>1. log.event_type = step.event_type
    BY DEF Fires
  <2>2. ASSUME NEW field \in DOMAIN step.conditions, field \in DOMAIN log.fields
        PROVE  <<step.conditions[field], log.fields[field]>> \in Within
    <3> DEFINE x == [field    |-> field,
                     modifier |-> IF Translates(step.event_type, field)
                                  THEN Modifier(step.conditions[field]) ELSE "unmapped",
                     value    |-> step.conditions[field]]
               match == <<x.value, log.fields[field]>>
    <3>1. x \in Detection(chain)[i]
      BY <2>2 DEF Detection, SelectionBlock
    <3>2. EntryMatches(x, log.fields) /\ x.value \notin Anchored \cup Reshaped
      BY <3>1 DEF Fires
    <3>3. x.modifier \in {"contains", "endswith"}
      BY <3>2 DEF EntryMatches, Modifier
    <3>4. match \in Contains \cup EndsWith
      BY <3>2, <3>3 DEF EntryMatches
    <3>5. match[1] \notin Reshaped
      BY <3>2
    <3>6. match \in Within
      BY <3>4, <3>5, TextAssumption
    <3> QED
      BY <3>6
  <2> QED
    BY <2>1, <2>2 DEF EngineAccepts
<1> QED
  BY <1>1, PTL

----------------------------------------------------------------------------
(* The score *)

\* A selection has finitely many entries.
LEMMA SelectionsAreFinite ==
  ASSUME NEW c \in Chains, NEW i \in DOMAIN c.steps
  PROVE  IsFiniteSet(Detection(c)[i])
<1> DEFINE conditions == c.steps[i].conditions
           entry == [field \in DOMAIN conditions |->
                      [field    |-> field,
                       modifier |-> IF Translates(c.steps[i].event_type, field)
                                    THEN Modifier(conditions[field]) ELSE "unmapped",
                       value    |-> conditions[field]]]
<1>1. IsFiniteSet(DOMAIN conditions)
  BY ChainsAssumption
<1>2. Detection(c)[i] = {entry[field] : field \in DOMAIN conditions}
  BY DEF Detection, SelectionBlock
<1> HIDE DEF entry
<1>3. entry \in Surjection(DOMAIN conditions, {entry[field] : field \in DOMAIN conditions})
  BY DEF Surjection, entry
<1>4. IsFiniteSet({entry[field] : field \in DOMAIN conditions})
  BY <1>1, <1>3, FS_Surjection
<1> QED
  BY <1>2, <1>4

\* An indicator occurs in finitely many entries.
LEMMA HitsAreFinite ==
  ASSUME NEW c \in Chains, NEW indicators, IsFiniteSet(indicators)
  PROVE  IsFiniteSet(Hits(c, indicators))
<1> DEFINE of(i) == {<<i, x>> : x \in Detection(c)[i]}
           entries == UNION {of(i) : i \in DOMAIN c.steps}
<1>1. \A i \in DOMAIN c.steps : IsFiniteSet(of(i))
  <2> SUFFICES ASSUME NEW i \in DOMAIN c.steps PROVE IsFiniteSet(of(i))
    OBVIOUS
  <2> DEFINE place == [x \in Detection(c)[i] |-> <<i, x>>]
  <2>1. place \in Surjection(Detection(c)[i], of(i))
    BY DEF Surjection
  <2> QED
    BY <2>1, SelectionsAreFinite, FS_Surjection
<1>2. IsFiniteSet({of(i) : i \in DOMAIN c.steps})
  <2> DEFINE block == [i \in DOMAIN c.steps |-> of(i)]
  <2>1. block \in Surjection(DOMAIN c.steps, {of(i) : i \in DOMAIN c.steps})
    BY DEF Surjection
  <2>2. Len(c.steps) \in Nat /\ DOMAIN c.steps = 1 .. Len(c.steps)
    BY ChainsAssumption
  <2>3. \A n \in Nat : IsFiniteSet(1 .. n)
    BY FS_Interval
  <2>4. IsFiniteSet(DOMAIN c.steps)
    BY <2>2, <2>3
  <2> QED
    BY <2>1, <2>4, FS_Surjection
<1>3. IsFiniteSet(entries)
  BY <1>1, <1>2, FS_UNION
<1>4. IsFiniteSet(entries \X indicators)
  BY <1>3, FS_Product
<1>5. Hits(c, indicators) \subseteq entries \X indicators
  BY DEF Hits
<1> QED
  BY <1>4, <1>5, FS_Subset

\* A negative score has a generic indicator in it: the steps after the first
\* and the specific indicators only add.
THEOREM LowMeansGeneric == Spec => []LowIsGeneric
<1>1. IInv => LowIsGeneric
  <2> SUFFICES ASSUME IInv, chain.steps # <<>>, Level(chain) = "low",
                      \A i \in DOMAIN chain.steps : \A x \in Detection(chain)[i] :
                        ~ \E generic \in Generic : <<generic, x.value>> \in Within
               PROVE  FALSE
    BY DEF LowIsGeneric
  <2>1. chain \in Chains
    BY DEF IInv, TypeOK
  <2>2. Len(chain.steps) \in Nat /\ Len(chain.steps) >= 1
    BY <2>1, ChainsAssumption
  <2>3. Hits(chain, Generic) = {}
    <3> SUFFICES ASSUME NEW hit \in Hits(chain, Generic) PROVE FALSE
      OBVIOUS
    <3>1. /\ <<hit[2], hit[1][2].value>> \in Within /\ hit[2] \in Generic
          /\ \E i \in DOMAIN chain.steps : \E x \in Detection(chain)[i] : hit[1] = <<i, x>>
      BY DEF Hits
    <3> QED
      BY <3>1
  <2>4. Cardinality(Hits(chain, Generic)) = 0
    BY <2>3, FS_EmptySet
  <2>5. Cardinality(Hits(chain, Specific)) \in Nat
    BY <2>1, HitsAreFinite, IndicatorAssumption, FS_CardinalityType
  <2>6. Score(chain) \in Int /\ Score(chain) >= 0
    BY <2>2, <2>4, <2>5 DEF Score
  <2> HIDE DEF Score
  <2>7. Level(chain) # "low"
    BY <2>6 DEF Level
  <2> QED
    BY <2>7
<1> QED
  BY <1>1, Invariance, PTL
=============================================================================
