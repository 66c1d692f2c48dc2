--------------------------- MODULE SigmaGenerator ---------------------------
(***************************************************************************)
(* The rule written for an alert: build_sigma_rule (rule_builder.py) with  *)
(* its score (confidence.py), compile_rule (compiler.py), and the files    *)
(* SigmaAutoGenerator.generate of agent/nulltracer_agent.py makes of them. *)
(*                                                                         *)
(* A condition value is opaque; constants say which text holds it.  What a *)
(* SIEM does with a rule is the usual reading of Sigma: a selection        *)
(* matches a log record if each of its entries does, and a record without  *)
(* the entry's field matches no entry.  Sigma and the engine read a value  *)
(* differently if it is anchored or reshaped.                              *)
(***************************************************************************)
EXTENDS Integers, Sequences, FiniteSets

CONSTANTS
  Chains,     \* chains a rule may be generated for: [id, steps]
  Specific,   \* HIGH_SPECIFICITY_INDICATORS
  Generic,    \* LOW_SPECIFICITY_INDICATORS
  Within,     \* pairs <<value or indicator, text>>: contained, case folded
  Contains,   \* pairs <<value, text>>: the text matches it with "contains"
  EndsWith,   \* pairs <<path-like value, text>>: the text ends with the path
  Exact,      \* pairs <<anchored value, text>>: the text is what it anchors
  Anchored,   \* values that begin with "^" and end with "$"
  PathLike,   \* values with a slash of either kind
  Reshaped,   \* values with a wildcard of Sigma, a double backslash, or a slash
              \* at the front that the rule does not keep
  LogRecords, \* [event_type, fields]: what may be logged of one event
  Installed,  \* the backends that can be imported
  MaxRules    \* bound of the model: rules generated

Backends == {"splunk", "elastic", "sentinel"}

\* Rules are generated for alerts, hence for chains that there are.
ASSUME ChainsAssumption ==
  /\ Chains # {}
  /\ \A c \in Chains :
       /\ c.steps \in Seq({c.steps[i] : i \in DOMAIN c.steps})
       /\ \A i \in DOMAIN c.steps : IsFiniteSet(DOMAIN c.steps[i].conditions)

ASSUME IndicatorAssumption == IsFiniteSet(Specific) /\ IsFiniteSet(Generic)

\* A text that contains a value with a backslash before it, or ends with it,
\* contains the value.
ASSUME TextAssumption ==
  \A match \in Contains \cup EndsWith : match[1] \in Reshaped \/ match \in Within

ASSUME BackendAssumption == Installed \subseteq Backends /\ MaxRules \in Nat

VARIABLES
  pc,       \* "idle", or what generate does next
  chain,    \* the chain generate was called for
  made,     \* rules built so far; the last one is number made
  compiled, \* what compile_rule has returned for each backend
  todo,     \* the backends whose result is still to be written
  yaml,     \* for each chain id the number of the rule in its .yml, or 0
  queries,  \* for each chain id and backend [made, text] of its .txt
  clean     \* history: the last call of generate raised nothing

vars == <<pc, chain, made, compiled, todo, yaml, queries, clean>>

Ids == {c.id : c \in Chains}

----------------------------------------------------------------------------
(* rule_builder.py *)

\* The fields with a Sigma name, per event type (field_mapping.py).  The
\* names differ within a type, so the field stands for its name.
FieldMaps ==
  [ProcessCreate |->
     {"image_path", "pid", "ppid", "parent_image", "command_line", "user", "logon_guid",
      "logon_id", "terminal_session_id", "integrity_level", "hashes", "current_directory",
      "imphash", "company", "description", "product", "file_version",
      "parent_command_line", "parent_user"},
   ImageLoad |->
     {"image_path", "pid", "image_loaded", "hashes", "signed", "signature", "signature_status"},
   RegistrySet |->
     {"image_path", "pid", "registry_key", "registry_value", "registry_op"}]

Translates(type, field) == type \in DOMAIN FieldMaps /\ field \in FieldMaps[type]

Modifier(value) ==
  IF value \in Anchored THEN "exact" ELSE IF value \in PathLike THEN "endswith" ELSE "contains"

\* An unmapped field becomes an entry too, whose key no log record has.
SelectionBlock(step) ==
  {[field    |-> field,
    modifier |-> IF Translates(step.event_type, field)
                 THEN Modifier(step.conditions[field]) ELSE "unmapped",
    value    |-> step.conditions[field]] : field \in DOMAIN step.conditions}

Detection(c) == [i \in DOMAIN c.steps |-> SelectionBlock(c.steps[i])]

\* The category is that of the first step.
LogSource(c) ==
  IF c.steps # <<>> /\ c.steps[1].event_type \in DOMAIN FieldMaps
  THEN c.steps[1].event_type ELSE "ProcessCreate"

----------------------------------------------------------------------------
(* confidence.py *)

\* An indicator counts once for each value it occurs in.
Hits(c, indicators) ==
  LET entries == UNION {{<<i, x>> : x \in Detection(c)[i]} : i \in DOMAIN c.steps}
  IN  {hit \in entries \X indicators : <<hit[2], hit[1][2].value>> \in Within}

Score(c) ==
  (Len(c.steps) - 1) * 2 + Cardinality(Hits(c, Specific)) - Cardinality(Hits(c, Generic))

\* Variant: a score has to exceed its threshold.
StrictLevel(c) ==
  CASE Score(c) > 4 -> "critical"
    [] Score(c) > 2 /\ Score(c) <= 4 -> "high"
    [] Score(c) > 0 /\ Score(c) <= 2 -> "medium"
    [] OTHER -> "low"

\* The level, and with it the annotation on false positives.
Level(c) ==
  CASE Score(c) >= 4 -> "critical"
    [] Score(c) >= 2 /\ Score(c) < 4 -> "high"
    [] Score(c) >= 0 /\ Score(c) < 2 -> "medium"
    [] OTHER -> "low"

----------------------------------------------------------------------------
(* The meaning of a rule *)

EntryMatches(x, fields) ==
  /\ x.modifier # "unmapped" /\ x.field \in DOMAIN fields
  /\ <<x.value, fields[x.field]>> \in
       CASE x.modifier = "contains" -> Contains
         [] x.modifier = "endswith" -> EndsWith
         [] x.modifier = "exact"    -> Exact

\* Variant: the selections are joined with "or".
FiresOnAny(c, log) ==
  /\ log.event_type = LogSource(c)
  /\ \E i \in DOMAIN c.steps : \A x \in Detection(c)[i] : EntryMatches(x, log.fields)

\* "selection_1 and selection_2 ...", each against the same record.
Fires(c, log) ==
  /\ c.steps # <<>> /\ log.event_type = LogSource(c)
  /\ \A i \in DOMAIN c.steps : \A x \in Detection(c)[i] : EntryMatches(x, log.fields)

----------------------------------------------------------------------------
(* generate *)

\* No rule is built before the first call: chain has no meaning until then.
Init ==
  /\ pc = "idle" /\ chain = (CHOOSE c \in Chains : TRUE) /\ made = 0
  /\ compiled = [b \in Backends |-> "none"] /\ todo = <<>>
  /\ yaml = [id \in Ids |-> 0]
  /\ queries = [id \in Ids |-> [b \in Backends |-> [made |-> 0, text |-> "none"]]]
  /\ clean = TRUE

Files == <<yaml, queries>>

Build ==
  /\ pc = "idle" /\ made < MaxRules
  /\ chain' \in Chains
  /\ made' = made + 1 /\ pc' = "yaml"
  /\ UNCHANGED <<compiled, todo, Files, clean>>

\* Variant: a rule file that exists is left alone.
WriteYamlOnce ==
  /\ pc = "yaml"
  /\ yaml' = [yaml EXCEPT ![chain.id] = IF @ = 0 THEN made ELSE @]
  /\ pc' = "compile"
  /\ UNCHANGED <<chain, made, compiled, todo, queries, clean>>

WriteYaml ==
  /\ pc = "yaml"
  /\ yaml' = [yaml EXCEPT ![chain.id] = made]
  /\ pc' = "compile"
  /\ UNCHANGED <<chain, made, compiled, todo, queries, clean>>

\* The file may have been opened, and so emptied, before the write failed.  The
\* OSError ends the agent; a later alert is one of another run of it.
WriteYamlFails ==
  /\ pc = "yaml"
  /\ yaml' \in {yaml, [yaml EXCEPT ![chain.id] = made]}
  /\ pc' = "idle" /\ clean' = FALSE
  /\ UNCHANGED <<chain, made, compiled, todo, queries>>

\* What one backend makes of a rule that parses: a query, the comment that it
\* gave none, the text of an error, or the comment that it is not installed.
Converted(b) == IF b \in Installed THEN {"query", "none", "error"} ELSE {"missing"}

\* Variant: only the backends that are installed have a result.
CompileInstalled ==
  /\ pc = "compile"
  /\ compiled' \in [Installed -> {"query", "none", "error"}]
  /\ todo' = <<"splunk", "elastic", "sentinel">> /\ pc' = "queries"
  /\ UNCHANGED <<chain, made, Files, clean>>

\* compile_rule: if pySigma cannot parse the rule, every backend has the error.
Compile ==
  /\ pc = "compile"
  /\ \/ compiled' = [b \in Backends |-> "error"]
     \/ compiled' \in [Backends -> UNION {Converted(b) : b \in Backends}]
          /\ \A b \in Backends : compiled'[b] \in Converted(b)
  /\ todo' = <<"splunk", "elastic", "sentinel">> /\ pc' = "queries"
  /\ UNCHANGED <<chain, made, Files, clean>>

\* Texts that begin with "#" are not written, errors are.
Written(text) == text \in {"query", "error"}

\* Variant: a query file that exists is left alone.
WriteQueryOnce ==
  /\ pc = "queries" /\ todo # <<>>
  /\ queries' = IF Written(compiled[Head(todo)]) /\ queries[chain.id][Head(todo)].made = 0
                THEN [queries EXCEPT ![chain.id][Head(todo)] =
                        [made |-> made, text |-> compiled[Head(todo)]]]
                ELSE queries
  /\ todo' = Tail(todo)
  /\ UNCHANGED <<pc, chain, made, compiled, yaml, clean>>

WriteQuery ==
  /\ pc = "queries" /\ todo # <<>>
  /\ queries' = IF Written(compiled[Head(todo)])
                THEN [queries EXCEPT ![chain.id][Head(todo)] =
                        [made |-> made, text |-> compiled[Head(todo)]]]
                ELSE queries
  /\ todo' = Tail(todo)
  /\ UNCHANGED <<pc, chain, made, compiled, yaml, clean>>

\* The except clause around the loop: the rest of the queries is not written.
WriteQueryFails ==
  /\ pc = "queries" /\ todo # <<>> /\ Written(compiled[Head(todo)])
  /\ queries' \in {queries, [queries EXCEPT ![chain.id][Head(todo)] =
                                  [made |-> made, text |-> "partial"]]}
  /\ pc' = "idle" /\ todo' = <<>> /\ clean' = FALSE
  /\ UNCHANGED <<chain, made, compiled, yaml>>

Return ==
  /\ pc = "queries" /\ todo = <<>>
  /\ pc' = "idle" /\ clean' = TRUE
  /\ UNCHANGED <<chain, made, compiled, todo, Files>>

Next ==
  \/ Build \/ WriteYaml \/ WriteYamlFails \/ Compile
  \/ WriteQuery \/ WriteQueryFails \/ Return

Spec == Init /\ [][Next]_vars

----------------------------------------------------------------------------
(* Properties *)

Texts == {"none", "query", "error", "partial"}

\* Every backend has a result, files are numbered by rules that were built,
\* and nothing is left to write outside the loop over the results.
TypeOK ==
  /\ pc \in {"idle", "yaml", "compile", "queries"} /\ chain \in Chains
  /\ made \in 0 .. MaxRules /\ clean \in BOOLEAN
  /\ compiled \in [Backends -> {"query", "none", "error", "missing"}]
  /\ todo # <<>> => pc = "queries" /\ todo \in Seq(Backends)
  /\ yaml \in [Ids -> 0 .. made]
  /\ queries \in [Ids -> [Backends -> [made : 0 .. made, text : Texts]]]

Built == made > 0

\* A query file is never of a newer rule than the rule file beside it, so
\* after any failure the rule file is the one to go by.
QueriesFollowRule ==
  \A id \in Ids : \A b \in Backends : queries[id][b].made <= yaml[id]

\* After a call of generate that raised nothing, the rule file is of the rule
\* just built, and the query files tell what compiling it gave: a file of this
\* rule holds the query, or the message of a backend that failed, and a file a
\* backend gave no text for is one of an earlier rule.
CleanRunIsCurrent ==
  Built /\ pc = "idle" /\ clean =>
    /\ yaml[chain.id] = made
    /\ \A b \in Backends :
         IF compiled[b] \in {"query", "error"}
         THEN queries[chain.id][b] = [made |-> made, text |-> compiled[b]]
         ELSE queries[chain.id][b].made < made

\* "High - single-step or generic match": a rule is annotated low only if its
\* chain has no steps or one of its values is a generic one.
LowIsGeneric ==
  Built /\ Level(chain) = "low" =>
    \/ chain.steps = <<>>
    \/ \E i \in DOMAIN chain.steps : \E x \in Detection(chain)[i] :
         \E generic \in Generic : <<generic, x.value>> \in Within

\* What the engine asks of an event for one step, lineage apart.
EngineAccepts(step, log) ==
  /\ log.event_type = step.event_type
  /\ \A field \in DOMAIN step.conditions \cap {"image_path", "command_line", "registry_key"} :
       field \in DOMAIN log.fields => <<step.conditions[field], log.fields[field]>> \in Within

FiresOnlyOnSteps ==
  \A log \in LogRecords : Fires(chain, log) =>
    \A i \in DOMAIN chain.steps : EngineAccepts(chain.steps[i], log)

\* "the rule fires only when ALL steps are observed": where the rule matches
\* a record, the engine accepts the event for every step of the chain.  It
\* holds for chains of one event type, since the rule has the log source of
\* the first step alone, and without values that the rule reads otherwise
\* than the engine, which takes all of them literally.
OneTypeRuleImpliesSteps ==
  /\ Built
  /\ \A i \in DOMAIN chain.steps :
       /\ chain.steps[i].event_type = LogSource(chain)
       /\ \A x \in Detection(chain)[i] : x.value \notin Anchored \cup Reshaped
  => FiresOnlyOnSteps

\* "Field has no Sigma mapping - skip": a record that matches the mapped
\* entries of a one-step rule matches the rule.
UnmappedIsSkipped ==
  Built /\ Len(chain.steps) = 1 =>
    \A log \in LogRecords :
      /\ log.event_type = LogSource(chain)
      /\ \A x \in Detection(chain)[1] : x.modifier = "unmapped" \/ EntryMatches(x, log.fields)
      => Fires(chain, log)
============================================================================
