--------------------------------- MODULE Funnel ---------------------------------
(***************************************************************************)
(* How a worker judges a batch: evaluate_batch in pipeline/pipeline.py with*)
(* the rule engine (rules/engine.py), the strategies under test            *)
(* (strategies/ab.py) and the toxicity model behind its guard              *)
(* (ml/classifier.py).                                                     *)
(*                                                                         *)
(* Several workers judge the traffic of the same streams, each with its    *)
(* own snapshot of the rules, its own list of strategies, read when it     *)
(* started, and its own model.  What Redis answers about a batch is left   *)
(* open here, and so is the moment a snapshot is renewed: Defenses,        *)
(* Reputation and RuleReload are about those.                              *)
(*                                                                         *)
(* A text is the set of phrases found in it and the number of its links;   *)
(* scores and thresholds are per cent, as in Policy.                       *)
(***************************************************************************)
EXTENDS Policy, FiniteSets, SequencesExt

CONSTANTS
  Workers,          \* worker processes
  Rules,            \* ids of the rows of table rules
  Row,              \* each row, but for the flag enabled
  Everywhere,       \* stream_id NULL: a rule for every stream
  RowOrders,        \* the orders in which MySQL may return the rows
  NoRule,           \* rule_id of a decision that no rule made
  EnabledAtStart,   \* the rules that are switched on at first
  Tables,           \* what table strategies may hold: sets of active rows
  TableAtStart,     \* what it holds at first
  DEFAULT,          \* ab.DEFAULT
  Streams,
  Hash,             \* md5 of a stream's id
  Messages,
  Stream, Author,   \* stream_id and user_id of each message
  Risk,             \* the risk score of each author
  Age,              \* account_age_days of its author, or NoAge
  NoAge,
  Says,             \* the phrases in its text, upper case or lower
  Links,            \* the number of links in its text
  Shape,            \* "shouting" and "capitals", or neither: how the text is typed
  INSULTS, SCAM,    \* the word lists of the lexicon
  Toxicity,         \* what Detoxify answers for its text
  BatchSize,        \* settings.batch_size
  MaxToggles,       \* bound: rules switched on or off
  MaxEdits          \* bound: changes of table strategies

RuleTypes == {"keyword", "regex", "link", "new_account", "frequency"}
Actions == {"allow", "delete", "shadow", "escalate"}
Reasons == {"duplicate", "rate_limit", "raid_mode", "rule_match", "ml_unavailable",
            "ml_toxic", "ml_uncertain", "clean"}

\* pattern is the set of phrases a rule looks for; threshold and pattern are 0 and {}
\* where the column is NULL.
IsRow(row) ==
  /\ row.type \in RuleTypes /\ row.action \in Actions
  /\ row.priority \in Int /\ row.threshold \in Nat
  /\ row.stream \in Streams \cup {Everywhere}

ASSUME ConstantsAssumption ==
  /\ IsFiniteSet(Rules) /\ IsFiniteSet(Messages)
  /\ DOMAIN Row = Rules /\ \A r \in Rules : IsRow(Row[r])
  /\ NoRule \notin Rules
  /\ RowOrders \subseteq SetToSeqs(Rules)
  /\ EnabledAtStart \subseteq Rules
  /\ TableAtStart \in Tables
  /\ \A rows \in Tables : IsFiniteSet(rows) /\ \A s \in rows : s.name \in Int
  /\ DEFAULT \in Seq(Range(DEFAULT)) /\ DEFAULT # <<>>
  /\ \A s \in Range(DEFAULT) : s.name \in Int
  /\ Hash \in [Streams -> Nat]
  /\ Stream \in [Messages -> Streams]
  /\ Age \in [Messages -> Nat \cup {NoAge}]
  /\ Links \in [Messages -> Nat] /\ Toxicity \in [Messages -> 0..100]
  /\ BatchSize \in Nat \ {0}
  /\ MaxToggles \in Nat /\ MaxEdits \in Nat

VARIABLES
  \* MySQL
  enabled,      \* the rules whose flag is set
  table,        \* the active rows of table strategies
  \* each worker
  stage,        \* down, idle, or judged (evaluate_batch has returned)
  engine,       \* rules of its snapshot: the list RuleEngine.rules
  strategies,   \* its list of strategies
  backend,      \* the model it has loaded
  healthy,      \* SafeClassifier.healthy
  work,         \* the batch evaluate_batch was called with, what Redis and the model
                \* said about it, and the verdicts it returned
  \* bounds
  toggles, edits

tables == <<enabled, table, toggles, edits>>
memory == <<strategies, backend>>
vars == <<tables, stage, engine, memory, healthy, work>>

-------------------------------------------------------------------------------
(* rules/engine.py                                                         *)

\* Those of a list that are in S, in the order of the list.
Only(list, S) ==
  LET I == {i \in DOMAIN list : list[i] \in S}
  IN  [k \in 1..Cardinality(I) |->
         list[CHOOSE i \in I : Cardinality({j \in I : j < i}) = k - 1]]

Before(rules, i, j) ==
  \/ Row[rules[i]].priority < Row[rules[j]].priority
  \/ Row[rules[i]].priority = Row[rules[j]].priority /\ i < j

\* Mistake: the rules as MySQL returns them.
Sorted_AsRead(rules) == rules

\* sorted(..., key=priority), which keeps the order of rules of the same priority.
Sorted(rules) ==
  [k \in DOMAIN rules |->
     rules[CHOOSE i \in DOMAIN rules :
             Cardinality({j \in DOMAIN rules : Before(rules, j, i)}) = k - 1]]

\* load_rules and RuleEngine.__init__
Snapshots == {Sorted(Only(rows, enabled)) : rows \in RowOrders}

InScope(r, s) == Row[r].stream \in {Everywhere, s}

RulesFor(rules, s) == Only(rules, {r \in Rules : InScope(r, s)})

Matches(r, m) ==
  \/ Row[r].type \in {"keyword", "regex"} /\ Row[r].pattern \cap Says[m] # {}
  \/ Row[r].type = "link" /\ Links[m] > Row[r].threshold
  \/ /\ Row[r].type = "new_account" /\ Age[m] # NoAge
     /\ Age[m] < Row[r].threshold /\ Links[m] > 0

\* evaluate: every rule the message trips, most important first.
Hits(rules, m) == Only(RulesFor(rules, Stream[m]), {r \in Rules : Matches(r, m)})

\* frequency_limit and _rate_settings: the first rule that sets a limit, or the default.
RateSettings(rules, s) ==
  LET limits == Only(RulesFor(rules, s),
                     {r \in Rules : Row[r].type = "frequency" /\ Row[r].threshold > 0})
  IN  IF limits = <<>> THEN [limit |-> 10, action |-> "shadow"]
                       ELSE [limit |-> Row[limits[1]].threshold,
                             action |-> Row[limits[1]].action]

-------------------------------------------------------------------------------
(* strategies/ab.py                                                        *)

\* Mistake: the rows as MySQL returns them.
ByName_AsRead(rows) == TRUE

ByName(rows) == \A i, j \in DOMAIN rows : i < j => rows[i].name < rows[j].name

ASSUME DefaultAssumption == ByName(DEFAULT)

\* Mistake: no fallback when no strategy is active.
FromRows_AsIs(rows) == {list \in SetToSeqs(rows) : ByName(list)}

\* from_rows
FromRows(rows) ==
  IF rows = {} THEN {DEFAULT} ELSE {list \in SetToSeqs(rows) : ByName(list)}

\* pick
Pick(s, list) == list[(Hash[s] % Len(list)) + 1]

-------------------------------------------------------------------------------
(* ml/classifier.py                                                        *)

\* LexiconClassifier._score
LexiconScore(m) ==
  AtMost(100, 55 * Cardinality(Says[m] \cap INSULTS) + 45 * Cardinality(Says[m] \cap SCAM)
                + 10 * Cardinality(Shape[m]))

Models == {"lexicon", "detoxify"}

Score(model, m) == IF model = "lexicon" THEN LexiconScore(m) ELSE Toxicity[m]

\* Mistake: no scores at all from a model that fails.
ScoreBatch_Empty(model, texts, answers) ==
  IF answers THEN [i \in DOMAIN texts |-> Score(model, texts[i])] ELSE <<>>

\* SafeClassifier.score_batch
ScoreBatch(model, texts, answers) ==
  [i \in DOMAIN texts |-> IF answers THEN Score(model, texts[i]) ELSE NoScore]

-------------------------------------------------------------------------------
(* pipeline/pipeline.py                                                    *)

Verdict(m, list, action, reason, rule) ==
  [msg |-> m, action |-> action, reason |-> reason, rule |-> rule,
   strategy |-> Pick(Stream[m], list).name]

\* raid.is_new_account
IsNewAccount(m) == Age[m] # NoAge /\ Age[m] < 7

\* The cheap checks leave a message to the model.
IsUnsettled(rules, m, a) ==
  /\ m \notin a.duplicate /\ m \notin a.over
  /\ ~(IsNewAccount(m) /\ Stream[m] \in a.raiding)
  /\ Hits(rules, m) = <<>>

\* Mistake: rules before the defences.
CheapChecks_RulesFirst(rules, list, m, a) ==
  CASE Hits(rules, m) # <<>> ->
         LET top == Hits(rules, m)[1]
         IN  Verdict(m, list, Row[top].action, "rule_match", top)
    [] m \in a.duplicate -> Verdict(m, list, "delete", "duplicate", NoRule)
    [] m \in a.over ->
         Verdict(m, list, RateSettings(rules, Stream[m]).action, "rate_limit", NoRule)
    [] OTHER -> Verdict(m, list, "shadow", "raid_mode", NoRule)

\* _cheap_checks, of a message that it settles.
CheapChecks(rules, list, m, a) ==
  IF m \in a.duplicate THEN Verdict(m, list, "delete", "duplicate", NoRule)
  ELSE IF m \in a.over
  THEN Verdict(m, list, RateSettings(rules, Stream[m]).action, "rate_limit", NoRule)
  ELSE IF IsNewAccount(m) /\ Stream[m] \in a.raiding
  THEN Verdict(m, list, "shadow", "raid_mode", NoRule)
  ELSE LET top == Hits(rules, m)[1]
       IN  Verdict(m, list, Row[top].action, "rule_match", top)

\* _from_score
ReasonFor(score, action) ==
  CASE score = NoScore -> "ml_unavailable"
    [] score # NoScore /\ action = "delete" -> "ml_toxic"
    [] score # NoScore /\ action = "escalate" -> "ml_uncertain"
    [] score # NoScore /\ action = "allow" -> "clean"

FromModel(list, m, score) ==
  LET action == FromScore(score, Pick(Stream[m], list), Risk[Author[m]])
  IN  Verdict(m, list, action, ReasonFor(score, action), NoRule)

\* evaluate_batch, given the snapshot, the strategies, the model and Redis' answers:
\* first the verdicts of the cheap checks, then those of the model, which zip pairs with
\* its scores.
Evaluate(rules, list, model, messages, a) ==
  LET unsettled == {m \in Messages : IsUnsettled(rules, m, a)}
      settled == Only(messages, Messages \ unsettled)
      needsModel == Only(messages, unsettled)
      scores == ScoreBatch(model, needsModel, a.modelAnswers)
  IN  [i \in DOMAIN settled |-> CheapChecks(rules, list, settled[i], a)]
        \o [i \in DOMAIN scores |-> FromModel(list, needsModel[i], scores[i])]

\* SafeClassifier.healthy after the batch: a model that has nothing to answer does not
\* fail.
ModelAnswers(rules, messages, a) ==
  a.modelAnswers \/ \A m \in Range(messages) : ~IsUnsettled(rules, m, a)

\* The batches that Kafka may hand over.
Batches == UNION {SetToSeqs(M) : M \in {M \in SUBSET Messages : Cardinality(M) \in 1..BatchSize}}

\* What Redis and the model may say about a batch.
Answers(model, messages) ==
  LET M == Range(messages) IN
  [duplicate : SUBSET M, over : SUBSET M, raiding : SUBSET {Stream[m] : m \in M},
   modelAnswers : IF model = "lexicon" THEN {TRUE} ELSE BOOLEAN]

-------------------------------------------------------------------------------
Nothing == [messages |-> <<>>, answer |-> <<>>, decided |-> <<>>]

Init ==
  /\ enabled = EnabledAtStart
  /\ table = TableAtStart
  /\ stage = [w \in Workers |-> "down"]
  /\ engine = [w \in Workers |-> <<>>]
  /\ strategies = [w \in Workers |-> DEFAULT]
  /\ backend = [w \in Workers |-> "lexicon"]
  /\ healthy = [w \in Workers |-> TRUE]
  /\ work = [w \in Workers |-> Nothing]
  /\ toggles = 0 /\ edits = 0

-------------------------------------------------------------------------------
\* build_worker.  load_classifier takes the word list when Detoxify does not load.
Start(w) ==
  /\ stage[w] = "down"
  /\ stage' = [stage EXCEPT ![w] = "idle"]
  /\ \E rules \in Snapshots : engine' = [engine EXCEPT ![w] = rules]
  /\ \E list \in FromRows(table) : strategies' = [strategies EXCEPT ![w] = list]
  /\ \E model \in Models : backend' = [backend EXCEPT ![w] = model]
  /\ healthy' = [healthy EXCEPT ![w] = TRUE]
  /\ UNCHANGED <<tables, work>>

\* evaluate_batch.  RuleStore.current may have renewed the snapshot first.
EvaluateBatch(w) ==
  /\ stage[w] = "idle"
  /\ \A v \in Workers : stage[v] # "judged"   \* bound: judging workers share nothing
  /\ \E rules \in {engine[w]} \cup Snapshots, messages \in Batches :
       \E a \in Answers(backend[w], messages) :
         /\ engine' = [engine EXCEPT ![w] = rules]
         /\ healthy' = [healthy EXCEPT ![w] = ModelAnswers(rules, messages, a)]
         /\ work' = [work EXCEPT
              ![w] = [messages |-> messages, answer |-> a,
                      decided |-> Evaluate(rules, strategies[w], backend[w], messages, a)]]
  /\ stage' = [stage EXCEPT ![w] = "judged"]
  /\ UNCHANGED <<tables, memory>>

\* handle_batch has the verdicts: what becomes of them is Delivery's subject.
HandOver(w) ==
  /\ stage[w] = "judged"
  /\ stage' = [stage EXCEPT ![w] = "idle"]
  /\ work' = [work EXCEPT ![w] = Nothing]
  /\ UNCHANGED <<tables, engine, memory, healthy>>

\* The process ends, in whatever way.
Stop(w) ==
  /\ stage[w] # "down"
  /\ stage' = [stage EXCEPT ![w] = "down"]
  /\ engine' = [engine EXCEPT ![w] = <<>>]
  /\ strategies' = [strategies EXCEPT ![w] = DEFAULT]
  /\ backend' = [backend EXCEPT ![w] = "lexicon"]
  /\ healthy' = [healthy EXCEPT ![w] = TRUE]
  /\ work' = [work EXCEPT ![w] = Nothing]
  /\ UNCHANGED tables

\* set_rule_enabled
SetRuleEnabled(r, flag) ==
  /\ toggles < MaxToggles
  /\ toggles' = toggles + 1
  /\ enabled' = IF flag THEN enabled \cup {r} ELSE enabled \ {r}
  /\ UNCHANGED <<table, edits, stage, engine, memory, healthy, work>>

\* Somebody changes table strategies, by hand: no program does.
EditStrategies ==
  /\ edits < MaxEdits
  /\ edits' = edits + 1
  /\ table' \in Tables
  /\ UNCHANGED <<enabled, toggles, stage, engine, memory, healthy, work>>

-------------------------------------------------------------------------------
Next ==
  \/ \E w \in Workers : Start(w) \/ EvaluateBatch(w) \/ HandOver(w) \/ Stop(w)
  \/ \E r \in Rules, flag \in BOOLEAN : SetRuleEnabled(r, flag)
  \/ EditStrategies

Spec == Init /\ [][Next]_vars

-------------------------------------------------------------------------------
(* Properties.                                                             *)

\* Every variable has its type; a list of strategies is never empty, so that pick()
\* always finds one, and a worker's rules are sorted.
TypeOK ==
  /\ enabled \subseteq Rules /\ table \in Tables
  /\ stage \in [Workers -> {"down", "idle", "judged"}]
  /\ \A w \in Workers :
       /\ Range(engine[w]) \subseteq Rules /\ IsInjective(engine[w])
       /\ strategies[w] # <<>>
       /\ backend[w] \in Models /\ healthy[w] \in BOOLEAN
       /\ \A v \in Range(work[w].decided) :
            /\ v.msg \in Messages /\ v.action \in Actions /\ v.reason \in Reasons
  /\ toggles \in Nat /\ edits \in Nat

\* The rules of a worker's snapshot that a message trips, in whatever order.
InForce(w, m) == {r \in Range(engine[w]) : InScope(r, Stream[m]) /\ Matches(r, m)}

NoTies(w) == \A r, s \in Range(engine[w]) : Row[r].priority = Row[s].priority => r = s

Knows(v, w) ==
  /\ stage[v] # "down"
  /\ Range(engine[v]) = Range(engine[w])
  /\ Range(strategies[v]) = Range(strategies[w])
  /\ backend[v] = backend[w]

\* It does not matter which worker gets a message: one that knows the same rules and
\* strategies, in whatever order it read them, would have come to the same verdicts
\* under the same strategy (ab.py "every worker has to agree on the answer").  Rules of
\* the same priority are another matter: nothing says which of them comes first.
WorkersAgree ==
  \A w, v \in Workers :
    stage[w] = "judged" /\ Knows(v, w) /\ NoTies(w) =>
      LET b == work[w] IN
        Evaluate(engine[v], strategies[v], backend[v], b.messages, b.answer) = b.decided

\* The most important rule decides, and the model only where no rule does: no rule in
\* scope that matches is more important than the one on record (engine.py "the first
\* match wins").
TopRuleDecides ==
  \A w \in Workers : \A v \in Range(work[w].decided) :
    /\ v.reason = "rule_match" =>
         /\ v.rule \in InForce(w, v.msg) /\ v.action = Row[v.rule].action
         /\ \A r \in InForce(w, v.msg) : Row[v.rule].priority <= Row[r].priority
    /\ v.reason \in {"ml_unavailable", "ml_toxic", "ml_uncertain", "clean"} =>
         InForce(w, v.msg) = {}

\* No message of a batch is left without a verdict or gets two, and when the model does
\* not answer, what the cheap checks do not settle is let through (classifier.py "no
\* score instead of dropping messages").
NothingFallsThrough ==
  \A w \in Workers :
    LET b == work[w] IN
      /\ Len(b.decided) = Len(b.messages)
      /\ {v.msg : v \in Range(b.decided)} = Range(b.messages)
      /\ stage[w] = "judged" /\ ~b.answer.modelAnswers =>
           \A v \in Range(b.decided) :
             \/ v.reason \in {"duplicate", "rate_limit", "raid_mode", "rule_match"}
             \/ v.reason = "ml_unavailable" /\ v.action = "allow"

\* A raid does not bury the moderators: no message of a new account on a raided stream is
\* escalated, whichever rules it trips and whatever its score, except by a limit that
\* says so (pipeline.py "new accounts are hidden rather than escalated").
RaidsAreHidden ==
  \A w \in Workers : \A v \in Range(work[w].decided) :
    /\ v.action = "escalate" /\ IsNewAccount(v.msg)
    /\ Stream[v.msg] \in work[w].answer.raiding
    => v.reason = "rate_limit"

\* The gauge of a model that does not answer stays at 0 until it has answered.  Not kept:
\* Detoxify is not asked when the cheap checks have settled a whole batch, and that
\* counts as an answer.
DeadModelShows ==
  [][\A w \in Workers :
       stage[w] = "idle" /\ stage'[w] = "judged" /\ ~healthy[w] /\ healthy'[w] =>
         \E v \in Range(work'[w].decided) : v.reason \in {"ml_toxic", "ml_uncertain", "clean"}]_vars

\* Every message is held to the limit of its own stream.  Not kept: Redis is asked under
\* the limit of the first message of the batch.
OwnLimit ==
  \A w \in Workers : \A m \in Range(work[w].messages) :
    RateSettings(engine[w], Stream[m]).limit
      = RateSettings(engine[w], Stream[work[w].messages[1]]).limit

\* All workers come to judge by the strategies in MySQL.  Not kept, under any fairness:
\* only a worker that starts reads them.
PoliciesSettle ==
  <>[](\A w \in Workers : stage[w] # "down" => Range(strategies[w]) = table)
===============================================================================
