------------------------------- MODULE Review -------------------------------
(***************************************************************************)
(* review.Find: the rules of the providers over a declaration's graph and,  *)
(* when it came from Terraform, its resources.                              *)
(*                                                                         *)
(* A resource is [address, type, attrs, refs, instances, unknown,           *)
(* variants]: attrs maps the paths that are known to values, refs those     *)
(* that are references to the set of addresses, and a path is a sequence    *)
(* of keys.  A value is a number, a text, which is the set of names it      *)
(* holds, a list, or what a block has under it.                             *)
(***************************************************************************)
EXTENDS Integers, Sequences, FiniteSets, FiniteSetsExt, SequencesExt

CONSTANT Absent  \* no value: not written, and no default

(***************************************************************************)
(* api.reviewResources: data sources are left out; an attribute written at  *)
(* the top of the block (written) of which nothing is known, and which is   *)
(* no reference, is unknown before apply.                                   *)
(***************************************************************************)
RefsUnder(refs, name) == \E p \in DOMAIN refs : Head(p) = name
UnknownOf(r) == {name \in r.written : ~ \E p \in DOMAIN r.attrs : Head(p) = name}
                  \cap {name \in r.written : ~ RefsUnder(r.refs, name)}
ReviewResources(evaluated) ==
  LET managed == SelectSeq(evaluated, LAMBDA r : r.mode # "data")
  IN  [i \in DOMAIN managed |->
         [address |-> managed[i].address, type |-> managed[i].type, attrs |-> managed[i].attrs,
          refs |-> managed[i].refs, instances |-> managed[i].instances,
          unknown |-> UnknownOf(managed[i]), variants |-> managed[i].variants]]

-----------------------------------------------------------------------------
OfType(rs, t) == SelectSeq(rs, LAMBDA r : r.type = t)
RefsAt(r, path) == UNION {r.refs[p] : p \in {q \in DOMAIN r.refs : IsPrefix(path, q)}}

Referrers(rs, addr, by) ==
  SelectSeq(OfType(rs, by.type), LAMBDA r : addr \in RefsAt(r, by.path))
Targets(rs, r, path) == SelectSeq(rs, LAMBDA x : x.address \in RefsAt(r, path))
ReferencedByAny(rs, addr, bys) == \E by \in bys : Referrers(rs, addr, by) # <<>>

InScope(rs, r, s) ==
  /\ \A t \in s.unlessAny : OfType(rs, t) = <<>>
  /\ s.only # {} => ReferencedByAny(rs, r.address, s.only)
  /\ ~ ReferencedByAny(rs, r.address, s.except)
  /\ \A v \in s.via : \E x \in Range(Targets(rs, r, v.path)) : x.type = v.type

\* lookup: a path to a block holds everything under it.
Held(attrs, path, below) ==
  CASE path \in DOMAIN attrs -> attrs[path]
    [] path \notin DOMAIN attrs /\ below # {} -> [under |-> {attrs[p] : p \in below}]
    [] OTHER -> Absent
Lookup(attrs, path) == Held(attrs, path, {p \in DOMAIN attrs : IsPrefix(path, p)})

(***************************************************************************)
(* value: what a path holds, whether it is written, and whether it is       *)
(* known.  A reference is written and not known.                            *)
(***************************************************************************)
NotHeld(references) == [v |-> Absent, written |-> references # {}, known |-> references = {}]
ValueRead(r, path, v) ==
  IF v # Absent THEN [v |-> v, written |-> TRUE, known |-> TRUE] ELSE NotHeld(RefsAt(r, path))
\* Mutant: an attribute that is not known yet is taken as not written.
ReadWritten(r, path) == ValueRead(r, path, Lookup(r.attrs, path))

Read(r, path) ==
  IF Head(path) \in r.unknown THEN [v |-> Absent, written |-> TRUE, known |-> FALSE]
  ELSE ValueRead(r, path, Lookup(r.attrs, path))

Is(v, kind) == v # Absent /\ DOMAIN v = {kind}
IsNumber(v) == Is(v, "num")
OrElse(read, default) == IF read.written THEN read.v ELSE default

\* When: a rule about a batch size, say, judges only where it is above the least.
Exceeds(read, v, least) == read.known /\ IsNumber(v) /\ v.num > least
Triggered(read, s) == Exceeds(read, OrElse(read, s.whenDefault), s.whenAbove)
When(r, s) == s.whenPath # <<>> => Triggered(Read(r, s.whenPath), s)

\* check: written, at least a number, one of some values, a list that holds
\* one, or equal; what is not a number passes a least.
Check(s, v, written) ==
  CASE s.check = "set" -> written
    [] s.check = "atLeast" -> v # Absent /\ (IsNumber(v) => v.num >= s.want.num)
    [] s.check = "oneOf" -> v \in s.want.any
    [] s.check = "contains" -> Is(v, "list") /\ s.want \in Range(v.list)
    [] s.check = "equals" -> v # Absent /\ v = s.want

Departure(rule, node, from) == [rule |-> rule.id, node |-> node, from |-> from]

Fails(s, read) == read.known /\ ~ Check(s, OrElse(read, s.default), read.written)
Departs(rs, res, s) ==
  /\ InScope(rs, res, s.scope) /\ ~ ReferencedByAny(rs, res.address, s.or)
  /\ When(res, s) /\ Fails(s, Read(res, s.path))
Setting(rs, r) ==
  {Departure(r, res.address, {}) :
     res \in {x \in Range(OfType(rs, r.setting.type)) : Departs(rs, x, r.setting)}}

(***************************************************************************)
(* companion: some By resource references the resource, or holds its name   *)
(* at the path, in its own settings or in those of one of its instances.    *)
(***************************************************************************)
TextOf(v) == IF Is(v, "text") THEN {v.text} ELSE {}
NameOf(res, c) == TextOf(IF c.nameAttr = <<>> THEN Absent ELSE Lookup(res.attrs, c.nameAttr))
Mentions(v, name) ==
  \/ Is(v, "text") /\ name \subseteq v.text
  \/ Is(v, "list") /\ \E x \in Range(v.list) : Is(x, "text") /\ name \subseteq x.text
  \/ Is(v, "under") /\ \E x \in v.under : Is(x, "text") /\ name \subseteq x.text
Named(rs, res, c) ==
  \/ ReferencedByAny(rs, res.address, c.by)
  \/ \E name \in NameOf(res, c), by \in c.by : \E x \in Range(OfType(rs, by.type)) :
       \E attrs \in {x.attrs} \cup x.variants : Mentions(Lookup(attrs, by.path), name)
Companion(rs, r) ==
  LET c == r.companion
  IN  {Departure(r, res.address, {}) :
         res \in {x \in Range(OfType(rs, c.type)) : InScope(rs, x, c.scope) /\ ~ Named(rs, x, c)}}

\* ratio: over every pair of resources a link joins, left at least min times right.
NumberRead(read, v) == IF read.known /\ IsNumber(v) THEN v.num ELSE Absent
WithDefault(read, default) == NumberRead(read, OrElse(read, [num |-> default]))
EndValue(r, e) == WithDefault(Read(r, e.attr), e.default)
Falls(l, r, min) == l # Absent /\ r # Absent /\ l < min * r
OverPairs(r, link, lefts, rights) ==
  {Departure(r, link.address, {left.address, right.address}) :
     <<left, right>> \in {p \in lefts \X rights :
                          Falls(EndValue(p[1], r.ratio.left), EndValue(p[2], r.ratio.right), r.ratio.min)}}
Ratio(rs, r) ==
  LET q == r.ratio
  IN  UNION {OverPairs(r, link, Range(Targets(rs, link, q.left.ref)), Range(Targets(rs, link, q.right.ref))) :
               link \in {l \in Range(OfType(rs, q.type)) : InScope(rs, l, q.scope)}}

\* shared: more users than the resource has instances; an unknown count is one.
AtLeastOne(n) == Max({1, n})
UsersOf(res, users) == [res |-> res, users |-> users, n |-> FoldLeft(LAMBDA n, u : n + AtLeastOne(u.instances), 0, users)]
Shared(rs, r) ==
  {Departure(r, x.res.address, {u.address : u \in Range(x.users)}) :
     x \in {y \in {UsersOf(res, Referrers(rs, res.address, r.shared.by)) : res \in Range(OfType(rs, r.shared.type))} :
              y.n > AtLeastOne(y.res.instances)}}

\* fanIn: the nodes of one type that feed a node, each once, by their instances.
Feeds(spec, id, from) ==
  {e.from : e \in {x \in Range(spec.edges) : x.to = id}} \cap {n.id : n \in {m \in Range(spec.nodes) : m.type = from}}
InstancesOf(spec, ids) ==
  MapThenSumSet(LAMBDA f : AtLeastOne((CHOOSE n \in Range(spec.nodes) : n.id = f).instances), ids)
FanIn(spec, r) ==
  {Departure(r, n.id, Feeds(spec, n.id, r.fanIn.from)) :
     n \in {m \in Range(spec.nodes) : m.type = r.fanIn.node /\ InstancesOf(spec, Feeds(spec, m.id, r.fanIn.from)) > r.fanIn.max}}

Apply(spec, rs, r) ==
  CASE r.shape = "fanIn" -> FanIn(spec, r) [] r.shape = "setting" -> Setting(rs, r)
    [] r.shape = "companion" -> Companion(rs, r) [] r.shape = "ratio" -> Ratio(rs, r)
    [] r.shape = "shared" -> Shared(rs, r)

\* Find: every rule.  The list is sorted by node and rule; a set here.
Departures(spec, rs, rules) == UNION {Apply(spec, rs, r) : r \in rules}

-----------------------------------------------------------------------------
(***************************************************************************)
(* provider/aws/review.go and flow.go: the practices review reads a         *)
(* configuration against, and the types flow reads.  Types and keys lose    *)
(* their aws_ prefix; what a rule says to people is left out.               *)
(***************************************************************************)
AwsQueues == {"sqs_queue"}
AwsConsumers == [lambda_function |->
  [caps |-> <<"event_source_max_concurrency", "reserved_concurrent_executions">>, duration |-> "durationMs"]]
AwsLimited ==
  {"rds_cluster", "db_instance", "db_proxy", "docdb_cluster", "neptune_cluster", "redshift_cluster",
   "elasticache_cluster", "elasticache_replication_group", "memorydb_cluster", "mq_broker"}

ByOf(type, path) == [type |-> type, path |-> path]
Everywhere == [only |-> {}, except |-> {}, via |-> {}, unlessAny |-> {}]
SqsESM == [Everywhere EXCEPT !.via = {ByOf("sqs_queue", <<"event_source_arn">>)}]

\* deadLetter: the references that make a queue a place failures land.
DeadLetter ==
  {ByOf("sqs_queue", <<"redrive_policy">>), ByOf("sqs_queue_redrive_policy", <<"redrive_policy">>),
   ByOf("lambda_function_event_invoke_config", <<"destination_config", "on_failure">>),
   ByOf("lambda_event_source_mapping", <<"destination_config", "on_failure">>)}

\* The setting of a type and path, every field at its default.
On(type, path) ==
  [type |-> type, path |-> path, scope |-> Everywhere, or |-> {}, default |-> Absent,
   whenPath |-> <<>>, whenAbove |-> 0, whenDefault |-> Absent, check |-> "set", want |-> Absent]
IsOn(type, path) == [On(type, path) EXCEPT !.check = "equals", !.want = [flag |-> TRUE], !.default = [flag |-> FALSE]]
SettingRule(id, s) == [id |-> id, shape |-> "setting", setting |-> s]
CompanionRule(id, type, scope, by, nameAttr) ==
  [id |-> id, shape |-> "companion",
   companion |-> [type |-> type, scope |-> scope, by |-> by, nameAttr |-> nameAttr]]

EventRules ==
  {[id |-> "lambda.one-queue-per-consumer", shape |-> "fanIn",
    fanIn |-> [node |-> "lambda_function", from |-> "sqs_queue", max |-> 1]],
   SettingRule("sqs.dead-letter-queue",
     [On("sqs_queue", <<"redrive_policy">>) EXCEPT !.scope.except = DeadLetter,
        !.or = {ByOf("sqs_queue_redrive_policy", <<"queue_url">>)}]),
   CompanionRule("sqs.dead-letter-alarm", "sqs_queue", [Everywhere EXCEPT !.only = DeadLetter],
     {ByOf("cloudwatch_metric_alarm", <<"dimensions">>)}, <<"name">>),
   [id |-> "sqs.visibility-timeout", shape |-> "ratio",
    ratio |-> [type |-> "lambda_event_source_mapping", scope |-> SqsESM, min |-> 6,
       left |-> [ref |-> <<"event_source_arn">>, attr |-> <<"visibility_timeout_seconds">>, default |-> 30],
       right |-> [ref |-> <<"function_name">>, attr |-> <<"timeout">>, default |-> 3]]],
   SettingRule("lambda.sqs-partial-batch",
     [On("lambda_event_source_mapping", <<"function_response_types">>) EXCEPT !.scope = SqsESM,
        !.check = "contains", !.want = [text |-> {"ReportBatchItemFailures"}],
        !.whenPath = <<"batch_size">>, !.whenAbove = 1, !.whenDefault = [num |-> 10]]),
   SettingRule("lambda.sqs-maximum-concurrency",
     [On("lambda_event_source_mapping", <<"scaling_config", "maximum_concurrency">>) EXCEPT !.scope = SqsESM])}

OperationRules ==
  {CompanionRule("lambda.error-alarm", "lambda_function",
     [Everywhere EXCEPT !.except = {ByOf("lambda_event_source_mapping", <<"function_name">>),
                                    ByOf("sfn_state_machine", <<"definition">>),
                                    ByOf("lambda_function_event_invoke_config", <<"function_name">>)}],
     {ByOf("cloudwatch_metric_alarm", <<"dimensions">>)}, <<"function_name">>),
   CompanionRule("sfn.failure-alarm", "sfn_state_machine", Everywhere,
     {ByOf("cloudwatch_metric_alarm", <<"dimensions">>), ByOf("cloudwatch_event_rule", <<"event_pattern">>)},
     <<"name">>),
   SettingRule("sfn.logging", On("sfn_state_machine", <<"logging_configuration", "log_destination">>)),
   SettingRule("logs.retention", On("cloudwatch_log_group", <<"retention_in_days">>)),
   [id |-> "iam.role-per-function", shape |-> "shared",
    shared |-> [type |-> "iam_role", by |-> ByOf("lambda_function", <<"role">>)]]}

DataRules ==
  {SettingRule("kms.rotation", IsOn("kms_key", <<"enable_key_rotation">>)),
   SettingRule("rds.deletion-protection", IsOn("rds_cluster", <<"deletion_protection">>)),
   SettingRule("rds.backup-retention",
     [On("rds_cluster", <<"backup_retention_period">>) EXCEPT !.check = "atLeast", !.want = [num |-> 7],
        !.default = [num |-> 1]]),
   SettingRule("rds.storage-encrypted", IsOn("rds_cluster", <<"storage_encrypted">>)),
   SettingRule("dynamodb.point-in-time-recovery", IsOn("dynamodb_table", <<"point_in_time_recovery", "enabled">>)),
   CompanionRule("s3.public-access-block", "s3_bucket", Everywhere,
     {ByOf("s3_bucket_public_access_block", <<"bucket">>)}, <<"bucket">>),
   SettingRule("ecr.scan-on-push",
     [IsOn("ecr_repository", <<"image_scanning_configuration", "scan_on_push">>) EXCEPT
        !.scope.unlessAny = {"ecr_registry_scanning_configuration"}]),
   SettingRule("ecr.tag-immutability",
     [On("ecr_repository", <<"image_tag_mutability">>) EXCEPT !.check = "oneOf",
        !.want = [any |-> {[text |-> {"IMMUTABLE"}], [text |-> {"IMMUTABLE_WITH_EXCLUSION"}]}],
        !.default = [text |-> {"MUTABLE"}]]),
   CompanionRule("ecr.lifecycle", "ecr_repository", Everywhere,
     {ByOf("ecr_lifecycle_policy", <<"repository">>)}, <<"name">>)}

ReviewRules == EventRules \cup OperationRules \cup DataRules
=============================================================================
