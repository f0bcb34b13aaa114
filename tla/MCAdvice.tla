------------------------------ MODULE MCAdvice ------------------------------
(***************************************************************************)
(* Questions for Advice: every shape of traffic, a queue-driven design with *)
(* scenarios, designs with every kind of gap, Terraform resources whose     *)
(* attributes are known, referenced, unknown or absent, and bills that are  *)
(* more than the declaration, or less.                                      *)
(***************************************************************************)
EXTENDS Advice

CONSTANT Asks  \* the calls a run asks

-----------------------------------------------------------------------------
\* Traffic.
Plain == [rate |-> None, users |-> None, concurrent |-> None, schedule |-> None, batch |-> None,
          hours |-> <<>>, days |-> "", peakFactor |-> None, peakPerSecond |-> None]
Span(a, b) == [from |-> a, to |-> b]
Windows == {<<>>, <<Span(9, 18)>>, <<Span(22, 6)>>, <<Span(9, 12), Span(13, 18)>>, <<Span(0, 24)>>,
            <<Span(20, 26)>>, <<Span(0, 20), Span(10, 20)>>}
Days == {"", "all", "weekdays", "weekends", "holidays"}
Pers == {"second", "minute", "hour", "day", "week", "month", "year"}

Windowed(t) ==
  {[t EXCEPT !.hours = h, !.days = d, !.peakFactor = f, !.peakPerSecond = p] :
     h \in Windows, d \in Days, f \in {None, 0, 3}, p \in {None, 9}}
RateTraffic == UNION {Windowed([Plain EXCEPT !.rate = [count |-> c, per |-> p]]) : c \in {-1, 0, 12}, p \in Pers}
UsersTraffic == UNION {Windowed([Plain EXCEPT !.users = [people |-> u, actions |-> 2, per |-> p]]) :
                         u \in {-1, 3}, p \in {"hour", "day", "week", "month"}}
ConcurrentTraffic == UNION {Windowed([Plain EXCEPT !.concurrent = [working |-> u, every |-> e]]) :
                              u \in {-1, 4}, e \in {0, 2}}

P(form, a, b, step) == [form |-> form, a |-> a, b |-> b, step |-> step]
Star == Whole("star")
At(n) == <<P("value", n, 0, 0)>>
MinuteFields == {Star, At(0), <<P("star", 0, 0, 5)>>, <<P("range", 1, 7, 3)>>, <<P("value", 3, 0, 2)>>,
                 <<P("value", 1, 0, 0), P("value", 4, 0, 0)>>, <<P("range", 0, 2, 0)>>}
HourFields == {Star, At(9), <<P("range", 9, 17, 0)>>, <<P("star", 0, 0, 6)>>, <<P("range", 17, 9, 0)>>}
DateFields == {Star, Whole("ask"), At(1), <<P("word", 0, 0, 0)>>, <<P("star", 0, 0, 10)>>}
WeekdayFields == {Star, <<P("range", 2, 6, 0)>>, At(7)}
Crons == {[call |-> c, fields |-> <<m, h, d, Star, w>>] :
            c \in {"plain"}, m \in MinuteFields, h \in HourFields, d \in DateFields, w \in WeekdayFields}
EventBridge == {[call |-> "cron", fields |-> Append(x.fields, y)] : x \in Crons, y \in {Star}}
Seconds6 == {[call |-> "plain", fields |-> <<s>> \o x.fields] :
               s \in {Star, Whole("ask"), At(0), <<P("star", 0, 0, 2)>>},
               x \in {y \in Crons : y.fields[3] = Star /\ y.fields[5] = Star}}
Rates == {[call |-> "rate", n |-> n, unit |-> u] :
            n \in {0, 1, 5}, u \in {"minute", "minutes", "hours", "day", "weeks"}}
Expressions == Crons \cup EventBridge \cup Seconds6 \cup Rates
                 \cup {[call |-> "plain", fields |-> <<Star, Star>>], [call |-> "cron", fields |-> <<Star>>]}
ScheduleTraffic == {[Plain EXCEPT !.schedule = x, !.peakPerSecond = p, !.days = d] :
                      x \in Expressions, p \in {None}, d \in {""}}
                     \cup {[Plain EXCEPT !.schedule = x, !.peakPerSecond = 9, !.days = d] :
                             x \in Rates, d \in {"", "weekdays"}}
BatchTraffic == {[Plain EXCEPT !.batch = [items |-> i, every |-> x, within |-> w]] :
                   i \in {-1, 0, 7}, x \in Rates, w \in {0, 30}}
Muddled == {[p EXCEPT !.batch = [items |-> 1, every |-> x, within |-> 9]] :
              p \in {[Plain EXCEPT !.rate = [count |-> 1, per |-> "day"]]}, x \in Rates} \cup {Plain}

TrafficAsked ==
  {[call |-> "traffic", traffic |-> t] :
     t \in RateTraffic \cup UsersTraffic \cup ConcurrentTraffic \cup ScheduleTraffic
           \cup BatchTraffic \cup Muddled}

-----------------------------------------------------------------------------
\* Flow and Gaps: types, as AWS has them, and designs of them.
MCQueues == AwsQueues
MCConsumers == AwsConsumers
MCLimited == AwsLimited

Line(fixed, times, about) == [fixed |-> fixed, times |-> times, about |-> about]
Field(key, required, default, overrides) ==
  [key |-> key, required |-> required, default |-> default, number |-> TRUE, overrides |-> overrides]
Type(kinds, assumptions, lines) ==
  [kinds |-> kinds, assumptions |-> assumptions, lines |-> lines, sound |-> TRUE]
MCScouters ==
  [entry |-> Type({"unit"}, <<>>, <<>>),
   sqs_queue |-> Type({"send"}, <<>>, <<Line(0, 1, None)>>),
   lambda_function |-> Type({"invoke"}, <<Field("durationMs", TRUE, None, None),
                                          Field("timeoutS", FALSE, 3, "timeout")>>,
                            <<Line(0, 1, "durationMs"), Line(0, 1, "timeoutS")>>),
   db_proxy |-> Type({"query"}, <<>>, <<Line(7, 0, None)>>),
   metric_alarm |-> Type({"watch"}, <<>>, <<Line(7, 0, None)>>),
   unsound |-> [Type({"read"}, <<>>, <<Line(0, 1, None)>>) EXCEPT !.sound = FALSE]]

N(id, type) == [id |-> id, type |-> type, load |-> None, traffic |-> None, instances |-> 0,
                attributes |-> [none |-> 0], assumptions |-> [none |-> 0]]
E(from, to, perUnit) == [from |-> from, to |-> to, perUnit |-> perUnit, note |-> FALSE]
Spec0(nodes, edges) == [nodes |-> nodes, edges |-> edges, scenarios |-> <<>>]

Lambda(id, caps, ms, count) ==
  [N(id, "lambda_function") EXCEPT !.attributes = caps, !.assumptions = ms, !.instances = count]
Hourly == [Plain EXCEPT !.rate = [count |-> 12, per |-> "minute"]]
Refusable == [Plain EXCEPT !.rate = [count |-> 12, per |-> "year"]]

Situation(name, minutes, load) == [name |-> name, minutes |-> minutes, load |-> load]
Situations == {Situation("burst", 10, [users |-> <<40, 1>>]), Situation("night", 0, [users |-> <<0, 1>>]),
               Situation("backfill", 30, [jobs |-> <<9, 1>>]), Situation("lost", 1, [gone |-> <<1, 1>>])}

Driven ==  \* users -> orders -> work -> db, and a queue nobody reads
  {[Spec0(<<[N("users", "entry") EXCEPT !.load = l], [N("jobs", "sqs_queue") EXCEPT !.traffic = t],
            N("orders", "sqs_queue"), Lambda("work", c, m, k), Lambda("mail", [none |-> 0], [none |-> 0], 0),
            N("db", "db_proxy")>>,
          <<E("users", "orders", 2), E("orders", "work", None), E("work", "db", None)>> \o more)
     EXCEPT !.scenarios = sc] :
     l \in {<<4, 1>>}, t \in {None, Hourly, Refusable},
     c \in {[none |-> 0], [event_source_max_concurrency |-> 2],
            [event_source_max_concurrency |-> -1, reserved_concurrent_executions |-> 3]},
     m \in {[none |-> 0], [durationMs |-> 500]}, k \in {-1, 3},
     more \in {<<>>, <<E("jobs", "work", 1)>>, <<E("orders", "mail", 1), E("mail", "db", 2)>>},
     sc \in {<<>>} \cup {<<a>> : a \in Situations} \cup {<<a, b>> : a, b \in Situations}}

FlowAsked == {[call |-> "flow", declared |-> sp] : sp \in Driven}

\* users -> work -> jobs and an alarm on jobs; work's numbers, the ratios, counts and loads vary.
Unknowns ==
  {Spec0(<<[N("users", "entry") EXCEPT !.load = l], Lambda("work", [timeout |-> 30], m, k),
           [N("jobs", "sqs_queue") EXCEPT !.traffic = t], N("alarm", "metric_alarm")>> \o odd, edges) :
     l \in {None, <<1, 1>>}, t \in {None, Refusable}, k \in {0, -1},
     m \in {[none |-> 0], [durationMs |-> 0], [timeoutS |-> 9]},
     odd \in {<<>>, <<N("odd", "unsound")>>},
     edges \in {<<E("work", "jobs", 3)>>, <<E("users", "work", None)>>, <<E("users", "work", 0), E("work", "jobs", None)>>,
                <<E("work", "jobs", 3), E("alarm", "work", None)>>}}
GapsAsked == {[call |-> "gaps", filled |-> {}, declared |-> sp] : sp \in Unknowns}

-----------------------------------------------------------------------------
\* Review: a queue with a dead-letter queue, its consumer, and what stands beside them.
Num(n) == [num |-> n]
Text(w) == [text |-> w]
\* partly: the paths that hold something not known before apply inside a
\* block or a list, which leaves no trace in what is evaluated.
Res(address, type, written, attrs, refs) ==
  [address |-> address, type |-> type, mode |-> "managed", written |-> written, attrs |-> attrs,
   refs |-> refs, instances |-> 0, variants |-> {}, partly |-> {}]
NotWritten == [written |-> {}, attrs |-> <<>>, refs |-> <<>>]
\* An attribute four ways: not written, not known, a value, a reference.
Ways(name, v, to) ==
  {NotWritten, [written |-> {name}, attrs |-> <<>>, refs |-> <<>>],
   [written |-> {name}, attrs |-> <<name>> :> v, refs |-> <<>>],
   [written |-> {name}, attrs |-> <<>>, refs |-> <<name>> :> {to}]}
With(r, w) == [r EXCEPT !.written = @ \cup w.written, !.attrs = @ @@ w.attrs, !.refs = @ @@ w.refs]
Named0(address, type) ==
  Res(address, type, {"name"}, <<"name">> :> Text({address}), <<>>)

Beside == <<Res("role", "iam_role", {}, <<>>, <<>>), Named0("dlq", "sqs_queue")>>
ESM(r, b, m) ==
  With(With(With(Res("esm", "lambda_event_source_mapping", {"event_source_arn", "function_name"}, <<>>,
    (<<"event_source_arn">> :> {"q"}) @@ (<<"function_name">> :> {"f"})), r), b), m)
Function(address, t, k) ==
  [With(Res(address, "lambda_function", {"role"}, <<>>, <<"role">> :> {"role"}), t) EXCEPT !.instances = k]
Alarms == {[With(Res("alarm", "cloudwatch_metric_alarm", {}, <<>>, <<>>), w) EXCEPT !.variants = v] :
             w \in Ways("dimensions", Text({"arn", "dlq"}), "dlq"),
             v \in {{}, {<<"dimensions", "queue">> :> Text({"dlq"})}}}
Kept == {With(Res("log", "cloudwatch_log_group", {}, <<>>, <<>>), w) : w \in Ways("retention_in_days", Num(30), "q")}
Repos == {With(Res("repo", "ecr_repository", {}, <<>>, <<>>), w) :
            w \in Ways("image_tag_mutability", Text({"MUTABLE"}), "q")
                    \cup Ways("image_tag_mutability", Text({"IMMUTABLE"}), "q")}
Scanning == {<<>>, <<Res("scan", "ecr_registry_scanning_configuration", {}, <<>>, <<>>)>>}

Evaluated ==
  {<<With(With(Named0("q", "sqs_queue"), v), d), Function("f", t, 0), ESM(r, b, m)>> \o Beside :
     v \in Ways("visibility_timeout_seconds", Num(100), "f"), d \in Ways("redrive_policy", Text({"x"}), "dlq"),
     t \in Ways("timeout", Num(60), "q"), r \in Ways("function_response_types", [list |-> <<>>], "q"),
     b \in Ways("batch_size", Num(5), "q"), m \in {NotWritten}}
  \cup {<<With(Named0("q", "sqs_queue"), d), Function("f", NotWritten, k),
           a, l, x>> \o Beside \o sc :
           d \in Ways("redrive_policy", Text({"x"}), "dlq"), k \in {0, -1, 2}, a \in Alarms, l \in Kept,
           x \in Repos, sc \in Scanning}
\* scaling_config { maximum_concurrency = var.x }, and [var.mode] for a list.
InBlock(r) == [r EXCEPT !.partly = @ \cup {<<"scaling_config", "maximum_concurrency">>}]
InList(r) ==
  [With(r, [written |-> {"function_response_types"}, attrs |-> <<"function_response_types">> :> [list |-> <<>>], refs |-> <<>>])
   EXCEPT !.partly = @ \cup {<<"function_response_types">>}]
Nested ==
  {<<Named0("q", "sqs_queue"), Function("f", t, 0), esm>> :
     t \in Ways("timeout", Num(60), "q"),
     esm \in UNION {{InBlock(r), InList(r), InBlock(InList(r))} :
                      r \in {ESM(NotWritten, b, NotWritten) : b \in Ways("batch_size", Num(5), "q")}}}
Design == Spec0(<<N("a", "sqs_queue"), [N("b", "sqs_queue") EXCEPT !.instances = 2], N("f", "lambda_function")>>,
                <<E("a", "f", 1), E("a", "f", 2), E("b", "f", 1)>>)
ReviewAsked == {[call |-> "review", evaluated |-> rs, declared |-> Design] : rs \in Evaluated \cup Nested}

-----------------------------------------------------------------------------
\* Reconcile.
MCCodes == <<"bedrock", "ec2", "s3", "waf">>
MCNames == [bedrock |-> {<<"*", "Bedrock">>}, ec2 |-> {}, s3 |-> {<<"Simple", "Storage">>}, waf |-> {<<"WAF">>}]
MCSynced ==
  (<<"bedrock", "haiku", "input">> :> [service |-> "bedrock", filter |-> {"tokens"}]) @@
  (<<"bedrock", "opus", "input">> :> [service |-> "bedrock", filter |-> {"tokens"}]) @@
  (<<"s3", "get">> :> [service |-> "s3", filter |-> {"tier2"}]) @@
  (<<"s3", "lifecycle">> :> [service |-> "s3", filter |-> {}]) @@
  (<<"ec2">> :> [service |-> "ec2", filter |-> {"{row}"}])

G(service, usage, usd) == [service |-> service, usage |-> usage, usd |-> usd]
Groups == <<G(<<"Haiku", "Bedrock">>, "tokens", 17), G(<<"Opus", "Bedrock">>, "tokens", 5),
            G(<<"Simple", "Storage">>, "tier2", 3), G(<<"Simple", "Storage">>, "egress", 4),
            G(<<"WAF">>, "acl", 7), G(<<"Tax">>, "tax", 2), G(<<"Support">>, "hours", 11)>>
Months == {SelectSeq(Groups, LAMBDA g : g \in m) : m \in SUBSET Range(Groups)}
Exports == {[periods |-> <<a>>, byUsage |-> u] : a \in Months, u \in BOOLEAN}
             \cup {[periods |-> <<a, Groups>>, byUsage |-> TRUE] : a \in Months}

Paid(id, rolledUp, costs) == [id |-> id, rolledUp |-> rolledUp, costs |-> costs]
C(price, usd) == [price |-> price, usd |-> usd]
Haiku == <<"bedrock", "haiku", "input">>
MCReadings ==
  {[nodes |-> ns, groups |-> gs] :
     gs \in {<<>>, <<Paid("vpc", FALSE, <<C(<<"ec2", "zones">>, 6)>>)>>},
     ns \in {<<>>, <<Paid("bot", FALSE, <<C(Haiku, 16), C(<<"unpriced">>, None)>>)>>,
             <<Paid("bot", FALSE, <<C(Haiku, 16)>>), Paid("page", TRUE, <<C(<<"s3", "get">>, 2)>>),
               Paid("page.files", FALSE, <<C(<<"s3", "get">>, 2)>>)>>,
             <<Paid("files", FALSE, <<C(<<"s3", "get">>, 2), C(<<"s3", "get">>, 1), C(<<"s3", "lifecycle">>, 1)>>),
               Paid("model", FALSE, <<C(<<"bedrock", "opus", "input">>, 4), C(Haiku, 9)>>),
               Paid("other", FALSE, <<C(<<"else">>, 3)>>)>>}}
ReconcileAsked == {[call |-> "reconcile", reading |-> r, export |-> x, declared |-> Design] :
                     r \in MCReadings, x \in Exports}

-----------------------------------------------------------------------------
\* Export.
Entry(attach, external, provider, chars) ==
  [attach |-> attach, external |-> external, provider |-> provider, chars |-> chars]
MCCatalog ==
  [entry |-> Entry(FALSE, TRUE, "", 5), api |-> Entry(FALSE, FALSE, "aws", 18), fn |-> Entry(FALSE, FALSE, "aws", 6),
   table |-> Entry(FALSE, FALSE, "aws", 8), vm |-> Entry(FALSE, FALSE, "azure", 2),
   stage |-> Entry(TRUE, FALSE, "aws", 17), logs |-> Entry(TRUE, FALSE, "aws", 9), alarm |-> Entry(TRUE, FALSE, "aws", 5)]
MCLabels == <<"stage", "alarm", "logs">>

D(id, type, module) == [id |-> id, type |-> type, module |-> module, group |-> "", at |-> None]
Ed(from, to) == [from |-> from, to |-> to, kind |-> "", perUnit |-> None]
Drawable(nodes, edges, groups, region) == [nodes |-> nodes, edges |-> edges, groups |-> groups, region |-> region]

\* A stage, logs and an alarm, which one they belong to varying.
Attached ==
  {Drawable(<<D("users", "entry", "users"), D("stage", "stage", "m"), D("api", "api", "m"), D("logs", "logs", "m"),
              D("fn", "fn", "m"), D("alarm", "alarm", mod)>>,
            SelectSeq(<<Ed("users", "stage"), Ed("stage", "api"), Ed("stage", "logs"), Ed("logs", "stage"),
                        Ed("fn", "logs"), Ed("api", "fn"), Ed("alarm", "logs")>>, LAMBDA e : e \in es) \o <<Ed("fn", "gone")>>, <<>>, FALSE) :
     mod \in {"m", "alarm"},
     es \in SUBSET {Ed("users", "stage"), Ed("stage", "api"), Ed("stage", "logs"), Ed("logs", "stage"),
                    Ed("fn", "logs"), Ed("api", "fn"), Ed("alarm", "logs")}}

\* A chain, what skips and closes it, and nodes beside it; in groups or not.
Chain == <<[Ed("users", "a") EXCEPT !.perUnit = 2], Ed("a", "b"), [Ed("b", "c") EXCEPT !.kind = "read"],
           [Ed("b", "c") EXCEPT !.kind = "write"], Ed("c", "a"), Ed("a", "c"), Ed("users", "c"), Ed("d", "c"), Ed("a", "d")>>
Grouped(n, g) == [n EXCEPT !.group = IF n.id \in DOMAIN g THEN g[n.id] ELSE ""]
Layered ==
  {LET nodes == <<D("users", "entry", "users"), D("a", "fn", "m"), D("b", "fn", "b"), D("c", "table", "b"),
                  D("d", "fn", "d"), D("e", last, "m")>>
   IN  Drawable([i \in 1..6 |-> Grouped(nodes[i], g)], SelectSeq(Chain, LAMBDA e : e \in es \/ e.kind # ""),
                <<"vpc", "lan">>, TRUE) :
     last \in {"table", "vm"},
     g \in {[b |-> "vpc", c |-> "vpc"], [a |-> "vpc", b |-> "vpc", d |-> "lan"], [none |-> ""]},
     es \in SUBSET {x \in Range(Chain) : x.kind = ""}}

\* Places people gave: two of a group, and two that may have fallen between.
PlacedByHand ==
  {LET at(id, type, group, left, top) == [D(id, type, id) EXCEPT !.group = group, !.at = [x |-> left, y |-> top]]
   IN  Drawable(<<at("users", "entry", "", 0, 0), at("a", "fn", "vpc", 236, 0), at("b", "fn", "vpc", x, 420),
                  at("c", "table", other, u, v), at("d", "table", other, u, w)>>,
                <<Ed("users", "a"), Ed("a", "b"), Ed("b", "c")>>, <<"vpc", "lan">>, FALSE) :
     x \in {236, 472}, u \in {236, 300, 472}, v \in {0, 140, 280}, w \in {140, 280, 560}, other \in {"", "lan"}}

Nameless == {Drawable(<<D("", "fn", "")>>, <<>>, <<>>, FALSE), Drawable(<<>>, <<>>, <<"vpc">>, TRUE)}

ExportAsked == {[call |-> "export", declared |-> sp] : sp \in Attached \cup Layered \cup PlacedByHand \cup Nameless}

-----------------------------------------------------------------------------
Start(what) ==
  /\ asked \in what
  /\ spec = asked.declared
  /\ state = "reading"
NoDesign == Spec0(<<>>, <<>>)

Init ==
  \/ "export" \in Asks /\ Start(ExportAsked) /\ answer = [none |-> TRUE]
  \/ /\ "traffic" \in Asks /\ asked \in TrafficAsked /\ spec = NoDesign
     /\ answer = [none |-> TRUE] /\ state = "reading"
  \/ "flow" \in Asks /\ Start(FlowAsked) /\ answer = [flows |-> <<>>]
  \/ "gaps" \in Asks /\ Start(GapsAsked) /\ answer = [none |-> TRUE]
  \/ "review" \in Asks /\ Start(ReviewAsked) /\ answer = [none |-> TRUE]
  \/ "reconcile" \in Asks /\ Start(ReconcileAsked) /\ answer = [none |-> TRUE]

MCSpec == Init /\ [][Next]_vars

-----------------------------------------------------------------------------
Answered(call) == asked.call = call /\ state = "done"

Split(ranges) ==
  {SubSeq(ranges, 1, i - 1) \o pair \o SubSeq(ranges, i + 1, Len(ranges)) :
     <<i, pair>> \in UNION {
       {i} \X (IF ranges[i].from < ranges[i].to
               THEN {<<Span(ranges[i].from, m), Span(m, ranges[i].to)>> :
                       m \in (ranges[i].from + 1)..(ranges[i].to - 1)}
               ELSE {<<Span(ranges[i].from, 24), Span(0, ranges[i].to)>>}) : i \in DOMAIN ranges}}

\* Traffic that says what t says in other words.
SaysTheSame(t) ==
  {[t EXCEPT !.hours = h] : h \in Split(t.hours)}
  \cup (IF t.days = "" /\ t.schedule = None THEN {[t EXCEPT !.days = "all"]} ELSE {})
  \cup (IF t.rate = None THEN {} ELSE IF t.rate.per # "second" THEN {}
        ELSE {[t EXCEPT !.rate = [count |-> @.count * Second, per |-> "minute"]],
              [t EXCEPT !.rate = [count |-> @.count * Hour, per |-> "hour"]]})
  \cup (IF t.users = None THEN {} ELSE IF t.users.per \notin {"day", "week", "month"} THEN {}
        ELSE {[t EXCEPT !.users = None, !.rate = [count |-> t.users.people * t.users.actions, per |-> t.users.per]]})
  \cup (IF t.concurrent = None THEN {} ELSE IF t.concurrent.every = 0 THEN {}
        ELSE {[t EXCEPT !.concurrent = None,
                        !.rate = [count |-> t.concurrent.working \div t.concurrent.every, per |-> "second"]]})
  \cup (IF t.schedule = None \/ t.batch # None THEN {}
        ELSE {[t EXCEPT !.schedule = x] :
                x \in CASE t.schedule.call = "plain" /\ Len(t.schedule.fields) = 5 ->
                              {[call |-> "cron", fields |-> Append(t.schedule.fields, Star)]}
                       [] t.schedule.call = "rate" ->
                              IF t.schedule.n \in {1, 5} /\ t.schedule.unit = "minutes"
                              THEN {[call |-> "plain", fields |-> <<<<P("star", 0, 0, t.schedule.n)>>, Star, Star, Star, Star>>]}
                              ELSE IF t.schedule.n = 1 /\ t.schedule.unit = "hours"
                              THEN {[call |-> "plain", fields |-> <<At(3), Star, Star, Star, Star>>]}
                              ELSE IF t.schedule.n = 1 /\ t.schedule.unit = "day"
                              THEN {[call |-> "plain", fields |-> <<At(0), At(4), Star, Star, Star>>]} ELSE {}
                       [] OTHER -> {}})

\* What a part of a field selects, a word being one value no number is.
PartSelects(p, lo, hi) ==
  LET r == RangeOf(p, lo, hi)
  IN  IF r = <<>> THEN {IF p.form = "word" THEN -1 ELSE p.a}
      ELSE {v \in r[1]..r[2] : (v - r[1]) % StepOf(p) = 0}
\* The fields of an expression with their bounds.
Bounded(c) == {<<c.min, 0, Minute - 1>>, <<c.hour, 0, 23>>, <<c.dom, 1, 31>>, <<c.month, 1, 12>>, <<c.dow, 1, 7>>}
                \cup (IF c.sec = <<>> THEN {} ELSE {<<c.sec, 0, Second - 1>>})
CronOf(x) == IF x.call = "cron" THEN Fields(SubSeq(x.fields, 1, 5)) ELSE Fields(x.fields)
IsCron(x) == x # None /\ x.call # "rate" /\ Len(x.fields) \in (IF x.call = "cron" THEN {6} ELSE 5..6)

OnDays(t, d) == Resolve([t EXCEPT !.days = d])

(***************************************************************************)
(* The same work said in other words is the same load: a rate by the second *)
(* or by the minute, users or their actions, people at work or their rate,  *)
(* hours in one range or two, a rate() or its cron; and a month's weekdays  *)
(* and weekends are the month (traffic.go rated, used, concurrent, hoursOf, *)
(* schedule.go).  And a field of a schedule counts the values it selects,   *)
(* whatever mix of stars, ranges, steps and values it is written with       *)
(* (schedule.go count, countPart).                                          *)
(***************************************************************************)
SameWork ==
  Answered("traffic") =>
    LET t == asked.traffic
    IN  /\ \A same \in SaysTheSame(t) : Resolve(same) = answer.load
        /\ (/\ t.days = "all" /\ OK(answer.load)
            /\ t.rate # None => t.rate.per \notin {"week", "month"}
            /\ t.users # None => t.users.per \notin {"week", "month"})
           => answer.load.parts = OnDays(t, "weekdays").parts + OnDays(t, "weekends").parts
        /\ IsCron(t.schedule) =>
             \A <<f, lo, hi>> \in Bounded(CronOf(t.schedule)) :
               CountField(f, lo, hi) = Cardinality(UNION {PartSelects(p, lo, hi) : p \in Range(f)})

(***************************************************************************)
(* A peak nobody gave is never below the average over the time the load is  *)
(* active: the engine takes it for the most a node meets (peaked,           *)
(* scheduled).  Dates past the month's 730 hours are left aside.            *)
(***************************************************************************)
ActiveSeconds(t) == IF t.schedule = None THEN Seconds(WindowOf(t)) * 12 ELSE HoursPerMonth * Hour * Part
PeakCoversAverage ==
  Answered("traffic") =>
    LET t == asked.traffic
    IN  (OK(answer.load) /\ t.peakPerSecond = None /\ t.batch = None) =>
          Frac(answer.load.parts, ActiveSeconds(t))[1] * answer.load.peak[2]
            <= answer.load.peak[1] * Frac(answer.load.parts, ActiveSeconds(t))[2]

-----------------------------------------------------------------------------
\* What one unit at a makes at b, over every route.
RECURSIVE Weight(_, _, _)
Weight(sp, a, b) ==
  IF a = b THEN 1
  ELSE FoldLeft(LAMBDA n, e : IF e.from = a THEN n + Factor(e) * Weight(sp, e.to, b) ELSE n, 0, sp.edges)

OwnIn(sp, sc, n) == IF n.id \in DOMAIN sc.load THEN sc.load[n.id] ELSE Own(n)
ArrivalIn(sp, sc, q) ==
  FoldLeft(LAMBDA sum, n : Plus(sum, By(OwnIn(sp, sc, n), Weight(sp, n.id, q))), Zero, sp.nodes)

(***************************************************************************)
(* Every scenario is read from the declaration alone: what arrives is each  *)
(* entry's load in that scenario, or its own, over every route, and what    *)
(* drains a queue or connects to a store is what it is in every other       *)
(* (model.In, api.Flow).                                                    *)
(***************************************************************************)
ScenarioAlone ==
  (asked.call = "flow" /\ state # "refused") =>
    LET sp == asked.declared
        base == [load |-> [none |-> Zero]]
        sc(i) == IF i = 1 THEN base ELSE sp.scenarios[i - 1]
    IN  \A i \in DOMAIN answer.flows :
          /\ \A q \in Range(answer.flows[i].queues) : q.arrival = ArrivalIn(sp, sc(i), q.node)
          /\ answer.flows[i].stores = answer.flows[1].stores
          /\ \A q \in Range(answer.flows[i].queues), p \in Range(answer.flows[1].queues) :
               q.node = p.node => q.consumers = p.consumers /\ q.capacity = p.capacity

-----------------------------------------------------------------------------
RECURSIVE Upstream(_, _)
Upstream(sp, ids) ==
  LET more == ids \cup {e.from : e \in {x \in Range(sp.edges) : x.to \in ids}}
  IN  IF more = ids THEN ids ELSE Upstream(sp, more)

(***************************************************************************)
(* A node that takes work and gets none is explained: somewhere upstream of *)
(* it, or at itself, a gap says so, or the work stops at a node that takes  *)
(* none or an edge that makes none (gaps.go sourceGap, takesWork).          *)
(***************************************************************************)
UnreadExplained ==
  (asked.call = "gaps" /\ state = "listed") =>
    \A n \in Range(spec.nodes) :
      (n.load = None /\ TakesWork(n) /\ Demand(spec)[n.id] = Zero) =>
        LET up == Upstream(spec, {n.id})
        IN  \/ \E g \in Range(answer.gaps) : /\ g.kind \in {"load", "caller", "failed"}
                                             /\ g.node \in up
            \/ \E e \in Range(spec.edges) : e.to \in up /\ e.perUnit = 0
            \/ \E id \in up : ~ TakesWork(Node(spec, id)) /\ Node(spec, id).type # EntryType

(***************************************************************************)
(* Whoever does what the gaps say, in any order, comes to the end of them:  *)
(* no answer brings back a gap that was answered (gaps.go Find, nodeGaps).  *)
(***************************************************************************)
GapsAnswered ==
  (asked.call = "gaps" /\ state = "listed") => asked.filled \cap Range(answer.gaps) = {}

-----------------------------------------------------------------------------
\* What an attribute may turn out to be.
Values(name) ==
  {<<>>, name :> Num(0), name :> Num(600), name :> Text({"dlq"}), name :> [list |-> <<Text({"ReportBatchItemFailures"})>>]}
\* The resources once one attribute is known of which nothing was before apply,
\* or of which a part was not, inside a block or a list.
Knowings(evaluated) ==
  LET rs == ReviewResources(evaluated)
      Partly(i) == UNION {r.partly : r \in {x \in Range(evaluated) : x.address = rs[i].address}}
  IN  UNION {UNION {{[rs EXCEPT ![i].unknown = @ \ {name}, ![i].attrs = known @@ @] : known \in Values(<<name>>)} :
                          name \in rs[i].unknown} : i \in DOMAIN rs}
      \cup UNION {UNION {{[rs EXCEPT ![i].attrs = known @@ @] : known \in Values(path)} : path \in Partly(i)} : i \in DOMAIN rs}
\* A setting that is not known inside a block or a list is judged all the same.
JudgedInPart(f) ==
  \E rule \in ReviewRules, r \in Range(asked.evaluated) :
    rule.id = f.rule /\ rule.shape = "setting" /\ r.address = f.node /\ rule.setting.path \in r.partly

(***************************************************************************)
(* A departure found in a resource's settings, or between two resources,    *)
(* stands whatever the attributes that are not known yet turn out to be     *)
(* (review.go value, setting, endValue; api.go reviewResources), unless it  *)
(* is of a setting that is not known inside a block or a list: these are    *)
(* not among the unknown, and read as not written, or as a shorter list.    *)
(* One of a missing companion need not stand either.  See the README.       *)
(***************************************************************************)
KnownFindingsStand ==
  Answered("review") =>
    \A known \in Knowings(asked.evaluated) :
      \A f \in answer.findings :
        (~ JudgedInPart(f) /\ \E r \in ReviewRules : r.id = f.rule /\ r.shape # "companion") =>
          f \in Departures(spec, known, ReviewRules)

-----------------------------------------------------------------------------
Disjoint(rows) == \A i, j \in DOMAIN rows : i # j => rows[i].reads \cap rows[j].reads = {}
Together(rows, f(_)) == FoldLeft(LAMBDA n, r : n + f(r), 0, rows)

(***************************************************************************)
(* Nothing of the bill or of the reading is lost or counted twice: the bill *)
(* is tax, covered and outside; the reading is its rows and the lines that  *)
(* could not be placed, a rolled-up pattern counted by its members; and     *)
(* what the prices read of a bill by usage type, with what nothing reads,   *)
(* is what the covered services cost (reconcile.go Compare, compareUsage).  *)
(***************************************************************************)
BillAddsUp ==
  Answered("reconcile") =>
    LET r == answer.report
        members == SelectSeq(asked.reading.nodes, LAMBDA n : ~ n.rolledUp) \o asked.reading.groups
        money(n) == Together(SelectSeq(n.costs, LAMBDA c : c.usd # None), Charge)
        declared(row) == row.declared
        billed(row) == row.bill
    IN  /\ r.bill = r.tax + r.covered + r.outside
        /\ r.declared = Together(r.rows, declared) + Together(r.unmapped, Charge)
        /\ r.declared = Together(members, money)
        /\ (asked.export.byUsage /\ Disjoint(r.usageRows)) =>
             r.covered = Together(r.usageRows, billed) + Together(r.unread, Charge)

-----------------------------------------------------------------------------
Shown == Answered("export")
Pic == answer.picture
Drawn == answer.drawn

(***************************************************************************)
(* No node is lost from a drawing or drawn twice: each is drawn itself or   *)
(* counted under exactly one that is, however attached nodes hang from each *)
(* other; and there is an arrow between two drawn nodes exactly where an    *)
(* edge joins what they stand for (diagram.go build).                       *)
(***************************************************************************)
EveryNodeShown ==
  Shown =>
    LET rep == Drawing!StandsFor(spec)
        shown == {n.id : n \in Range(Pic.nodes)}
        counted(n) == FoldLeft(LAMBDA sum, t : sum + n.folded[t], 0, MCLabels)
    IN  /\ \A n \in Range(spec.nodes) : rep[n.id] \in shown
        /\ FoldLeft(LAMBDA sum, n : sum + 1 + counted(n), 0, Pic.nodes) = Len(spec.nodes)
        /\ {<<a.from, a.to>> : a \in Range(Pic.arrows)} =
             {<<rep[e.from], rep[e.to]>> : e \in {x \in Range(spec.edges) : {x.from, x.to} \subseteq DOMAIN rep}} \ {<<id, id>> : id \in shown}

-----------------------------------------------------------------------------
Box(n) == Drawing!BoxOf(n, Drawn.at[n.id])
FrameBox(k) == Drawing!CornersOf(Drawn.frames[k])
\* Two boxes have more than a margin in common; one holds another.
Meets(a, b, margin) == a.x0 < b.x1 - margin /\ b.x0 < a.x1 - margin /\ a.y0 < b.y1 - margin /\ b.y0 < a.y1 - margin
Holds(a, b) == a.x0 <= b.x0 /\ a.y0 <= b.y0 /\ a.x1 >= b.x1 /\ a.y1 >= b.y1
Stretches(path) ==
  {Drawing!Around({Drawing!Corners(p.x, p.y, p.x, p.y) : p \in {path[i], path[i + 1]}}) : i \in 1..(Len(path) - 1)}
Joined(k) == {Pic.arrows[k].from, Pic.arrows[k].to}
InUse == {k \in DOMAIN Pic.frames : Pic.frames[k].members # <<>>}

NodesApart == \A a, b \in Range(Pic.nodes) : a # b => ~ Meets(Box(a), Box(b), 0)

FramesHoldTheirs ==
  \A k \in InUse, n \in Range(Pic.nodes) :
    IF Drawing!In(Pic.frames[k], n.id) THEN Holds(FrameBox(k), Box(n)) ELSE ~ Meets(FrameBox(k), Box(n), 0)

\* Half a pixel apart is straight to placeX.
RoutesClear ==
  \A k \in DOMAIN Pic.arrows : \A s \in Stretches(Drawn.paths[k]) :
    /\ s.x0 = s.x1 \/ s.y1 - s.y0 < 5
    /\ \A n \in Range(Pic.nodes) : n.id \notin Joined(k) => ~ Meets(s, Box(n), 20)

RoutesArrive ==
  \A k \in DOMAIN Pic.arrows :
    LET p == Drawn.paths[k]
        end(id, q) == /\ q.x \in {Drawn.at[id].x - 240, Drawn.at[id].x + 240}
                      /\ q.y \in (Drawn.at[id].y - 240)..(Drawn.at[id].y + 240)
    IN  /\ end(Pic.arrows[k].from, Head(p)) /\ end(Pic.arrows[k].to, Last(p))
        /\ \/ \A i \in 1..(Len(p) - 1) : p[i].x <= p[i + 1].x
           \/ \A i \in 1..(Len(p) - 1) : p[i].x >= p[i + 1].x

TracksApart ==
  \A k, j \in DOMAIN Pic.arrows : Joined(k) \cap Joined(j) = {} =>
    \A s \in Stretches(Drawn.paths[k]), t \in Stretches(Drawn.paths[j]) :
      (s.x0 = s.x1 /\ s.y0 < s.y1 /\ t.x0 = t.x1 /\ s.x0 = t.x0) => (s.y1 < t.y0 \/ t.y1 < s.y0)

EntriesOutside ==
  \A n \in Range(Pic.nodes) : (Pic.provider # "" /\ n.ext) => Drawn.at[n.id].x < Drawn.cloud.x

\* By hand, a node of no group is in no frame.
NothingFellIn ==
  \A k \in InUse, n \in Range(Pic.nodes) :
    LET f == FrameBox(k)
        c == Drawn.at[n.id]
    IN  n.group = "" => ~ (f.x0 < c.x /\ c.x < f.x1 /\ f.y0 < c.y /\ c.y < f.y1)

(***************************************************************************)
(* A drawing can be read: no node over another, in another group's frame or *)
(* under an arrow that is not its own; every arrow made of level and        *)
(* upright stretches, from its source to its target without turning back,   *)
(* no two of them taken for one where they have no end in common; what is   *)
(* outside the cloud left of it and the rest within; and where people       *)
(* placed the nodes, none of no group inside a frame (layout.go; the        *)
(* assertions of diagram_test.go, for every drawing of the run).            *)
(***************************************************************************)
Legible ==
  Shown =>
    /\ \A n \in Range(Pic.nodes) :
         (Pic.provider # "" /\ ~ n.ext) => Holds(Drawing!CornersOf(Drawn.cloud), Box(n))
    /\ IF Drawn.lays = <<>> THEN NothingFellIn
       ELSE NodesApart /\ FramesHoldTheirs /\ RoutesClear /\ RoutesArrive /\ TracksApart /\ EntriesOutside
=============================================================================
