----------------------------- MODULE MCReference -----------------------------
(***************************************************************************)
(* Instances of Workflow for TLC: three shard Workers, the one of the      *)
(* strong model and one without measured links, and runs of each kind of   *)
(* workflow, among them runs that go wrong by themselves.                  *)
(***************************************************************************)
EXTENDS Workflow

MCAlphabet == <<"k", "n", "t", "x">>
MCShardWorkers == <<"a4", "a5", "a28">>
MCWorkerOrder == <<"a28", "a4", "a5", "spare", "strong">>
MCReplicas ==
  <<[id |-> 1, model |-> "local", worker |-> "a28"],
    [id |-> 2, model |-> "local", worker |-> "a4"],
    [id |-> 3, model |-> "final", worker |-> "strong"],
    [id |-> 4, model |-> "local", worker |-> "a5"]>>
MCAssigned == ("local" :> 2) @@ ("final" :> 3)
MCSite == [w \in ToSet(MCWorkerOrder) |-> IF w = "strong" THEN "cloud" ELSE w]
MCLinks ==
  <<[from |-> "a4", to |-> "cloud", rtt |-> 2, per_byte |-> 1, bidirectional |-> TRUE],
    [from |-> "a4", to |-> "a5", rtt |-> 1, per_byte |-> 2, bidirectional |-> TRUE],
    [from |-> "a28", to |-> "a4", rtt |-> 3, per_byte |-> 1, bidirectional |-> FALSE],
    [from |-> "a5", to |-> "cloud", rtt |-> 2, per_byte |-> 3, bidirectional |-> TRUE],
    [from |-> "a28", to |-> "cloud", rtt |-> 2, per_byte |-> 1, bidirectional |-> TRUE]>>
MCAccepts ==
  ("local" :> {"image", "text", "json"}) @@ ("final" :> {"image", "text", "json"})
MCOperators ==
  [w \in ToSet(MCWorkerOrder) |->
     {"aggregate_artifacts", "make_contact_sheet", "bm25_retrieve"}
       \cup RecordOps \cup (IF w = "a4" THEN {"extract_clip"} ELSE {})
       \cup {"sample_frames"}]
MCSizeOf == ("video" :> 9) @@ ("image" :> 3) @@ ("text" :> 2) @@ ("json" :> 1)

NoPlan ==
  [predicates |-> <<>>, match |-> "all", fields |-> <<>>, derivations |-> <<>>,
   aggregations |-> <<>>, by |-> <<>>, order |-> <<>>, limit |-> 0]

Placed(type, form, workers) ==
  [i \in DOMAIN workers |->
     [worker |-> workers[i], type |-> type, form |-> form, rows |-> <<>>]]
Run(workflow, policy, inputs) ==
  [workflow |-> workflow, policy |-> policy, inputs |-> inputs, plan |-> NoPlan, calls |-> <<>>]
Videos == Placed("video", "opaque", <<"a4", "a5", "a28">>)

CentralizedRaw == Run("centralized_raw", "resource_aware", Placed("text", "opaque", <<"a4", "a5", "a4">>))
RefusedVideo == Run("centralized_raw", "fixed", Videos)
SampledRaw == Run("sampled_raw", "round_robin", Videos)
VisualReduction == Run("visual_reduction", "fixed", Videos)
Evidence(policy) == Run("evidence", policy, Videos)
Images(workers) == Placed("image", "opaque", workers)
Centralized == Run("centralized", "resource_aware", Images(<<"a4", "a28">>))
ThreeByTwo == Run("distributed_3x2", "resource_aware", Images(<<"a4", "a5", "a28", "a28", "a4">>))
SixByOne == Run("distributed_6x1", "round_robin", Images(<<"a4", "a5", "a28">>))
DistributedRetrieval ==
  Run("distributed_retrieval", "fixed", Placed("text", "opaque", <<"a28", "a4", "a28">>))

(* Three shards of records with a key k and numbers n and x, some absent.  *)
Row(k, n, x) == ("k" :> k) @@ ("n" :> n) @@ ("x" :> x)
P == Text(<<112>>)
Q == Text(<<113>>)
Shards ==
  << <<Row(P, Number(2), Number(1)), Row(Q, Number(5), Number(2)), Row(P, Null, Number(3))>>,
     <<Row(Q, Number(5), Number(1)), Row(P, Number(4), Tenths(15))>>,
     <<Row(P, Number(1), Number(7)), ("k" :> Q) @@ ("n" :> Number(3))>> >>
ShardInputs(shards) ==
  [i \in DOMAIN MCShardWorkers |->
     [worker |-> MCShardWorkers[i], type |-> "json", form |-> "records", rows |-> shards[i]]]
Structured(plan) ==
  [workflow |-> "distributed_compute", policy |-> "fixed", inputs |-> ShardInputs(Shards),
   plan |-> plan, calls |-> <<>>]

(* Shards whose key is a number, a float, a boolean, null or missing.      *)
MixedShards ==
  << <<Row(Number(1), Number(1), Null), Row(Bool(TRUE), Number(2), Null),
       Row(Null, Number(4), Null), ("n" :> Number(8))>>,
     <<Row(Tenths(10), Number(1), Null), Row(Number(1), Number(2), Null),
       Row(Bool(FALSE), Number(-4), Null), Row(Number(0), Number(8), Null)>>,
     <<("n" :> Number(1)), Row(Text(<<49>>), Number(2), Null), Row(Bool(TRUE), Number(4), Null)>> >>

HasX == [field |-> "x", op |-> "not_null", values |-> <<>>]
HasN == [field |-> "n", op |-> "gte", values |-> <<Number(2)>>]
Count == [output |-> "c", op |-> "count", field |-> NoField]
SumOfN == [output |-> "s", op |-> "sum", field |-> "n"]
ByT == [field |-> "t", direction |-> "descending", nulls |-> "last"]
ByCount == [field |-> "c", direction |-> "descending", nulls |-> "last"]

TopRecords ==
  Structured([NoPlan EXCEPT
    !.predicates = <<HasX, HasN>>,
    !.derivations = <<[output |-> "t", op |-> "multiply", left |-> "n", right |-> "x"]>>,
    !.order = <<ByT>>, !.limit = 1])
Groups ==
  Structured([NoPlan EXCEPT !.predicates = <<HasX>>, !.fields = <<"k", "n">>,
                            !.aggregations = <<Count, SumOfN>>, !.by = <<"k">>])
MixedGroups ==
  [Structured([NoPlan EXCEPT !.aggregations = <<Count, SumOfN>>, !.by = <<"k">>])
   EXCEPT !.inputs = ShardInputs(MixedShards)]
SameOutput ==
  Structured([NoPlan EXCEPT !.predicates = <<HasX>>, !.by = <<"k">>,
                            !.aggregations = <<Count, [SumOfN EXCEPT !.output = "c"]>>])
Underivable ==
  Structured([NoPlan EXCEPT
    !.derivations = <<[output |-> "t", op |-> "add", left |-> "n", right |-> "x"]>>,
    !.order = <<ByT>>, !.limit = 1])
TopGroups ==
  Structured([NoPlan EXCEPT !.aggregations = <<Count>>, !.by = <<"k">>,
                            !.order = <<ByCount>>, !.limit = 1])

(* A turn of tool calls that share an input and leave the Worker open, one *)
(* that fails, one that ends with what the final model does not take, and  *)
(* one whose result is made where no measured link leads from.             *)
Planned(inputs, calls) ==
  [workflow |-> "planned", policy |-> "resource_aware", inputs |-> inputs, plan |-> NoPlan, calls |-> calls]
ToolCall(op, inputs) == [op |-> op, inputs |-> inputs]
Toolbox ==
  Planned(Placed("image", "opaque", <<"a4", "a5">>) \o Placed("text", "opaque", <<"a28">>),
          <<ToolCall("make_contact_sheet", <<1, 2>>), ToolCall("make_contact_sheet", <<2, 1>>),
            ToolCall("aggregate_artifacts", <<3>>)>>)
BrokenTool ==
  [Planned(Placed("json", "broken", <<"a4">>) \o Placed("video", "opaque", <<"a5">>),
           <<ToolCall("top_k_records", <<1>>), ToolCall("extract_clip", <<2>>)>>)
   EXCEPT !.plan.order = <<ByT>>, !.plan.limit = 1]
OffTheNetwork ==
  Planned(Placed("text", "opaque", <<"spare">>), <<ToolCall("aggregate_artifacts", <<1>>)>>)

MCTasks ==
  {CentralizedRaw, OffTheNetwork, RefusedVideo, SampledRaw, VisualReduction, Evidence("fixed"),
   Evidence("round_robin"), Evidence("resource_aware"), DistributedRetrieval,
   Centralized, ThreeByTwo, SixByOne, TopRecords, Groups, MixedGroups, SameOutput, Underivable, Toolbox, BrokenTool}
GroupTasks == {TopGroups}
-----------------------------------------------------------------------------
(* The order of values is total, whatever their kinds: a sorted prefix     *)
(* does not depend on the order of the shards' files.                      *)
Samples ==
  {Null, MISSING, Bool(TRUE), Bool(FALSE), Number(9), Number(10), Number(-1), Tenths(95),
   Text(<<>>), Text(<<57>>), Text(<<49, 48>>), Text(<<116>>)}
ASSUME OrderIsTotal ==
  \A d \in {"ascending", "descending"}, n \in {"first", "last"} :
    LET C(x, y) == CompareValues(x, y, [field |-> "n", direction |-> d, nulls |-> n])
    IN \A x, y \in Samples :
         /\ C(x, y) = -C(y, x)
         /\ \A z \in Samples : C(x, y) <= 0 /\ C(y, z) <= 0 => C(x, z) <= 0

(* The merged intervals cover the instants that some interval covers, each *)
(* once.                                                                   *)
Instants == 0..4
Intervals == {i \in Instants \X Instants : i[1] <= i[2]}
ASSUME IntervalsAreMerged ==
  \A i, j, k \in Intervals :
    IntervalUnion(<<i, j, k>>)
      = Cardinality({x \in Instants : \E l \in {i, j, k} : l[1] <= x /\ x < l[2]})
=============================================================================
