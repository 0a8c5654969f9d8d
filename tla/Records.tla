------------------------------- MODULE Records -------------------------------
(***************************************************************************)
(* The deterministic record operators of a Worker (worker/service.py):     *)
(* filter, select, derive, aggregate and top-k over JSON records, and the  *)
(* loading of their inputs.                                                *)
(*                                                                         *)
(* A JSON value is a kind and a tuple `v`: nothing for null, 0 or 1 for a  *)
(* boolean, the number of an integer, the tenths of a float (quotients are *)
(* cut to one decimal), the character codes of a text.  A record is a      *)
(* function from field names to values; records are flat, so the dotted    *)
(* paths of _field_value have one component.  NaN is left out.             *)
(***************************************************************************)
EXTENDS Integers, SequencesExt, Ordering

CONSTANT Alphabet   \* the field names in the order of their letters

ASSUME AlphabetAssumption == Alphabet \in Seq(ToSet(Alphabet)) /\ IsInjective(Alphabet)

Value(kind, v) == [kind |-> kind, v |-> v]
Null == Value("null", <<>>)
Bool(b) == Value("bool", <<IF b THEN 1 ELSE 0>>)
Number(n) == Value("int", <<n>>)
Tenths(n) == Value("float", <<n>>)
Text(codes) == Value("text", codes)

(* What a field of a JSON record can hold. *)
Values ==
  [kind : {"null"}, v : {<<>>}] \cup [kind : {"bool"}, v : {<<0>>, <<1>>}]
    \cup [kind : {"int", "float"}, v : [1..1 -> Int]]
    \cup [kind : {"text", "list"}, v : Seq(Nat)]

MISSING == Value("missing", <<>>)   \* the sentinel _MISSING
FAILED == Value("failed", <<>>)     \* the operator raised ExecutionFailedError

NoField == "no field"   \* RecordAggregation.field = None

IsAbsent(x) == x.kind \in {"null", "missing"}
IsNumber(x) == x.kind \in {"int", "float"}

(* Python compares a boolean like the number 0 or 1. *)
IsOrdinal(x) == IsNumber(x) \/ x.kind = "bool"
Quantity(x) == IF x.kind = "float" THEN x.v[1] ELSE 10 * x.v[1]
-----------------------------------------------------------------------------
(* The JSON text of a value or a record, as character codes.  `null`,      *)
(* `true` and `false` are cut to their first letter, which decides every   *)
(* comparison they take part in; a field's name is its rank in Alphabet.   *)

Digits[n \in Nat] ==
  IF n < 10 THEN <<48 + n>> ELSE Digits[n \div 10] \o <<48 + (n % 10)>>

Magnitude(n) == IF n < 0 THEN -n ELSE n
Sign(n) == IF n < 0 THEN <<45>> ELSE <<>>

JsonValue(x) ==
  CASE x.kind = "null"  -> <<110>>
    [] x.kind = "bool"  -> <<IF x = Bool(TRUE) THEN 116 ELSE 102>>
    [] x.kind = "int"   -> Sign(x.v[1]) \o Digits[Magnitude(x.v[1])]
    [] x.kind = "float" -> Sign(x.v[1]) \o Digits[Magnitude(x.v[1]) \div 10]
                           \o <<46, 48 + (Magnitude(x.v[1]) % 10)>>
    [] x.kind = "text"  -> <<34>> \o x.v \o <<34>>
    [] x.kind = "list"  -> <<91>> \o x.v \o <<93>>

JsonRecord(record) ==
  LET fields == Those([i \in DOMAIN Alphabet |-> i],
                      {i \in DOMAIN Alphabet : Alphabet[i] \in DOMAIN record})
      Entry(i) == (IF i = 1 THEN <<>> ELSE <<44>>) \o <<fields[i], 58>>
                  \o JsonValue(record[Alphabet[fields[i]]])
  IN <<123>> \o FlattenSeq([i \in DOMAIN fields |-> Entry(i)]) \o <<125>>

(* Texts, and tuples of texts, are compared like Python's. *)
TextLess(s, t) ==
  \E n \in 0..Len(s) :
     /\ n < Len(t)
     /\ \A i \in 1..n : s[i] = t[i]
     /\ n = Len(s) \/ s[n + 1] < t[n + 1]

TupleLess(s, t) ==
  \E n \in DOMAIN s :
     /\ \A i \in 1..(n - 1) : s[i] = t[i]
     /\ TextLess(s[n], t[n])
-----------------------------------------------------------------------------
(* What an input file holds: `records` stands for an array, JSON Lines and *)
(* an object with the key "records", `groups` for the output of            *)
(* aggregate_records, `object` for any other single object, `broken` for   *)
(* what is neither JSON nor JSON Lines.                                    *)

IsRecord(record) == record \in [DOMAIN record -> Values]

Forms == {"records", "groups", "object", "broken"}
IsLoadable(file) == file.form # "broken"
IsFile(file) ==
  /\ file.form \in Forms
  /\ file.rows \in Seq(ToSet(file.rows))
  /\ file.form = "object" => file.rows # <<>>
  /\ \A row \in ToSet(file.rows) : IsRecord(row)

(* An object without the key "records" is one record. *)
Load(file) ==
  CASE file.form = "records" -> file.rows
    [] file.form = "groups"  ->
         <<[f \in {"groups"} |->
              Value("list", FlattenSeq([i \in DOMAIN file.rows |->
                                          JsonRecord(file.rows[i])]))]>>
    [] file.form = "object"  -> <<file.rows[1]>>

LoadAll(files) == FlattenSeq([i \in DOMAIN files |-> Load(files[i])])

FieldValue(record, field) ==
  IF field \in DOMAIN record THEN record[field] ELSE MISSING
-----------------------------------------------------------------------------
(* Predicates.  `values` holds the one value of a predicate or its list.   *)

Equal(x, y) ==
  IF IsOrdinal(x) /\ IsOrdinal(y) THEN Quantity(x) = Quantity(y) ELSE x = y

(* x < y where Python orders the two; elsewhere it raises TypeError. *)
IsComparable(x, y) ==
  (IsOrdinal(x) /\ IsOrdinal(y)) \/ (x.kind = "text" /\ y.kind = "text")
Less(x, y) ==
  IF x.kind = "text" THEN TextLess(x.v, y.v) ELSE Quantity(x) < Quantity(y)

HasSubtext(x, y) ==
  /\ x.kind = "text" /\ y.kind = "text"
  /\ \E n \in 0..(Len(x.v) - Len(y.v)) : SubSeq(x.v, n + 1, n + Len(y.v)) = y.v

IsIn(x, values) == \E y \in ToSet(values) : Equal(x, y)

Compares(x, op, y) ==
  /\ IsComparable(x, y)
  /\ \/ op \in {"lt", "lte"} /\ Less(x, y)
     \/ op \in {"gt", "gte"} /\ Less(y, x)
     \/ op \in {"lte", "gte"} /\ Equal(x, y)

Matches(record, predicate) ==
  LET actual == FieldValue(record, predicate.field)
      op == predicate.op
      values == predicate.values
  IN CASE op = "is_null"  -> IsAbsent(actual)
       [] op = "not_null" -> ~IsAbsent(actual)
       [] OTHER ->
            /\ actual # MISSING
            /\ CASE op \in {"eq", "in"}     -> IsIn(actual, values)
                 [] op \in {"ne", "not_in"} -> ~IsIn(actual, values)
                 [] op = "contains"         -> HasSubtext(actual, values[1])
                 [] op = "not_contains"     -> ~HasSubtext(actual, values[1])
                 [] OTHER                   -> Compares(actual, op, values[1])

Keeps(record, predicates, match) ==
  IF match = "all"
  THEN \A p \in ToSet(predicates) : Matches(record, p)
  ELSE \E p \in ToSet(predicates) : Matches(record, p)
Filter(records, predicates, match) ==
  Those(records, {i \in DOMAIN records : Keeps(records[i], predicates, match)})

Projected(record, fields) ==
  [f \in ToSet(fields) \cap DOMAIN record |-> record[f]]
Select(records, fields) ==
  [i \in DOMAIN records |-> Projected(records[i], fields)]
-----------------------------------------------------------------------------
(* The formats of the requests (core/execution.py); nothing is sent to a   *)
(* Worker that they refuse.  Bounds on the lengths of lists are left out.  *)

OutputsOf(items) == [i \in DOMAIN items |-> items[i].output]
Arithmetic == {"add", "subtract", "multiply", "divide"}

IsPredicate(p) ==
  CASE p.op \in {"is_null", "not_null"} -> p.values = <<>>
    [] p.op \in {"in", "not_in"}        -> TRUE
    [] OTHER                            -> Len(p.values) = 1
IsAggregation(a) == a.op # "count" => a.field # NoField

IsFilterRequest(predicates) ==
  predicates # <<>> /\ \A p \in ToSet(predicates) : IsPredicate(p)
IsSelectRequest(fields) == fields # <<>> /\ IsInjective(fields)
IsDeriveRequest(derivations) ==
  derivations # <<>> /\ IsInjective(OutputsOf(derivations))
IsAggregateRequest(aggregations, by) ==
  /\ aggregations # <<>> /\ \A a \in ToSet(aggregations) : IsAggregation(a)
  /\ IsInjective(OutputsOf(aggregations)) /\ IsInjective(by)
  /\ Range(OutputsOf(aggregations)) \cap ToSet(by) = {}
IsTopKRequest(order, limit) == order # <<>> /\ limit \in 1..10000
-----------------------------------------------------------------------------
(* Arithmetic: a sum, difference or product of integers is an integer,     *)
(* anything else a float.                                                  *)

Integral(x, y) == x.kind = "int" /\ y.kind = "int"
Add(x, y) == IF Integral(x, y) THEN Number(x.v[1] + y.v[1])
             ELSE Tenths(Quantity(x) + Quantity(y))
Subtract(x, y) == IF Integral(x, y) THEN Number(x.v[1] - y.v[1])
                  ELSE Tenths(Quantity(x) - Quantity(y))
Multiply(x, y) == IF Integral(x, y) THEN Number(x.v[1] * y.v[1])
                  ELSE Tenths((Quantity(x) * Quantity(y)) \div 10)
Divide(x, y) ==
  LET q == (10 * Magnitude(Quantity(x))) \div Magnitude(Quantity(y))
  IN Tenths(IF (Quantity(x) < 0) = (Quantity(y) < 0) THEN q ELSE -q)

Compute(op, x, y) ==
  IF ~IsNumber(x) \/ ~IsNumber(y) \/ (op = "divide" /\ Quantity(y) = 0)
  THEN FAILED
  ELSE CASE op = "add"      -> Add(x, y)
         [] op = "subtract" -> Subtract(x, y)
         [] op = "multiply" -> Multiply(x, y)
         [] op = "divide"   -> Divide(x, y)

(* A derivation reads the outputs of the ones before it; what it writes    *)
(* replaces a field of that name.                                          *)
DeriveOne(record, d) ==
  [f \in DOMAIN record \cup {d.output} |->
     IF f = d.output
     THEN Compute(d.op, FieldValue(record, d.left), FieldValue(record, d.right))
     ELSE record[f]]
DeriveAll(record, derivations) ==
  LET after[n \in 0..Len(derivations)] ==
        IF n = 0 THEN record ELSE DeriveOne(after[n - 1], derivations[n])
  IN after[Len(derivations)]
Derive(records, derivations) ==
  [i \in DOMAIN records |-> DeriveAll(records[i], derivations)]

(* One record that cannot be computed fails the whole operator (outputs    *)
(* are unique, so no later derivation hides the failed one).               *)
HasFailed(records) ==
  \E i \in DOMAIN records : FAILED \in Range(records[i])
-----------------------------------------------------------------------------
(* Aggregation. *)

Extreme(values, Beats(_, _)) ==
  IF \E i, j \in DOMAIN values : ~IsComparable(values[i], values[j])
  THEN FAILED
  ELSE values[CHOOSE i \in DOMAIN values :
                \A j \in DOMAIN values :
                   /\ ~Beats(values[j], values[i])
                   /\ j < i => Beats(values[i], values[j])]

Total(values) ==
  LET upto[n \in 0..Len(values)] ==
        IF n = 0 THEN Number(0) ELSE Add(upto[n - 1], values[n])
  IN IF \E i \in DOMAIN values : ~IsNumber(values[i]) THEN FAILED
     ELSE upto[Len(values)]

AggregateValues(records, a) ==
  LET all == [i \in DOMAIN records |-> FieldValue(records[i], a.field)]
      values == Those(all, {i \in DOMAIN all : ~IsAbsent(all[i])})
  IN CASE a.op = "count" /\ a.field = NoField -> Number(Len(records))
       [] a.op = "count" /\ a.field # NoField -> Number(Len(values))
       [] a.op = "count_distinct" ->
            Number(Cardinality({JsonValue(x) : x \in ToSet(values)}))
       [] OTHER ->
            IF values = <<>> THEN Null
            ELSE CASE a.op = "sum"  -> Total(values)
                   [] a.op = "mean" -> LET t == Total(values) IN
                        IF t = FAILED THEN FAILED ELSE Divide(t, Number(Len(values)))
                   [] a.op = "min"  -> Extreme(values, Less)
                   [] a.op = "max"  -> Extreme(values, LAMBDA x, y : Less(y, x))

(* Records are grouped by the JSON texts of their group values; a missing  *)
(* value counts as null.                                                   *)
GroupValue(record, field) ==
  IF FieldValue(record, field) = MISSING THEN Null ELSE FieldValue(record, field)

\* Bug variant: keyed by the Python values, of which 1, 1.0 and True are equal.
GroupKeyBug(record, by) ==
  [i \in DOMAIN by |->
     LET x == GroupValue(record, by[i])
     IN JsonValue(IF IsOrdinal(x) THEN Tenths(Quantity(x)) ELSE x)]

GroupKey(record, by) ==
  [i \in DOMAIN by |-> JsonValue(GroupValue(record, by[i]))]

GroupMembers(records, by, key) ==
  Those(records, {i \in DOMAIN records : GroupKey(records[i], by) = key})

(* One item per group, in the order of the keys; without `by` there is     *)
(* always one.  An item shows the group values of its first record.        *)
Aggregate(records, aggregations, by) ==
  LET keys == IF by = <<>> THEN {<<>>}
              ELSE {GroupKey(r, by) : r \in ToSet(records)}
      outputs == {a.output : a \in ToSet(aggregations)}
      Members(key) == GroupMembers(records, by, key)
      Item(key) ==
        [f \in outputs \cup ToSet(by) |->
           IF f \in outputs
           THEN AggregateValues(Members(key), CHOOSE a \in ToSet(aggregations) : a.output = f)
           ELSE GroupValue(Members(key)[1], f)]
      ordered == Sorted(keys, {p \in keys \X keys : TupleLess(p[1], p[2])})
  IN [i \in DOMAIN ordered |-> Item(ordered[i])]
-----------------------------------------------------------------------------
(* Ordering. *)

Sgn(less, greater) == IF less THEN -1 ELSE IF greater THEN 1 ELSE 0
CompareTexts(s, t) == Sgn(TextLess(s, t), TextLess(t, s))

CompareKinds(x, y) ==
  IF (IsNumber(x) /\ IsNumber(y)) \/ (x.kind = y.kind /\ x.kind \in {"text", "bool"})
  THEN Sgn(Less(x, y), Less(y, x))
  ELSE CompareTexts(JsonValue(x), JsonValue(y))

(* `nulls` places absent values whatever the direction. *)
CompareValues(x, y, sort) ==
  IF IsAbsent(x) \/ IsAbsent(y)
  THEN IF IsAbsent(x) /\ IsAbsent(y) THEN 0
       ELSE IF IsAbsent(x) = (sort.nulls = "first") THEN -1 ELSE 1
  ELSE IF sort.direction = "ascending" THEN CompareKinds(x, y)
       ELSE -CompareKinds(x, y)

(* The first criterion that tells two records apart decides, else their    *)
(* JSON texts do; equal texts stay in their order.                         *)
CompareRecords(r, s, order) ==
  LET C(i) == CompareValues(FieldValue(r, order[i].field),
                            FieldValue(s, order[i].field), order[i])
      deciding == {i \in DOMAIN order : C(i) # 0}
  IN IF deciding # {} THEN C(Min(deciding))
     ELSE CompareTexts(JsonRecord(r), JsonRecord(s))

Precedes(records, order, i, j) ==
  LET c == CompareRecords(records[i], records[j], order) IN c < 0 \/ (c = 0 /\ i < j)
Precedence(records, order) ==
  {p \in (DOMAIN records) \X (DOMAIN records) : Precedes(records, order, p[1], p[2])}

TopK(records, order, limit) ==
  LET sorted == Sorted(DOMAIN records, Precedence(records, order))
  IN [n \in 1..(IF limit < Len(records) THEN limit ELSE Len(records)) |-> records[sorted[n]]]
==============================================================================
