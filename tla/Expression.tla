----------------------------- MODULE Expression -----------------------------
(***************************************************************************)
(* evalSExpr, the second source's evaluator of expression trees, and       *)
(* serializeValue (sections 3 and 4 of verify-v-engine.mjs).               *)
(*                                                                         *)
(* A value is a record with its JavaScript kind.  A string has a name, the *)
(* Unicode form it is written in, the date and the number it reads as;     *)
(* which string includes which is given.  A tree is a literal, an array, a *)
(* field of the context (paths have one part), a variable, of which only   *)
(* "$" is known, or a node with its operator and operands.                 *)
(***************************************************************************)
EXTENDS FixedPoint, Calendar, SequencesExt

CONSTANTS
    Includes,   \* the pairs of names of which the first includes the second
    TextOf(_)   \* the name of the text String makes of a value that is none

Undefined == [kind |-> "undefined"]
Null      == [kind |-> "null"]
Unknown   == [kind |-> "unknown"]
Exception == [kind |-> "throws"]  \* the evaluation ends in an exception
Bool(b)   == [kind |-> "boolean", is |-> b]
Num(d, e) == [kind |-> "number", digits |-> d, exp |-> e]
Array(s, at) == [kind |-> "array", items |-> s, at |-> at]
Instant(t)   == [kind |-> "date", time |-> t]

Absent(v)   == v.kind \in {"undefined", "null"}
IsNumber(v) == v.kind \in {"number", "rat"}
AsRat(v)    == IF v.kind = "number" THEN FromNumber(v) ELSE v

\* Neither the symbol nor a list with it becomes a number, or the list a text:
\* the conversion throws.
HasSymbol(v) == v.kind = "array" /\ \E i \in DOMAIN v.items : v.items[i].kind = "unknown"

OrNull(found, Made(_)) ==
    IF found = {} THEN Null ELSE Made(CHOOSE x \in found : TRUE)

-----------------------------------------------------------------------------
(***************************************************************************)
(* Arithmetic.  The operands are exact until the result is written.        *)
(***************************************************************************)
\* Mutant: the accumulator is rounded after every operand.
AccumulateRounding(op, vals) ==
    LET cut(r) == Norm(RoundToInt(Mul(r, FromInt(10^Scale))).num, 10^Scale)
    IN  IF op = "mul"
        THEN FoldLeft(LAMBDA acc, v : cut(Mul(acc, AsRat(v))), FromInt(1), vals)
        ELSE FoldLeft(LAMBDA acc, v : cut(Add(acc, AsRat(v))), FromInt(0), vals)

Accumulate(op, vals) ==
    IF op = "mul"
    THEN FoldLeft(LAMBDA acc, v : Mul(acc, AsRat(v)), FromInt(1), vals)
    ELSE FoldLeft(LAMBDA acc, v : Add(acc, AsRat(v)), FromInt(0), vals)

Arithmetic(op, vals) ==
    IF op \in {"sub", "div"} /\ Len(vals) # 2 THEN Null
    ELSE IF \E i \in DOMAIN vals : Absent(vals[i]) THEN Unknown
    ELSE IF \E i \in DOMAIN vals : ~IsNumber(vals[i]) THEN Null
    ELSE CASE op \in {"add", "mul"} -> Accumulate(op, vals)
           [] op = "sub"   -> Sub(AsRat(vals[1]), AsRat(vals[2]))
           [] op = "div"   -> IF AsRat(vals[2]).num = 0 THEN Null
                              ELSE Div(AsRat(vals[1]), AsRat(vals[2]))
           [] op = "round" -> RoundToInt(AsRat(vals[1]))

Extremum(op, items) ==
    LET better(m, r) == IF op = "min" THEN Less(r, m) ELSE Less(m, r)
    IN  FoldLeft(LAMBDA m, v : IF better(m, AsRat(v)) THEN AsRat(v) ELSE m,
                 AsRat(items[1]), items)

Aggregate(op, over) ==
    IF over.kind # "array" THEN Null
    ELSE IF op = "count" THEN Num(Len(over.items), 0)
    ELSE IF \E i \in DOMAIN over.items : ~IsNumber(over.items[i]) THEN Null
    ELSE IF op = "sum" THEN Accumulate("add", over.items)
    ELSE IF over.items = <<>> THEN Unknown
    ELSE IF op = "avg" THEN Div(Accumulate("add", over.items), FromInt(Len(over.items)))
    ELSE Extremum(op, over.items)

-----------------------------------------------------------------------------
(***************************************************************************)
(* Comparison, membership, presence, quantifiers.                          *)
(***************************************************************************)
\* typeof; the only symbol is unknown.
TypeOf(v) == IF v.kind \in {"rat", "date", "array", "null", "object"} THEN "object" ELSE v.kind

\* ===, after the strings were put in one Unicode form; an object is only
\* identical to itself, and an array read twice from a field is itself.
Same(l, r) ==
    /\ l.kind = r.kind
    /\ CASE l.kind = "string" -> l.name = r.name
         [] l.kind = "array"  -> l.at # "fresh" /\ l.at = r.at
         [] l.kind \in {"rat", "date"} -> FALSE
         [] OTHER -> l = r

\* Mutant: !== without a look at the types.
CompareOthersLoose(op, l, r) ==
    Bool(IF op = "eq" THEN Same(l, r) ELSE IF op = "ne" THEN ~Same(l, r) ELSE FALSE)

\* Operands that are not both numbers.
CompareOthers(op, l, r) ==
    IF op \notin {"eq", "ne"} THEN Bool(FALSE)
    ELSE IF TypeOf(l) # TypeOf(r) THEN Unknown
    ELSE Bool((op = "eq") <=> Same(l, r))

CompareNumbers(op, l, r) ==
    Bool(CASE op = "eq"  -> ~Less(l, r) /\ ~Less(r, l)
           [] op = "ne"  -> Less(l, r) \/ Less(r, l)
           [] op = "gt"  -> Less(r, l)
           [] op = "gte" -> ~Less(l, r)
           [] op = "lt"  -> Less(l, r)
           [] op = "lte" -> ~Less(r, l))

Compare(op, l, r) ==
    IF Absent(l) /\ Absent(r) THEN Bool(op = "eq")
    ELSE IF Absent(l) THEN Unknown
    ELSE IF Absent(r) THEN Bool(op = "ne")
    ELSE IF IsNumber(l) /\ IsNumber(r) THEN CompareNumbers(op, AsRat(l), AsRat(r))
    ELSE CompareOthers(op, l, r)

\* Elements of a list are compared as they are: a fraction equals none.
In(l, r) == Bool(/\ r.kind = "array"
                 /\ \E i \in DOMAIN r.items : Same(l, r.items[i]))

\* A left operand that is no string is turned into one.
ContainsText(l, r) ==
    IF r.kind # "string" THEN Bool(FALSE)
    ELSE IF HasSymbol(l) THEN Exception
    ELSE Bool(<<IF l.kind = "string" THEN l.name ELSE TextOf(l), r.name>> \in Includes)

\* Predicates are not evaluated, each counts as false.
FoldQuantifier(op, over) ==
    IF over.kind # "array" THEN Bool(FALSE)
    ELSE IF over.items = <<>> THEN Unknown
    ELSE Bool(op = "none")

-----------------------------------------------------------------------------
(***************************************************************************)
(* Time.  Only strings are read as dates.                                  *)
(***************************************************************************)
DateText(v) == IF v.kind = "string" THEN v.date ELSE [form |-> "other"]

Integral(v) ==
    IF v.kind = "number" /\ FromNumber(v).den = 1 THEN {FromNumber(v).num} ELSE {}

\* Number(v), if it is an integer.  A date is its milliseconds; a list is what
\* the text of its only item reads as, zero when there is none.
IntegerOf(v) ==
    CASE v.kind = "number"  -> Integral(v)
      [] v.kind = "string"  -> Integral(v.reads)
      [] v.kind = "null"    -> {0}
      [] v.kind = "boolean" -> {IF v.is THEN 1 ELSE 0}
      [] v.kind = "date"    -> {v.time * 60000}
      [] v.kind = "array" /\ Len(v.items) = 0 -> {0}
      [] v.kind = "array" /\ Len(v.items) = 1 ->
             LET item == v.items[1]
             IN  IF Absent(item) THEN {0}
                 ELSE Integral(IF item.kind = "string" THEN item.reads ELSE item)
      [] OTHER -> {}

Time(tree, vals) ==
    LET number(n) == Num(n, 0)
    IN  CASE tree.op = "days_between" ->
                 OrNull(DaysBetween(DateText(vals[1]), DateText(vals[2])), number)
          [] tree.op = "epoch_ms"  -> OrNull(ParseIso(DateText(vals[1])), number)
          [] tree.op = "date_part" ->
                 OrNull(DatePart(tree.unit, DateText(vals[1])), number)
          [] tree.op = "month_last_day" ->
                 OrNull(MonthLastDay(DateText(vals[1])), Instant)
          [] tree.op = "date_add" ->
                 IF /\ ParseIso(DateText(vals[1])) # {}
                    /\ vals[2].kind = "unknown" \/ HasSymbol(vals[2])
                 THEN Exception
                 ELSE OrNull(DateAdd(tree.unit, DateText(vals[1]), IntegerOf(vals[2])),
                             Instant)

-----------------------------------------------------------------------------
ArithmeticOps == {"add", "sub", "mul", "div", "round"}
AggregateOps  == {"count", "sum", "min", "max", "avg"}
CompareOps    == {"eq", "ne", "gt", "gte", "lt", "lte"}
QuantifierOps == {"all", "any", "none"}
TimeOps       == {"days_between", "epoch_ms", "date_add", "date_part", "month_last_day"}

Throwing(vals) == \E i \in DOMAIN vals : vals[i].kind = "throws"

Apply(tree, vals) ==
    IF Throwing(vals) THEN Exception
    ELSE CASE tree.op \in ArithmeticOps -> Arithmetic(tree.op, vals)
           [] tree.op \in AggregateOps  -> Aggregate(tree.op, vals[1])
           [] tree.op \in CompareOps    -> Compare(tree.op, vals[1], vals[2])
           [] tree.op \in QuantifierOps -> FoldQuantifier(tree.op, vals[1])
           [] tree.op \in TimeOps       -> Time(tree, vals)
           [] tree.op = "in"       -> In(vals[1], vals[2])
           [] tree.op = "contains" -> ContainsText(vals[1], vals[2])
           [] tree.op = "exists"   -> Bool(~Absent(vals[1]))
           [] OTHER -> Null

\* One call of evalSExpr; vals is what its calls for the operands return.
EvalSExpr(tree, ctx, vals) ==
    CASE tree.kind = "literal" -> tree.value
      [] tree.kind = "field"   -> IF tree.name \in DOMAIN ctx THEN ctx[tree.name]
                                  ELSE Undefined
      [] tree.kind = "var"     -> IF tree.name = "$" THEN [kind |-> "object"]
                                  ELSE Undefined
      [] tree.kind = "array"   -> IF Throwing(vals) THEN Exception ELSE Array(vals, "fresh")
      [] tree.kind = "node"    -> Apply(tree, vals)

\* value and type of the result, the value as a tuple.
SerializeValue(v) ==
    CASE v.kind = "unknown" -> [type |-> "unknown", value |-> <<>>]
      [] v.kind = "boolean" -> [type |-> "boolean", value |-> <<v.is>>]
      [] v.kind = "number"  -> [type |-> "number", value |-> JsString(v)]
      [] v.kind = "string"  -> [type |-> "string", value |-> <<v.name, v.form>>]
      [] v.kind = "date"    -> [type |-> "string", value |-> <<"iso", "instant", v.time>>]
      [] v.kind = "rat"     ->
             [type |-> "number",
              value |-> IF v.den = 1 THEN Text(v.num < 0, Abs(v.num), 0, 0)
                                     ELSE ToDecimalString(v, Scale)]
      [] OTHER -> [type |-> "boolean", value |-> <<FALSE>>]
=============================================================================
