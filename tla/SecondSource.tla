---------------------------- MODULE SecondSource ----------------------------
(***************************************************************************)
(* One evaluation of the second source: a tree and a context come in, what *)
(* serializeValue makes of the result goes out.  The properties compare    *)
(* the result with definitions that do not follow the code.                *)
(***************************************************************************)
EXTENDS Expression

CONSTANTS
    Expressions,  \* the expression trees evaluated
    Contexts,     \* the contexts, functions from field names to values
    Eval(_, _),   \* what evalSExpr returns for a tree in a context
    Places        \* no number in Expressions has more decimal places

ValuesOf(t, c) == [i \in DOMAIN t.args |-> Eval(t.args[i], c)]

\* evalSExpr calls itself for the operands.
ASSUME EvalAssumption ==
    \A t \in Expressions, c \in Contexts : Eval(t, c) = EvalSExpr(t, c, ValuesOf(t, c))

\* A comparison and date_add have both operands.
ASSUME OperandsAssumption ==
    \A t \in Expressions :
        t.kind = "node" /\ t.op \in CompareOps \cup {"date_add"} =>
            {1, 2} \subseteq DOMAIN t.args

VARIABLES tree, ctx, out

evalVars == <<tree, ctx, out>>

NoOutput == [type |-> "none", value |-> <<>>]

EvalInit == tree \in Expressions /\ ctx \in Contexts /\ out = NoOutput

Result == Eval(tree, ctx)

Output == IF Result.kind = "throws" THEN [type |-> "throws", value |-> <<>>]
          ELSE SerializeValue(Result)

Evaluate ==
    /\ out = NoOutput
    /\ out' = Output
    /\ UNCHANGED <<tree, ctx>>

EvalSpec == EvalInit /\ [][Evaluate]_evalVars

-----------------------------------------------------------------------------
Done   == out # NoOutput
IsNode == tree.kind = "node"

\* The value of an operand that is no node itself.
Operand(i) == Eval(tree.args[i], ctx)
IsLeaf(t)  == t.kind \in {"literal", "field", "var"}

\* The values an arithmetic or aggregate node works on.
Items ==
    LET vals == ValuesOf(tree, ctx)
    IN  IF tree.op \notin AggregateOps THEN vals
        ELSE IF vals[1].kind = "array" THEN vals[1].items ELSE <<>>

IsArithmetic(numbers) ==
    /\ tree.op \in ArithmeticOps \cup (AggregateOps \ {"count"})
    /\ \A i \in DOMAIN tree.args : IsLeaf(tree.args[i])
    /\ numbers # <<>>
    /\ \A i \in DOMAIN numbers : numbers[i].kind = "number"
    /\ tree.op \in {"sub", "div"} => Len(numbers) = 2
    /\ tree.op = "div" => numbers[2].digits # 0

\* Numbers in units of 10^-Places.
Units(v) == v.digits * 10^(v.exp + Places)
Total(numbers) == FoldLeft(LAMBDA sum, v : sum + Units(v), 0, numbers)

\* The nearest integer to num / den, the even one of two.
Nearest(num, den) ==
    LET q == num \div den
        r == num % den
    IN  IF 2 * r < den THEN q ELSE IF 2 * r > den THEN q + 1 ELSE q + (q % 2)

\* The exact result as a fraction, computed on integers.
Exact(numbers) ==
    LET one  == 10^Places
        n    == Len(numbers)
        u(i) == Units(numbers[i])
    IN  CASE tree.op \in {"add", "sum"} -> <<Total(numbers), one>>
          [] tree.op = "avg"   -> <<Total(numbers), n * one>>
          [] tree.op = "sub"   -> <<u(1) - u(2), one>>
          [] tree.op = "round" -> <<u(1), one>>
          [] tree.op = "div"   -> <<IF u(2) < 0 THEN -u(1) ELSE u(1), Abs(u(2))>>
          [] tree.op = "mul"   ->
                 <<FoldLeft(LAMBDA p, v : p * Units(v), 1, numbers), one^n>>
          [] tree.op = "min"   -> <<CHOOSE m \in {u(i) : i \in 1..n} :
                                        \A i \in 1..n : m <= u(i), one>>
          [] tree.op = "max"   -> <<CHOOSE m \in {u(i) : i \in 1..n} :
                                        \A i \in 1..n : m >= u(i), one>>

\* A decimal text in units of 10^-Scale.
TextUnits(text) ==
    (IF text[2] THEN -1 ELSE 1) * (text[3] * 10^Scale + text[4] * 10^(Scale - text[5]))

-----------------------------------------------------------------------------
\* An arithmetic node or an aggregate over numbers gives the exact result,
\* rounded half to even once: nothing is rounded on the way, whatever the
\* order and the number of the operands, and extremes are those of the list
\* (ER5, verify-v-engine.mjs:42-92 and :183-195, :268-278).
RoundedOnce ==
    Done /\ IsNode =>
        \A numbers \in {Items} : IsArithmetic(numbers) =>
            /\ out.type = "number"
            /\ LET places == IF tree.op = "round" THEN 0 ELSE Scale
                   exact  == Exact(numbers)
               IN  TextUnits(out.value) =
                       Nearest(exact[1] * 10^places, exact[2]) * 10^(Scale - places)

\* What a value is: a number, literal or computed, a string, a truth value, a
\* date, a list, the context, or unknown.
Sort(v) == IF IsNumber(v) THEN "number" ELSE v.kind

\* Computed numbers, dates, lists and the context are objects of the program.
IsObject(v) == v.kind \in {"rat", "date", "array", "object"}

Mixed ==
    /\ Done /\ IsNode /\ tree.op \in CompareOps /\ ~Absent(Operand(2))
    /\ ~Absent(Operand(1)) => Sort(Operand(1)) # Sort(Operand(2))

Holds == out = [type |-> "boolean", value |-> <<TRUE>>]

\* A comparison never holds between a missing left operand and a value, and
\* eq and the orders never between values of different sorts, whatever nodes
\* computed them.  Neither does ne when one side is a text, a truth value, a
\* number as written or unknown (comments at verify-v-engine.mjs:202 and :223,
\* no fail-open).
NoFailOpen ==
    Mixed /\ ~(tree.op = "ne" /\ IsObject(Operand(1)) /\ IsObject(Operand(2))) => ~Holds

\* What the comment at verify-v-engine.mjs:223 says of all of them:
\* "type-mismatched comparison folds unknown (three-valued; no fail-open via
\* !==)".  A computed number, a list and a date are alike for typeof, and ne of
\* two of them is true.
NoMixedComparisonHolds == Mixed => ~Holds

\* Adding months or years lands in the month meant and never in the next
\* one: the day stays, or becomes the last of a shorter month; and years
\* are twelve months each (dateAdd, verify-v-engine.mjs:128-148).  Year 0 is
\* left out: Date.UTC takes it for 1900, so that its February has 28 days.
MonthsNeverRunOver ==
    /\ Done /\ IsNode /\ Result.kind = "date"
    /\ tree.op = "date_add" /\ tree.unit \in {"years", "months"}
    => \A t \in ParseIso(Operand(1).date), n \in IntegerOf(Operand(2)) :
           t \in Int /\ n \in Int /\ YearOf(Result.time) # 0 =>
               LandsInMonth(Result.time, t, IF tree.unit = "years" THEN 12 * n ELSE n)

\* What EXPRESSION-RUNNER-CONTRACT.md:68 says: all, any and none over an
\* empty array fold to false.
EmptyQuantifierIsFalse ==
    /\ Done /\ IsNode /\ tree.op \in QuantifierOps
    /\ Operand(1).kind = "array"
    /\ Operand(1).items = <<>>
    => out = [type |-> "boolean", value |-> <<FALSE>>]

\* What EXPRESSION-RUNNER-CONTRACT.md:72 says: a missing field collapses to
\* false where it is compared with a value.
MissingCollapsesToFalse ==
    /\ Done /\ IsNode /\ tree.op \in CompareOps
    /\ \E i, j \in {1, 2} : i # j /\ Operand(i) = Undefined /\ ~Absent(Operand(j))
    => out = [type |-> "boolean", value |-> <<FALSE>>]

\* What the comment at verify-v-engine.mjs:187 says: what is missing makes
\* the arithmetic above it unknown, at any depth.
MissingPropagates ==
    /\ Done /\ IsNode /\ tree.op \in {"add", "mul"}
    /\ \E i \in DOMAIN tree.args : Operand(i) \in {Undefined, Unknown}
    => out.type = "unknown"

\* What docs/OPENOBA-DOBJ-RFC-002-EN.md:64 asks of decimal strings: no
\* exponent, and, a number having one minimal text, no sign on zero.
NumbersAreCanonical ==
    Done /\ out.type = "number" =>
        /\ out.value[1] = "plain"
        /\ ~(out.value[2] /\ out.value[3] = 0 /\ out.value[4] = 0)

\* What the comment at verify-v-engine.mjs:96 says: dates are strict ISO
\* 8601, a text that names no day of the calendar is no date.
StrictIso ==
    /\ Done /\ IsNode /\ tree.op = "epoch_ms" /\ out.type = "number"
    => LET s == DateText(Operand(1))
       IN  /\ s.month \in 1..12
           /\ s.day \in 1..(DaysBefore(s.year, s.month) - DaysBefore(s.year, s.month - 1))
=============================================================================
