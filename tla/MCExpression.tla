---------------------------- MODULE MCExpression ----------------------------
(***************************************************************************)
(* An instance of ExpressionLayer with a vector of every kind; a second    *)
(* revision that differs in one tree and one vector, a third that does not *)
(* mark the limit; the reference engine and engines with a fault; and the  *)
(* second source on trees of its own.  They share no variable: one moves,  *)
(* the other stays.                                                        *)
(***************************************************************************)
EXTENDS ExpressionLayer, SecondSource

D(id, kind, t) == [id |-> id, kind |-> kind, tree |-> t, other |-> t,
                      simple |-> "none", table |-> "none", sensitive |-> FALSE, normal |-> FALSE]

Sum      == [D("add-001", "node", "sum") EXCEPT !.sensitive = TRUE, !.normal = TRUE]
Pair     == [D("and-001", "node", "and") EXCEPT !.normal = TRUE]
Half     == [D("E2-003", "constraint", "half") EXCEPT !.sensitive = TRUE]
Depth    == D("E4-002", "limit", "deep")
Both     == D("E5-001", "exclusive", "both")
OneOnly  == D("E5-002", "exclusive", "sum")
Simple   == [D("SIMPLE-eq", "compile", "none") EXCEPT !.simple = "eq"]
Rate     == D("SIMPLE-rate", "rate", "rate")
Within   == D("SIMPLE-within", "within", "and")
Gloss    == D("GLOSS-001", "gloss", "sum")
Integrity == [D("INTEGRITY-001", "integrity", "sum") EXCEPT !.other = "sum+1"]
Proj     == [D("PROJ-001", "projection", "eq") EXCEPT !.simple = "eq", !.table = "row"]
Written  == [D("PROJ-002", "projection", "eq") EXCEPT !.simple = "eq", !.other = "expr"]

MCRevisions ==
    LET common == {Half, Depth, Both, OneOnly, Rate, Within, Gloss, Integrity, Proj, Written}
    IN  {common \cup {Sum, Pair, Simple},
         common \cup {[Sum EXCEPT !.tree = "sum+1"], Pair},
         (common \ {Depth}) \cup {Sum, Pair, Simple, [Depth EXCEPT !.kind = "constraint"]}}

\* 2 is an exception, 9 the value of a vector that expects one.
MCTruth == [t \in {"sum", "sum+1", "and", "and!", "half", "deep", "both", "eq", "table", "expr",
                   "rate", "none"} |->
              CASE t \in {"sum+1", "and", "eq", "table", "expr"} -> 1
                [] t = "deep" -> 2
                [] OTHER -> 0]
MCTamper == [t \in DOMAIN MCTruth |->
               CASE t = "sum" -> "sum+1" [] t = "and" -> "and!" [] OTHER -> t]

MCReference == [eval |-> MCTruth,
                message |-> [t \in DOMAIN MCTruth |-> "over the limit"],
                gloss |-> [t \in DOMAIN MCTruth |-> IF t = "sum+1" THEN 4 ELSE 3],
                compile |-> [s \in {"eq", "none"} |-> "eq"],
                table |-> [t \in {"row"} |-> "table"]]

MCEngines == {MCReference,
    [MCReference EXCEPT !.eval["half"] = 1],      \* halves rounded up
    [MCReference EXCEPT !.eval["sum"] = 1],       \* sum and sum+1 alike
    [MCReference EXCEPT !.eval["deep"] = 0],      \* no limit on the depth
    [MCReference EXCEPT !.eval["table"] = 0],     \* decision tables differ
    [MCReference EXCEPT !.eval["and"] = 2],       \* an exception
    [MCReference EXCEPT !.compile["eq"] = "expr"],
    [MCReference EXCEPT !.table["row"] = "rate"], \* decision tables compile to something else
    [MCReference EXCEPT !.gloss["sum+1"] = 3],
    [MCReference EXCEPT !.eval = [t \in DOMAIN MCTruth |-> 0]],
    [MCReference EXCEPT !.eval = [t \in DOMAIN MCTruth |-> 2],   \* nothing implemented
                        !.message = [t \in DOMAIN MCTruth |-> t]]}

-----------------------------------------------------------------------------
(***************************************************************************)
(* SecondSource at Scale 2: numbers with up to three places (so that       *)
(* halves and what is just beside them occur), the values a context can    *)
(* hold, dates around the ends of months and leap years.                   *)
(***************************************************************************)
MCIncludes == {<<"cafe", "cafe">>, <<"cafe au lait", "cafe">>,
               <<"cafe au lait", "cafe au lait">>, <<"3", "3">>}
MCTextOf(v) == IF v = Num(3, 0) THEN "3" ELSE "another text"

NoDate == [form |-> "other"]
Str(n, f) == [kind |-> "string", name |-> n, form |-> f, date |-> NoDate,
              reads |-> IF n = "3" THEN Num(3, 0) ELSE Undefined]
Lit(v)    == [kind |-> "literal", value |-> v]
Field(n)  == [kind |-> "field", name |-> n]
Node(op, args) == [kind |-> "node", op |-> op, args |-> args]
List(args) == [kind |-> "array", args |-> args]
Timed(op, unit, args) == [kind |-> "node", op |-> op, unit |-> unit, args |-> args]

Numerals == {Num(0, 0), Num(1, 0), Num(3, 0), Num(-2, 0), Num(5, -1), Num(15, -1),
             Num(25, -1), Num(-25, -1), Num(5, -2), Num(5, -3), Num(15, -3),
             Num(-5, -3), Num(4, -3), Num(995, -3)}
NumberTrees == {Lit(v) : v \in Numerals}
Large == Lit(Num(12, 2))

MCContexts ==
    {[age |-> Num(3, 0), name |-> Str("cafe", "nfd"),
      nums |-> Array(<<Num(5, -3), Num(-25, -1), Num(1, 0)>>, "nums"),
      ones |-> Array(<<Num(1, 0), Num(15, -3), Num(15, -3)>>, "ones"),
      tied |-> Array(<<Num(5, -2), Num(0, 0), Num(-25, -1), Num(5, -3)>>, "tied"),
      mixed |-> Array(<<Num(1, 0), Null>>, "mixed"),
      items |-> Array(<<>>, "items")]}

Leaves ==
    {Lit(v) : v \in {Num(0, 0), Num(3, 0), Num(5, -3), Null, Bool(TRUE), Bool(FALSE),
                     Str("cafe", "nfc"), Str("cafe au lait", "nfc"), Str("3", "nfc")}}
      \cup {Field(n) : n \in {"age", "name", "missing", "items", "nums", "tied", "mixed"}}
      \cup {[kind |-> "var", name |-> n] : n \in {"$", "$.age"}}
      \cup {List(<<Lit(Str("cafe", "nfd")), Lit(Num(3, 0))>>)}

Binary == {"sub", "div", "add", "mul", "in", "contains"} \cup CompareOps
Unary  == {"round", "exists", "none", "all", "any"} \cup AggregateOps

Inner == {Node(op, <<l, r>>) : op \in {"add", "div"},
            l \in {Lit(Num(1, 0)), Field("missing")}, r \in {Lit(Num(0, 0)), Lit(Num(3, 0))}}

Flat == {Node(op, <<l, r>>) : op \in Binary, l \in Leaves, r \in Leaves}
    \cup {Node(op, <<l>>) : op \in Unary, l \in Leaves \cup NumberTrees}
    \cup {Node(op, <<l, r>>) : op \in {"add", "sub", "mul", "div"},
             l \in NumberTrees, r \in NumberTrees}
    \cup {Node("add", <<l, r, s>>) : l \in NumberTrees, r \in NumberTrees, s \in NumberTrees}
    \cup {Node("add", <<l, r>>) : l \in {Large}, r \in NumberTrees}
    \cup {Large, Node("round", <<Large>>), Field("ones")} \cup {Node(op, <<Field("ones")>>) : op \in AggregateOps}
Nested == {Node(op, <<l, r>>) : op \in Binary, l \in Inner, r \in Inner \cup Leaves}
    \cup {Node("round", <<l>>) : l \in Inner}

Day(y, m, d)         == [form |-> "date", year |-> y, month |-> m, day |-> d]
Moment(y, m, d, h, o) == [form |-> "datetime", year |-> y, month |-> m, day |-> d,
                          hour |-> h, minute |-> 30, second |-> 7, offset |-> o]
Midnight(y, m, d)    == [Moment(y, m, d, 24, 0) EXCEPT !.minute = 0, !.second = 0]
DateStr(s) == Lit([kind |-> "string", name |-> <<"date", s>>, form |-> "nfc", date |-> s,
                   reads |-> Undefined])

Days == {Day(2024, 2, 29), Day(2024, 1, 31), Day(2023, 2, 28), Day(2023, 12, 31),
         Day(2000, 2, 29), Day(1970, 1, 1), Day(1969, 12, 31)}
    \cup {Moment(2024, 3, 31, 23, 0), Moment(2026, 1, 1, 12, 480), Moment(2024, 2, 29, 2, -300),
            Midnight(2023, 12, 31)}
Odd  == {Day(2026, 2, 30), Day(2026, 13, 1), Day(2026, 6, 31), Day(50, 1, 15),
         Moment(2026, 13, 1, 0, 0), Moment(2026, 4, 31, 0, 0), Moment(2026, 1, 1, 24, 0)}
Amounts == {Lit(Num(n, 0)) : n \in {-13, -12, -4, -1, 0, 1, 2, 11, 12, 25, 48, 100}}
    \cup {Lit(Num(15, -1)), Lit(Null), Lit(Bool(TRUE)), Lit(Str("cafe", "nfc")),
          Lit(Str("3", "nfc")), Field("items"), Field("nums"),
          List(<<Lit(Num(1, 0))>>), List(<<Lit(Str("3", "nfc"))>>), List(<<Lit(Null)>>),
          List(<<Node("add", <<Field("missing"), Lit(Num(1, 0))>>)>>),
          Timed("date_add", "hours", <<DateStr(Day(1970, 1, 1)), Lit(Num(0, 0))>>),
          Node("add", <<Field("missing"), Lit(Num(1, 0))>>),
          Node("add", <<Lit(Num(1, 0)), Lit(Num(1, 0))>>)}

TimeTrees(texts) ==
    LET dates == {DateStr(s) : s \in texts}
    IN  {Timed("date_add", u, <<d, n>>) : u \in {"years", "months", "days", "hours"},
            d \in dates \cup {Field("name")}, n \in Amounts}
        \cup {Timed("date_part", u, <<d>>) : u \in {"year", "month", "day", "hour",
                 "minute", "second", "day_of_week"}, d \in dates \cup {Field("missing")}}
        \cup {Node(op, <<d>>) : op \in {"epoch_ms", "month_last_day"},
                 d \in dates \cup {Field("age")}}
        \cup {Node("days_between", <<d, e>>) : d \in dates, e \in dates}
        \cup {Node(op, <<Node("month_last_day", <<d>>), Node("month_last_day", <<e>>)>>) :
                 op \in {"eq", "ne"}, d \in dates, e \in dates}
        \cup {Node(op, <<Node("month_last_day", <<d>>), e>>) :
                 op \in CompareOps, d \in dates, e \in Inner \cup {Field("nums"), Lit(Num(1, 0))}}
        \cup {Node("contains", <<List(<<e>>), Lit(Str("3", "nfc"))>>) : e \in Inner}

MCTrees == Leaves \cup NumberTrees \cup Flat \cup Nested \cup TimeTrees(Days)
    \cup {Node("epoch_ms", <<DateStr(s)>>) : s \in Odd}

RECURSIVE MCEval(_, _)
MCEval(t, c) == EvalSExpr(t, c, [i \in DOMAIN t.args |-> MCEval(t.args[i], c)])

-----------------------------------------------------------------------------
VARIABLE part

MCInit ==
    /\ \/ part = "layer" /\ tree = Lit(Null)
       \/ /\ part = "second source"
          /\ source = CHOOSE r \in MCRevisions : TRUE
          /\ engine = MCReference
          /\ answers = None
    /\ Init /\ EvalInit

MCNext ==
    /\ UNCHANGED part
    /\ \/ part = "layer" /\ Next /\ UNCHANGED evalVars
       \/ part = "second source" /\ Evaluate /\ UNCHANGED vars

MCSpec == MCInit /\ [][MCNext]_<<part, vars, evalVars>>
=============================================================================
