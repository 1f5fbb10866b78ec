------------------------------ MODULE MCPackets ------------------------------
(***************************************************************************)
(* What is done with symbolic packets, each in behaviours of its own: a    *)
(* switch splits them, the parser reads expressions, functions are         *)
(* applied, message specifications are checked, and networks with such      *)
(* expressions are saved and opened.                                       *)
(***************************************************************************)
EXTENDS SwitchSplit, PacketExpressions, PacketFunctions, MessageSpecs, SavedNetworks

CONSTANTS a, b, ab

VARIABLE part

PairOf(e, i) == [k \in {"type", "dst"} |-> IF k = "type" THEN e ELSE i]
Is(vs) == Enum(vs, FALSE)
IsNot(vs) == Enum(vs, TRUE)
------------------------------------------------------------------------------
(* A switch: packets with an enumeration and an interval, or a field that   *)
(* may be anything, and switching functions of up to two packets with one   *)
(* or both keys, of another kind, or with a key that the packet has not.    *)

Enums == {Is(vs) : vs \in (SUBSET {a, b}) \ {{}}} \cup {IsNot(vs) : vs \in SUBSET {a, b}}

Intervals == {Interval(i, j) : i, j \in 0 .. 3} \cap {f \in [kind : {"interval"}, min : 0 .. 3, max : 0 .. 3] : Valid(f)}

MCPackets == {PairOf(e, i) : e \in Enums, i \in Intervals}
             \cup {PairOf(AnyField, Interval(0, 3)), PairOf(IsNot({a}), AnyField),
                   PairOf(Is({a, b}), Interval(-2, 2))}

MCConditions == {PairOf(e, i) : e \in {Is({a}), IsNot({b})},
                                i \in {Interval(0, 2), Interval(1, 2), Interval(2, 3)}}
                \cup {[k \in {"type"} |-> Is({a, b})]}
                \cup {[k \in {"dst"} |-> Interval(1, 3)]}
                \cup {[dst |-> Is({a})], PairOf(Is({b}), AnyField), [src |-> Is({a})]}

MCSwitches == {F \in SUBSET MCConditions : Cardinality(F) <= 2}
------------------------------------------------------------------------------
(* Functions of up to three parts: conditions that overlap, on one field or *)
(* both; sums and differences, of one field twice too; substitutions with   *)
(* and without a rest.                                                      *)

MCEnumerations == {{a}}
MCSigned == -1 .. 2

MCNumbers == {Constant(1), Field("dst"), Operation("+", Field("dst"), Constant(1)),
            Operation("-", Field("dst"), Constant(1)),
            Operation("-", Constant(1), Field("dst")),
            Operation("-", Operation("-", Field("dst"), Constant(2)), Field("dst")),
            Operation("+", Field("dst"), Field("dst")),
            Operation("-", Constant(1), Operation("+", Field("dst"), Constant(2))),
            Operation("-", Operation("+", Field("dst"), Field("dst")), Field("dst")),
            Operation("*", Field("dst"), Constant(2))}

Names == {Field("type"), With(Field("type"), a :> b @@ b :> a),
          With(Field("type"), a :> b), With(Field("type"), a :> a @@ "_" :> b)}

Copy == [type |-> Field("type"), dst |-> Field("dst")]

Assignments == [type : Names, dst : {Field("dst")}] \cup [type : {Field("type")}, dst : MCNumbers]
IllTyped == [dst : {Field("type"), Operation("+", Field("type"), Constant(1)), Field("src")}]

Ifs == {{[type |-> Is({a})]}, {[dst |-> Interval(1, 2)]},
        {[type |-> Is({a})], [dst |-> Interval(1, 2)]},
        {PairOf(IsNot({a}), Interval(0, 1)), [dst |-> Interval(0, 2)]},
        {[src |-> Interval(0, 1)]}, {[dst |-> Is({a})]}}

MCFunctions ==
    {<<Clause({}, fs)>> : fs \in [type : Names, dst : MCNumbers] \cup IllTyped}
    \cup {<<Clause(c, fs), Clause({}, Copy)>> : c \in Ifs, fs \in Assignments}
    \cup {<<Clause(c, Copy), Clause(d, [Copy EXCEPT !.type = With(@, a :> b)]),
            Clause({}, [Copy EXCEPT !.dst = Operation("+", @, Constant(1))])>> : c, d \in Ifs}

Wide == {Interval(0, 1), Interval(1, 3)}

MCPacketSets ==
    {{PairOf(e, i)} : e \in {Is({a}), Is({a, b}), IsNot({a})},
                      i \in {Interval(0, 3), Interval(2, 3)} \cup Wide}
    \cup {{PairOf(Is({a}), i), PairOf(Is({b}), j)} : i, j \in Wide}
------------------------------------------------------------------------------
(* Specifications: source "s" leads to a switch, whose output a is copied   *)
(* to sink x and, through a function, to sink y, which also gets output b.  *)
(* What comes from source "t" goes around until it is an a or beyond 2.     *)

MCChannels == {"s", "s1", "copied", "x", "y1", "y2", "plain", "y", "t", "t1", "t2", "turned", "back",
               "z"}

MCComponents == {"queue", "switch", "fork", "function", "merge", "sinkx", "sinky",
                 "again", "queue2", "choose", "turn", "sinkz"}

MCKind == [c \in MCComponents |->
    CASE c \in {"queue", "queue2"} -> "queue"
      [] c \in {"switch", "choose"} -> "switch"
      [] c = "fork" -> "fork"
      [] c \in {"function", "turn"} -> "function"
      [] c \in {"merge", "again"} -> "merge"
      [] c \in {"sinkx", "sinky", "sinkz"} -> "sink"]

MCInputs == [queue |-> <<"s">>, switch |-> <<"s1">>, fork |-> <<"copied">>,
             function |-> <<"y1">>, merge |-> <<"y2", "plain">>, sinkx |-> <<"x">>,
             sinky |-> <<"y">>, again |-> <<"t", "back">>, queue2 |-> <<"t1">>,
             choose |-> <<"t2">>, turn |-> <<"turned">>, sinkz |-> <<"z">>]

MCOutputs == [queue |-> <<"s1">>, switch |-> <<"copied", "plain">>, fork |-> <<"x", "y1">>,
              function |-> <<"y2">>, merge |-> <<"y">>, sinkx |-> <<>>, sinky |-> <<>>,
              again |-> <<"t1">>, queue2 |-> <<"t2">>, choose |-> <<"z", "turned">>,
              turn |-> <<"back">>, sinkz |-> <<>>]

MCSwitchFunction == [c \in {"switch", "choose"} |->
    IF c = "switch" THEN {[type |-> Is({a})], [dst |-> Interval(1, 2)]}
    ELSE {[type |-> Is({a})], [dst |-> Interval(2, 3)]}]

MCEmitted == [o \in MCChannels |-> {}]

\* "type := type, dst := 0", and "type := b, dst := dst".
MCApplied(c, ps) ==
    IF c = "function" THEN {PairOf(p.type, Interval(0, 1)) : p \in ps}
    ELSE {PairOf(Is({b}), p.dst) : p \in ps}

MCThrows(c, ps) == FALSE

MCMadeOf(c, x) == {IF c = "function" THEN [x EXCEPT !.dst = 0] ELSE [x EXCEPT !.type = b]}

Item(o, ps, spec) == [from |-> o, packets |-> ps, spec |-> spec]

Anything == PairOf(Is({a, b}), Interval(0, 3))
Small == {PairOf(e, i) : e \in {Is({a}), Is({b}), Is({a, b})}, i \in {Interval(0, 1), Interval(1, 2), Interval(0, 3)}}

\* What is said of a packet of type a with destination 0 or 1 at "s".
One(i) == PairOf(Is({a}), i)
Saids(i) == LET atX == End("sinkx", {One(i)})
                atY == End("sinky", {PairOf(Is({a}), Interval(0, 1))})
            IN  {AndSpec(atX, atY), AndSpec(atY, atX), OrSpec(atX, atY), atX,
                 Said(EndLookup("sinkx", {One(i)}),
                     <<[op |-> "and", end |-> EndLookup("sinky", {PairOf(Is({a}), Interval(0, 1))})],
                       [op |-> "or", end |-> EndLookup("sinkz", {One(i)})]>>)}

MCItems ==
    {Item(o, {p}, Null) : o \in {"s", "t"}, p \in Small}
    \cup {Item(o, {p, q}, Null) : o \in {"s", "t"}, p \in {Anything}, q \in Small}
    \cup {Item("s", {}, Null)}
    \cup UNION {{Item("s", {One(i)}, f) : f \in Saids(i)} : i \in {Interval(0, 1)}}

MCItemSets ==
    {{i} : i \in MCItems}
    \cup {{i, j} : i \in {k \in MCItems : k.spec # Null}, j \in MCItems}
------------------------------------------------------------------------------
(* Networks that are saved: one with a switch, a function and a join, where *)
(* both ways out of the switch come together again; one with a composite,   *)
(* whose sink and source are required.                                      *)

MCWords == {a, b} :> ab

ByDst(i) == [dst |-> i]
MCExpressions ==
    {{PairOf(Is({a}), Interval(0, 2))}, {ByDst(Interval(1, 2)), PairOf(Is({b}), Interval(2, 3))},
     {PairOf(Is({a, b}), Interval(0, 3))}, {PairOf(IsNot({b}), Interval(1, 3))}, {[type |-> IsNot({})]},
     {PairOf(AnyField, Interval(0, 1))}, {ByDst(Interval(-1, 2))}, {}}

MCSaved == {<<>>, <<Clause({}, Copy)>>,
            <<Clause({[type |-> Is({a})]}, [Copy EXCEPT !.dst = Constant(1)]), Clause({}, Copy)>>}

KindsA == [s |-> "source", w |-> "xswitch", g |-> "function", j |-> "join", e |-> "sink"]
WiresA == {<<<<"s", 1>>, <<"w", 1>>>>, <<<<"w", 1>>, <<"g", 1>>>>, <<<<"g", 1>>, <<"j", 1>>>>,
           <<<<"w", 2>>, <<"j", 2>>>>, <<<<"j", 1>>, <<"e", 1>>>>}
KindsB == [s |-> "source", q |-> "queue", f |-> "xfork", x |-> "composite", m |-> "merge", e |-> "sink"]
WiresB == {<<<<"s", 1>>, <<"q", 1>>>>, <<<<"q", 1>>, <<"f", 1>>>>, <<<<"f", 1>>, <<"x", 2>>>>,
           <<<<"f", 2>>, <<"x", 1>>>>, <<<<"x", 1>>, <<"m", 2>>>>, <<<<"m", 1>>, <<"e", 1>>>>}

MCReferences == {[id |-> c, in_port |-> i] : c \in {"j", "m"}, i \in {0, 1}}
                \cup {[id |-> c, in_port |-> 1] : c \in {"w", "q"}}

On(kinds, c, here, elsewhere) == [d \in DOMAIN kinds |-> IF d = c THEN here ELSE elsewhere]

MCDrawings ==
    {Drawing(KindsA, WiresA,
             [On(KindsA, "s", {ByDst(Interval(0, 2))}, {}) EXCEPT !.w = {[type |-> Is({a})]}],
             On(KindsA, "g", <<Clause({}, Copy)>>, <<>>), On(KindsA, "j", 1, 0), {},
             On(KindsA, "s", 107, 100)),
     Drawing(KindsB, WiresB, On(KindsB, "s", {ByDst(Interval(0, 2))}, {}),
             On(KindsB, "s", <<>>, <<>>), On(KindsB, "q", 2, 0), {"s", "e"},
             On(KindsB, "q", 108, 100))}
------------------------------------------------------------------------------
MCInit ==
    /\ part \in {"switch", "expression", "function", "specification", "saved"}
    /\ ExprInit
    /\ IF part = "switch" THEN SplitInit
       ELSE packet = Anything /\ todo = {} /\ seen = {} /\ outA = {} /\ outB = {packet}
    /\ IF part = "function" THEN FuncInit
       ELSE /\ function = <<>> /\ given = {} /\ doing = "clause" /\ conditions = {} /\ others = {}
            /\ own = {} /\ assignee = "" /\ code = <<>> /\ stack = <<>> /\ assigned = <<>>
            /\ result = {} /\ failed = FALSE /\ wraps = TRUE
            /\ waiting = {} /\ mine = {} /\ outcomes = <<>> /\ exact = TRUE
    /\ IF part = "specification" THEN SpecInit
       ELSE items = {} /\ formulas = <<>> /\ problems = 0
    /\ IF part = "saved" THEN SaveInit
       ELSE /\ drawn = <<>> /\ file = {} /\ opened = "no"
            /\ before = <<>> /\ edited = FALSE /\ edits = 0

MCNext ==
    \/ part = "switch" /\ SplitNext /\ UNCHANGED <<part, exprVars, funcVars, specVars, saveVars>>
    \/ part = "expression" /\ ExprNext /\ UNCHANGED <<part, splitVars, funcVars, specVars, saveVars>>
    \/ part = "function" /\ FuncNext /\ UNCHANGED <<part, splitVars, exprVars, specVars, saveVars>>
    \/ part = "specification" /\ SpecNext /\ UNCHANGED <<part, splitVars, exprVars, funcVars, saveVars>>
    \/ part = "saved" /\ SaveNext /\ UNCHANGED <<part, splitVars, exprVars, funcVars, specVars>>

MCSpec == MCInit /\ [][MCNext]_<<part, splitVars, exprVars, funcVars, specVars, saveVars>>
==============================================================================
