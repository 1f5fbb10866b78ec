---------------------------- MODULE PacketFunctions ----------------------------
(***************************************************************************)
(* The functions of xmv/datamodel that a function component applies to     *)
(* packets ("if type in {req} then type := rsp, dst := dst + 1 else ..."): *)
(* parsed-xmas-function.cpp and the expressions of parse.cpp, on symbolic  *)
(* packets.  A function is a sequence of clauses, the parts after each     *)
(* "else"; the last one has no condition.  An expression is the sequence   *)
(* in which the operator() of its nodes return, operands first; what they  *)
(* return is on a stack, for each of the packets at hand.  Numbers have a  *)
(* width: MaxValue is the largest, MinValue the smallest.                  *)
(***************************************************************************)
EXTENDS SymbolicPackets, Sequences

CONSTANTS PacketFunctions,  \* sequences of [conditions, fields]
          PacketSets        \* the packets they are applied to

VARIABLES function,    \* the clauses that are left
          given,       \* the packets they are for
          doing,       \* "clause", "conditions", "fields" or "expression"
          conditions,  \* those of the first clause that are not looked at
          others,      \* next: what met none of the others yet
          own,         \* current: what met one
          assignee,    \* the field that is assigned
          code,        \* the nodes of its expression that have not returned
          stack,       \* what those returned that did
          assigned,    \* the fields of the clause that are done
          result,      \* the packets so far
          failed,      \* an exception was thrown
          wraps,       \* what the build makes of a difference that overflows
          waiting,     \* history: the values of packets that met no condition yet,
          mine,        \* those for which the first clause is,
          outcomes,    \* and what became of those that had theirs
          exact        \* history: no bound overflowed, no complement was substituted,
                       \* and conditions were on values of their kind

clauseVars == <<function, given, conditions, others, own>>
fieldVars == <<assignee, code, stack, assigned>>
saidVars == <<waiting, mine, outcomes, exact>>
funcVars == <<doing, clauseVars, fieldVars, result, failed, wraps, saidVars>>

\* What the parser makes of a function: expressions and clauses.
Field(k) == <<[op |-> "field", key |-> k]>>
Constant(n) == <<[op |-> "constant", value |-> n]>>
Operation(op, e, f) == e \o f \o <<[op |-> op]>>
With(e, map) == Append(e, [op |-> "with", map |-> map])
Clause(cs, fields) == [conditions |-> cs, fields |-> fields]

MinValue == -MaxValue - 1
Fits(n) == n \in MinValue .. MaxValue

\* Two's complement.
Wrapped(n) == ((n - MinValue) % (2 * (MaxValue + 1))) + MinValue
------------------------------------------------------------------------------
\* field.add(other), with f.min and f.max as "unbounded" when at the limit.
AddField(f, g) ==
    Interval(IF f.min > MinValue THEN Wrapped(f.min + g.min) ELSE f.min,
             IF f.max = MaxValue \/ Wrapped(MaxValue - f.max) < g.max THEN MaxValue
             ELSE Wrapped(f.max + g.max - 1))

\* Mutant of MinusField: the smallest of the other is subtracted on both sides.
MinusFieldSmallest(f, g) ==
    Interval(f.min - g.min, IF f.max = MaxValue THEN MaxValue ELSE f.max - g.min)

\* field.minus(other).  Its guard f.min - numeric_limits::min() overflows unless f.min is
\* negative: if it wraps around, the lower bound is given up.
MinusField(f, g) ==
    LET room == IF wraps THEN Wrapped(f.min - MinValue) ELSE f.min - MinValue
    IN  Interval(IF f.min = MinValue \/ room < g.max THEN MinValue
                 ELSE Wrapped(f.min - g.max + 1),
                 IF f.max = MaxValue THEN MaxValue ELSE Wrapped(f.max - g.min))

\* The letters a substitution makes of a letter: none if it has no case for it.
Default == "_"
Substitute(map, v) == IF v \in DOMAIN map THEN {map[v]}
                      ELSE IF Default \in DOMAIN map THEN {map[Default]} ELSE {}

SubstituteField(map, f) == Enum(UNION {Substitute(map, v) : v \in f.values}, FALSE)

------------------------------------------------------------------------------
\* Bounds have a width as well.
InWidth(f) == f.kind = "interval" => Fits(f.min) /\ Fits(f.max)

IsSized(p) == IsPacket(p) /\ \A k \in DOMAIN p : InWidth(p[k])

Clauses == UNION {Range(f) : f \in PacketFunctions}
Nodes == UNION {UNION {Range(c.fields[k]) : k \in DOMAIN c.fields} : c \in Clauses}

ASSUME FunctionsAssumption ==
    /\ PacketFunctions \subseteq Seq(Clauses) \ {<<>>}
    /\ \A c \in Clauses : /\ \A p \in c.conditions : IsSized(p)
                          /\ \A k \in DOMAIN c.fields : c.fields[k] \in Seq(Nodes)
    /\ \A i \in Nodes : /\ i.op \in {"field", "constant", "+", "-", "*", "/", "with"}
                        /\ i.op = "constant" => Fits(i.value) /\ Fits(i.value + 1)
                        /\ i.op = "with" => \A v \in DOMAIN i.map : i.map[v] \in Letters
    /\ \A S \in PacketSets : \A p \in S : IsSized(p)

FuncInit ==
    /\ function \in PacketFunctions /\ given \in PacketSets /\ wraps \in BOOLEAN
    /\ doing = "clause" /\ conditions = {} /\ others = {} /\ own = {}
    /\ assignee = "" /\ code = <<>> /\ stack = <<>> /\ assigned = <<>>
    /\ result = {} /\ failed = FALSE
    /\ waiting = All(given) /\ mine = {} /\ outcomes = <<>> /\ exact = TRUE

Fail == failed' = TRUE /\ UNCHANGED <<doing, clauseVars, fieldVars, result, wraps, saidVars>>
------------------------------------------------------------------------------
\* Do values x meet one of the conditions?
Meets(x, cs) == \E c \in cs : Comparable(x, c) /\ Accepts(c, x)

\* "if ... then ..."
If ==
    /\ doing = "clause" /\ Len(function) > 1
    /\ doing' = "conditions"
    /\ conditions' = Head(function).conditions
    /\ others' = given /\ own' = {}
    /\ mine' = {x \in waiting : Meets(x, Head(function).conditions)}
    /\ waiting' = waiting \ mine'
    /\ UNCHANGED <<function, given, fieldVars, result, failed, wraps, outcomes, exact>>

\* The last part is for all that is left.
Else ==
    /\ doing = "clause" /\ Len(function) = 1
    /\ doing' = "fields"
    /\ own' = given /\ others' = {}
    /\ mine' = waiting /\ waiting' = {}
    /\ UNCHANGED <<function, given, conditions, fieldVars, result, failed, wraps, outcomes, exact>>

\* The packets that meet a condition are the clause's, those that do not are left over.
MeetCondition ==
    /\ doing = "conditions"
    /\ \E c \in conditions :
          IF \E p \in given : ~ Comparable(p, c) THEN Fail
          ELSE /\ conditions' = conditions \ {c}
               /\ own' = own \cup UNION {PacketIntersection(p, c) : p \in given}
               /\ others' = UNION {PacketDifference(p, c) : p \in others}
               /\ exact' = (exact /\ \A p \in given : SameKinds(c, p))
               /\ UNCHANGED <<doing, function, given, fieldVars, result, failed, wraps, waiting,
                              mine, outcomes>>

ConditionsMet ==
    /\ doing = "conditions" /\ conditions = {}
    /\ doing' = "fields"
    /\ UNCHANGED <<clauseVars, fieldVars, result, failed, wraps, saidVars>>
------------------------------------------------------------------------------
ToAssign == Head(function).fields

\* "k := ...": its expression is applied to the packets of the clause.
Assign ==
    /\ doing = "fields"
    /\ \E k \in DOMAIN ToAssign \ DOMAIN assigned : assignee' = k /\ code' = ToAssign[k]
    /\ doing' = "expression"
    /\ UNCHANGED <<clauseVars, stack, assigned, result, failed, wraps, saidVars>>

\* The next node is of type op.
At(op) == doing = "expression" /\ code # <<>> /\ Head(code).op = op

Returned(i) == stack[Len(stack) - i]

\* The node returns, in place of the n operands it had: a field for each of the packets.
\* History: what it is for each of the values.
Return(n, value(_), says(_)) ==
    /\ code' = Tail(code)
    /\ stack' = Append(SubSeq(stack, 1, Len(stack) - n),
                       [value |-> [p \in own |-> value(p)], says |-> [x \in mine |-> says(x)]])
    /\ UNCHANGED <<doing, clauseVars, assignee, assigned, result, failed, wraps, waiting, mine, outcomes>>

\* Values beyond the width are not spoken of.
InRange(vs) == {v \in vs : Fits(v) /\ v # MaxValue}

FieldAccess ==
    /\ At("field")
    /\ LET k == Head(code).key IN
       IF \E p \in own : k \notin DOMAIN p THEN Fail
       ELSE /\ Return(0, LAMBDA p : p[k], LAMBDA x : IF k \in DOMAIN x THEN {x[k]} ELSE {})
            /\ exact' = exact

Number ==
    /\ At("constant")
    /\ LET n == Head(code).value IN
       /\ Return(0, LAMBDA p : Interval(n, n + 1), LAMBDA x : {n})
       /\ exact' = exact

\* Both operands must be numbers.
Numeric == \A p \in own : \A i \in {0, 1} : Returned(i).value[p].kind = "interval"

\* ... and what a value is said to be is a number if it is one of the packets'.
NumbersOf(i, x) == Returned(i).says[x] \cap Int

Addition ==
    /\ At("+") /\ Len(stack) > 1
    /\ IF ~ Numeric THEN Fail
       ELSE /\ Return(2, LAMBDA p : AddField(Returned(1).value[p], Returned(0).value[p]),
                      LAMBDA x : InRange({i + j : i \in NumbersOf(1, x), j \in NumbersOf(0, x)}))
            /\ exact' = (exact /\ \A p \in own :
                            Fits(Returned(1).value[p].min + Returned(0).value[p].min))

Minus ==
    /\ At("-") /\ Len(stack) > 1
    /\ IF ~ Numeric THEN Fail
       ELSE /\ Return(2, LAMBDA p : MinusField(Returned(1).value[p], Returned(0).value[p]),
                      LAMBDA x : InRange({i - j : i \in NumbersOf(1, x), j \in NumbersOf(0, x)}))
            /\ exact' = (exact /\ \A p \in own :
                            /\ Fits(Returned(1).value[p].min - Returned(0).value[p].max + 1)
                            /\ Fits(Returned(1).value[p].max - Returned(0).value[p].min))

\* Products and quotients of intervals are not defined.
MulDiv ==
    /\ At("*") \/ At("/")
    /\ Len(stack) > 1
    /\ IF own # {} THEN Fail
       ELSE Return(2, LAMBDA p : AnyField, LAMBDA x : {}) /\ exact' = exact

Substitution ==
    /\ At("with") /\ stack # <<>>
    /\ LET map == Head(code).map
           f(p) == Returned(0).value[p]
       IN  IF \E p \in own : \/ f(p).kind # "enum"
                             \/ \E v \in f(p).values : Substitute(map, v) = {}
           THEN Fail
           ELSE /\ Return(1, LAMBDA p : SubstituteField(map, f(p)),
                          LAMBDA x : UNION {Substitute(map, v) : v \in Returned(0).says[x]})
                /\ exact' = (exact /\ \A p \in own : ~ f(p).complement)

\* The whole expression has returned.
AssignDone ==
    /\ doing = "expression" /\ code = <<>> /\ Len(stack) = 1
    /\ doing' = "fields"
    /\ assigned' = [k \in DOMAIN assigned \cup {assignee} |->
                       IF k = assignee THEN [values |-> Range(Returned(0).value), says |-> Returned(0).says]
                       ELSE assigned[k]]
    /\ assignee' = "" /\ stack' = <<>>
    /\ UNCHANGED <<clauseVars, code, result, failed, wraps, saidVars>>

\* The fields in all combinations.
Combinations(values(_)) ==
    {r \in [DOMAIN ToAssign -> UNION {values(k) : k \in DOMAIN ToAssign}] :
        \A k \in DOMAIN ToAssign : r[k] \in values(k)}

\* Each field is assigned, on to the "else" with what is left over.
ClauseDone ==
    /\ doing = "fields" /\ DOMAIN assigned = DOMAIN ToAssign
    /\ doing' = "clause"
    /\ result' = result \cup Combinations(LAMBDA k : assigned[k].values)
    /\ outcomes' = [x \in DOMAIN outcomes \cup mine |->
                       IF x \in mine THEN Combinations(LAMBDA k : assigned[k].says[x]) ELSE outcomes[x]]
    /\ function' = IF others = {} THEN <<>> ELSE Tail(function)
    /\ given' = others /\ others' = {} /\ own' = {} /\ mine' = {} /\ assigned' = <<>>
    /\ UNCHANGED <<conditions, assignee, code, stack, failed, wraps, waiting, exact>>

FuncNext ==
    /\ ~ failed
    /\ \/ If \/ Else \/ MeetCondition \/ ConditionsMet
       \/ Assign \/ FieldAccess \/ Number \/ Addition \/ Minus \/ MulDiv \/ Substitution
       \/ AssignDone \/ ClauseDone

FuncSpec == FuncInit /\ [][FuncNext]_funcVars
------------------------------------------------------------------------------
\* A function that ends leaves nothing out: each value of the packets it was given had its
\* part applied, the first whose condition it meets, and what that makes of it is among
\* the packets that are returned, however conditions overlap, whatever part of a symbolic
\* packet goes where, and whichever way the build compares at the limits of the numbers.
\* Excepted (exact) are a bound that overflows, a substitution of values that are not named
\* (a complement or any), and a condition on another kind of value.
FunctionCovers ==
    (function = <<>> /\ ~ failed /\ exact) =>
        /\ waiting = {}
        /\ \A x \in DOMAIN outcomes : \A y \in outcomes[x] :
              \E r \in result : DOMAIN r = DOMAIN y /\ Accepts(r, y)
==============================================================================
