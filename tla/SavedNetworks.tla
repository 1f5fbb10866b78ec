----------------------------- MODULE SavedNetworks -----------------------------
(***************************************************************************)
(* Saving a network and opening it again: export.cpp writes a component as *)
(* an item of a JSON file, with where its outputs lead and the expression  *)
(* of what it does as text, and generate_xmas_from_parse_result()          *)
(* (parse.cpp) makes a network of the items.  A text is what stands in it: *)
(* for each packet of an expression the conditions on its fields.  The     *)
(* plugins of the designer get the network as this file too: what they     *)
(* verify is what they read of it.                                         *)
(***************************************************************************)
EXTENDS PacketExpressions

CONSTANTS Drawings,     \* networks that are drawn
          Expressions,  \* packet sets that the parser made of expressions
          Functions,    \* functions, as sequences of clauses, <<>> for none
          Words,        \* what sets of several letters become without separators
          Truncated,    \* scales, in hundredths, of which the float is a little less
          References,   \* where an output may be led in a file: [id, in_port]
          MaxEdits      \* how often a network or a file is changed

VARIABLES drawn,   \* the network of the designer
          file,    \* the items of the file
          opened,  \* what came of opening it: no, read, refused or crashed
          before,  \* history: the network as it was saved
          edited,  \* history: the file was changed since
          edits

saveVars == <<drawn, file, opened, before, edited, edits>>

NumberOfInputs(kind) ==
    CASE kind = "source" -> 0
      [] kind \in {"sink", "queue", "function", "xswitch", "xfork"} -> 1
      [] kind \in {"merge", "join", "composite"} -> 2

NumberOfOutputs(kind) ==
    CASE kind = "sink" -> 0
      [] kind \in {"source", "queue", "function", "merge", "join"} -> 1
      [] kind \in {"xswitch", "xfork", "composite"} -> 2

\* A network: the kind of each component, the pointers of its ports to one another, the
\* packets of sources and switches, functions, sizes of queues and ports of restricted
\* joins, required sources and sinks, and scales on the canvas.
InputsOf(n) == UNION {{<<c, i>> : i \in 1 .. NumberOfInputs(n.kind[c])} : c \in DOMAIN n.kind}
OutputsOf(n) == UNION {{<<c, i>> : i \in 1 .. NumberOfOutputs(n.kind[c])} : c \in DOMAIN n.kind}

Nothing == <<>>

Drawing(kind, wires, packets, function, number, required, scale) ==
    LET bare == [kind |-> kind]
    IN  [kind |-> kind, packets |-> packets, function |-> function, number |-> number,
         required |-> required, scale |-> scale,
         target |-> [o \in OutputsOf(bare) |->
                        IF \E w \in wires : w[1] = o THEN (CHOOSE w \in wires : w[1] = o)[2]
                        ELSE Nothing],
         initiator |-> [i \in InputsOf(bare) |->
                        IF \E w \in wires : w[2] = i THEN (CHOOSE w \in wires : w[2] = i)[1]
                        ELSE Nothing]]

Linked(n, o) == n.target[o] # Nothing /\ n.initiator[n.target[o]] = o
------------------------------------------------------------------------------
(* Writing.                                                                 *)

\* A condition of a text: a name, or an operator and the numbers or words behind it.
Condition(key, op, of) == [key |-> key, op |-> op, of |-> of]

\* An enumeration is written without separators, and without what would tell that it is a
\* complement; what is not restricted as "true", without its name.
FieldText(k, f) ==
    CASE f.kind = "any" -> {Condition("true", "name", {})}
      [] f.kind = "enum" -> {Condition(k, "in", {IF f.values = {v} THEN v ELSE Words[f.values] :
                                                   v \in f.values})}
      [] f.kind = "interval" /\ f.min = f.max - 1 -> {Condition(k, "==", {f.min})}
      [] f.kind = "interval" /\ f.min # f.max - 1 ->
            {Condition(k, ">=", {f.min}), Condition(k, "<", {f.max})}

PacketText(p) == UNION {FieldText(k, p[k]) : k \in DOMAIN p}

ExpressionText(packets) == {PacketText(p) : p \in packets}

\* Mutant of WriteOut: inputs that are not connected are not counted.
WriteOutConnected(n, o) ==
    LET c == n.target[o][1]
        inputs == {i \in 1 .. NumberOfInputs(n.kind[c]) : n.initiator[<<c, i>>] # Nothing}
        found == {i \in inputs : n.initiator[<<c, i>>] = o}
    IN  [id |-> c, in_port |-> IF found = {} THEN Cardinality(inputs)
                               ELSE Cardinality({i \in inputs : i < Min(found)})]

\* Where output o leads: the component, and which of its inputs has o as initiator, counted
\* from 0.  It is the number of inputs if none has.
WriteOut(n, o) ==
    LET c == n.target[o][1]
        inputs == 1 .. NumberOfInputs(n.kind[c])
        found == {i \in inputs : n.initiator[<<c, i>>] = o}
    IN  [id |-> c, in_port |-> IF found = {} THEN Cardinality(inputs) ELSE Min(found) - 1]

OutsIn(c, n) == [i \in 1 .. NumberOfOutputs(n.kind[c]) |-> <<c, i>>]

\* Outputs that lead nowhere are left out.
Outs(n, c) ==
    LET connected == SelectSeq(OutsIn(c, n), LAMBDA o : n.target[o] # Nothing)
    IN  [i \in DOMAIN connected |-> WriteOut(n, connected[i])]

Hundredths(s) == IF s \in Truncated THEN s - 1 ELSE s

ExportItem(n, c) ==
    [id |-> c, type |-> n.kind[c], outs |-> Outs(n, c), required |-> c \in n.required,
     text |-> ExpressionText(n.packets[c]), function |-> n.function[c],
     number |-> n.number[c], scale |-> Hundredths(n.scale[c])]

Export(n) == {ExportItem(n, c) : c \in DOMAIN n.kind}
------------------------------------------------------------------------------
(* Reading.                                                                 *)

ReadCondition(t) ==
    LET is(f) == {[k \in {t.key} |-> f]}
        number == CHOOSE n \in t.of : TRUE
    IN  CASE t.op = "name" -> is(AnyField)
          [] t.op = "==" -> is(Interval(number, number + 1))
          [] t.op = "in" -> is(Enum(t.of, FALSE))
          [] t.op = ">=" -> is(Above(AnyField, number))
          [] t.op = "<" -> is(Below(AnyField, number))

\* A sign is not part of a number; and there must be something to read.
Readable(text) ==
    /\ text # {} /\ {} \notin text
    /\ \A ts \in text : \A t \in ts : t.op \in {"==", ">=", "<"} => t.of \subseteq Nat

ReadPacket(ts) == FoldSet(LAMBDA t, set : PerformAnd(ReadCondition(t), set), {<<>>}, ts)

\* The packets of a text that are attached: none of one that is not read, and none that
\* stand for nothing.
ReadExpression(text) ==
    IF Readable(text)
    THEN {p \in UNION {ReadPacket(ts) : ts \in text} : \A k \in DOMAIN p : Valid(p[k])}
    ELSE {}

\* Conditions of functions are not written as expressions: a function with one is lost.
ReadFunction(f) == IF \E i \in DOMAIN f : f[i].conditions # {} THEN <<>> ELSE f

Ids(items) == {it.id : it \in items}
KindIn(items, c) == (CHOOSE it \in items : it.id = c).type

\* Two components with the same name are told before anything else.
Duplicate(items) == \E it, other \in items : it # other /\ it.id = other.id

BadReference(items, it) ==
    \/ Len(it.outs) > NumberOfOutputs(it.type)
    \/ \E i \in DOMAIN it.outs :
          LET out == it.outs[i]
          IN  \/ out.id \notin Ids(items)
              \/ out.in_port \notin 0 .. NumberOfInputs(KindIn(items, out.id)) - 1

\* The packets of a source are attached through the input its output leads to: if it leads
\* nowhere, a std::exception is thrown that nobody catches.
Unattached(it) == it.type = "source" /\ it.outs = <<>> /\ ReadExpression(it.text) # {}

Failures(items) ==
    IF Duplicate(items) THEN {"refused"}
    ELSE {"refused" : it \in {i \in items : BadReference(items, i)}}
         \cup {"crashed" : it \in {i \in items : Unattached(i)}}

\* The outputs that a file leads to an input, of each component the last one.
Claims(target, i) == {o \in DOMAIN target : /\ target[o] = i
                                            /\ \A p \in DOMAIN target :
                                                 target[p] = i /\ p[1] = o[1] => p[2] <= o[2]}

\* The components are connected in the order in which the file lists them, which is that of
\* their addresses; it matters for those with outputs that lead to the same input.
Orders(target) ==
    LET rivals == UNION {{o[1] : o \in Claims(target, i)} :
                            i \in {k \in Range(target) : k # Nothing /\ Cardinality(Claims(target, k)) > 1}}
    IN  {f \in [rivals -> 1 .. Cardinality(rivals)] : IsInjective(f)}

\* generate_xmas_from_parse_result(): of outputs that lead to the same input, the one that
\* is connected last is its initiator.
NetworksOf(items) ==
    LET of == [c \in Ids(items) |-> CHOOSE it \in items : it.id = c]
        bare == [kind |-> [c \in Ids(items) |-> of[c].type]]
        target == [o \in OutputsOf(bare) |->
                     IF o[2] <= Len(of[o[1]].outs)
                     THEN LET out == of[o[1]].outs[o[2]] IN <<out.id, out.in_port + 1>>
                     ELSE Nothing]
        last(order, i) == CHOOSE o \in Claims(target, i) :
                             \A p \in Claims(target, i) \ {o} : order[p[1]] < order[o[1]]
    IN  {[kind |-> bare.kind, target |-> target,
          initiator |-> [i \in InputsOf(bare) |->
                           IF Claims(target, i) = {} THEN Nothing ELSE last(order, i)],
          required |-> {c \in Ids(items) : of[c].required},
          packets |-> [c \in Ids(items) |-> ReadExpression(of[c].text)],
          function |-> [c \in Ids(items) |-> ReadFunction(of[c].function)],
          number |-> [c \in Ids(items) |-> of[c].number],
          scale |-> [c \in Ids(items) |-> of[c].scale]] : order \in Orders(target)}
------------------------------------------------------------------------------
SaveInit ==
    /\ drawn \in Drawings /\ file = {} /\ opened = "no"
    /\ before = <<>> /\ edited = FALSE /\ edits = 0

\* The network is changed, in the designer.
Draw(n) ==
    /\ edits < MaxEdits /\ opened # "crashed"
    /\ drawn' = n /\ edits' = edits + 1 /\ opened' = "no"
    /\ UNCHANGED <<file, before, edited>>

\* connect(): a channel between two free ports.
Connect ==
    \E o \in OutputsOf(drawn), i \in InputsOf(drawn) :
        /\ drawn.target[o] = Nothing /\ drawn.initiator[i] = Nothing
        /\ Draw([drawn EXCEPT !.target[o] = i, !.initiator[i] = o])

\* disconnect(): nothing happens unless both ends point to one another.
Disconnect ==
    \E o \in OutputsOf(drawn) :
        /\ Linked(drawn, o)
        /\ Draw([drawn EXCEPT !.initiator[drawn.target[o]] = Nothing, !.target[o] = Nothing])

\* setSourceExpression(), of a source that is connected, and setSwitchExpression().
SetExpression ==
    \E c \in DOMAIN drawn.kind, e \in Expressions :
        /\ \/ drawn.kind[c] = "source" /\ Linked(drawn, <<c, 1>>)
           \/ drawn.kind[c] = "xswitch"
        /\ Draw([drawn EXCEPT !.packets[c] = e])

\* setFunctionExpression().
SetFunction ==
    \E c \in DOMAIN drawn.kind, f \in Functions \ {<<>>} :
        /\ drawn.kind[c] = "function"
        /\ Draw([drawn EXCEPT !.function[c] = f])

\* saveNetwork().
Save ==
    /\ opened # "crashed" /\ file' = Export(drawn)
    /\ before' = drawn /\ edited' = FALSE /\ opened' = "no"
    /\ UNCHANGED <<drawn, edits>>

\* The file is changed by hand: an output leads elsewhere, there is one more, or two
\* components with the same name.
EditItem(changed) ==
    /\ edits < MaxEdits /\ opened # "crashed"
    /\ file' = changed /\ edits' = edits + 1 /\ edited' = TRUE /\ opened' = "no"
    /\ UNCHANGED <<drawn, before>>

EditFile ==
    \E it \in file :
        \/ \E n \in DOMAIN it.outs, out \in References :
              EditItem((file \ {it}) \cup {[it EXCEPT !.outs[n] = out]})
        \/ \E out \in References :
              EditItem((file \ {it}) \cup {[it EXCEPT !.outs = Append(@, out)]})
        \/ EditItem(file \cup {[it EXCEPT !.required = ~ @]})

\* loadNewProject(): of a file that is refused nothing is taken over.
Open ==
    /\ file # {} /\ opened # "crashed"
    /\ IF Failures(file) = {}
       THEN drawn' \in NetworksOf(file) /\ opened' = "read"
       ELSE opened' \in Failures(file) /\ UNCHANGED drawn
    /\ UNCHANGED <<file, before, edited, edits>>

SaveNext == \/ Connect \/ Disconnect \/ SetExpression \/ SetFunction
            \/ Save \/ EditFile \/ Open
------------------------------------------------------------------------------
\* What is written of an expression says what it says: packets that are restricted in
\* every field, to numbers that are not negative or to one letter.
PlainField(f) == \/ f.kind = "interval" /\ f.min >= 0
                 \/ f.kind = "enum" /\ ~ f.complement /\ Cardinality(f.values) = 1
Plain(packets) == \A p \in packets : p # <<>> /\ \A k \in DOMAIN p : PlainField(p[k])

\* Where the outputs of a component lead, in order.
Leads(n, c) == SelectSeq([i \in 1 .. NumberOfOutputs(n.kind[c]) |-> n.target[<<c, i>>]],
                         LAMBDA i : i # Nothing)

\* An output that leads nowhere comes before one that leads somewhere.
HasGap(n, c) == \E i \in 1 .. NumberOfOutputs(n.kind[c]) - 1 :
                   n.target[<<c, i>>] = Nothing /\ n.target[<<c, i + 1>>] # Nothing

Stranded(n, c) == n.kind[c] = "source" /\ n.target[<<c, 1>>] = Nothing

\* What was saved is what is opened: the same components and channels, with outputs behind
\* a gap moved up; plain expressions that stand for the same packets, and functions
\* without conditions.  A network is not opened if an output is not the initiator of the
\* input it leads to; and the program ends on one with a source that has packets, but no
\* channel any more.
SavedIsOpened ==
    /\ opened \in {"refused", "crashed"} /\ ~ edited =>
          \/ opened = "refused" /\ \E o \in DOMAIN before.target :
                                      before.target[o] # Nothing /\ ~ Linked(before, o)
          \/ opened = "crashed" /\ \E c \in DOMAIN before.kind :
                                      Stranded(before, c) /\ before.packets[c] # {}
    /\ opened = "read" /\ ~ edited =>
          /\ drawn.kind = before.kind /\ drawn.required = before.required
          /\ drawn.number = before.number
          /\ \A o \in DOMAIN drawn.target : drawn.target[o] # Nothing => Linked(drawn, o)
          /\ \A c \in DOMAIN before.kind :
                /\ Leads(drawn, c) = Leads(before, c) /\ ~ HasGap(drawn, c)
                /\ drawn.scale[c] \in {before.scale[c] - 1, before.scale[c]}
                /\ Plain(before.packets[c]) =>
                      Denotes(drawn.packets[c]) = Denotes(before.packets[c])
                /\ (\A i \in DOMAIN before.function[c] : before.function[c][i].conditions = {})
                      => drawn.function[c] = before.function[c]
==============================================================================
