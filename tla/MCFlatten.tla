----------------------------- MODULE MCFlatten ------------------------------
(* Small hierarchies: every way of wiring a source, a sink and two          *)
(* composites, complete or with one channel left out, over composites that  *)
(* bridge, buffer, cross, copy, nest, and leave something unconnected.  And *)
(* the networks that are not read but generated, what is written in JSON,   *)
(* and the texts that hold all of it, in behaviours of their own.           *)
EXTENDS Flatten, Generators, JsonText, Strings, FiniteSets

VARIABLE part

(* A composite that is nothing but a channel; one with a queue. *)
Bridge == [order |-> <<"i", "o">>, kind |-> [i |-> "in", o |-> "out"], of |-> <<>>,
           wire |-> (<<"i", 1>> :> <<"o", 1>>)]
Stage == [order |-> <<"i", "o", "q">>,
          kind |-> [i |-> "in", o |-> "out", q |-> "queue"], of |-> <<>>,
          wire |-> (<<"i", 1>> :> <<"q", 1>>) @@ (<<"q", 1>> :> <<"o", 1>>)]

(* Two channels that cross, the sinks in the map before the sources. *)
Cross == [order |-> <<"a", "b", "i", "j">>,
          kind |-> [a |-> "out", b |-> "out", i |-> "in", j |-> "in"], of |-> <<>>,
          wire |-> (<<"i", 1>> :> <<"b", 1>>) @@ (<<"j", 1>> :> <<"a", 1>>)]

(* A fork whose second output goes round a queue into a join. *)
Ring == [order |-> <<"f", "i", "m", "o", "q">>,
         kind |-> [f |-> "fork", i |-> "in", m |-> "merge", o |-> "out", q |-> "queue"],
         of |-> <<>>,
         wire |-> (<<"i", 1>> :> <<"m", 1>>) @@ (<<"m", 1>> :> <<"f", 1>>) @@
                  (<<"f", 1>> :> <<"o", 1>>) @@ (<<"f", 2>> :> <<"q", 1>>) @@
                  (<<"q", 1>> :> <<"m", 2>>)]

(* Composites in a composite: a crossing, one side of it buffered. *)
Nest == [order |-> <<"b", "i", "j", "o", "p", "x">>,
         kind |-> [b |-> "composite", i |-> "in", j |-> "in", o |-> "out", p |-> "out",
                   x |-> "composite"],
         of |-> [b |-> "stage", x |-> "cross"],
         wire |-> (<<"i", 1>> :> <<"b", 1>>) @@ (<<"b", 1>> :> <<"x", 2>>) @@
                  (<<"j", 1>> :> <<"x", 1>>) @@ (<<"x", 1>> :> <<"p", 1>>) @@
                  (<<"x", 2>> :> <<"o", 1>>)]

(* Two inputs joined into one output, and an external sink left unconnected. *)
Loose == [order |-> <<"i", "j", "m", "o", "p">>,
          kind |-> [i |-> "in", j |-> "in", m |-> "merge", o |-> "out", p |-> "out"],
          of |-> <<>>,
          wire |-> (<<"i", 1>> :> <<"m", 1>>) @@ (<<"j", 1>> :> <<"m", 2>>) @@
                   (<<"m", 1>> :> <<"o", 1>>)]

(* The credit counter of flatten.test.cpp, a source and a sink of its own. *)
Credit == [order |-> <<"fork", "in", "join", "out", "queue", "sink", "source">>,
           kind |-> [fork |-> "fork", in |-> "in", join |-> "merge", out |-> "out",
                     queue |-> "queue", sink |-> "sink", source |-> "source"],
           of |-> <<>>,
           wire |-> (<<"in", 1>> :> <<"join", 1>>) @@ (<<"source", 1>> :> <<"fork", 1>>) @@
                    (<<"fork", 1>> :> <<"queue", 1>>) @@ (<<"fork", 2>> :> <<"out", 1>>) @@
                    (<<"queue", 1>> :> <<"join", 2>>) @@ (<<"join", 1>> :> <<"sink", 1>>)]

Library(root) == [root |-> root, bridge |-> Bridge, stage |-> Stage, cross |-> Cross,
                  ring |-> Ring, nest |-> Nest, loose |-> Loose, credit |-> Credit]

(* The components of a root network: its ends closed, external, or a sink *)
(* alone, so that some input is left unconnected.                         *)
Subs == {<<"bridge", "stage">>, <<"stage", "bridge">>, <<"bridge", "bridge">>,
         <<"cross", "ring">>, <<"nest", "bridge">>, <<"cross", "nest">>,
         <<"loose", "stage">>, <<"stage", "credit">>}

Roots == {[order |-> e.order, kind |-> e.kind @@ [x |-> "composite", y |-> "composite"],
           of |-> [x |-> sub[1], y |-> sub[2]], wire |-> <<>>] :
             e \in {[order |-> <<"s", "t", "x", "y">>, kind |-> [s |-> "source", t |-> "sink"]],
                    [order |-> <<"s", "t", "x", "y">>, kind |-> [s |-> "in", t |-> "out"]],
                    [order |-> <<"t", "x", "y">>, kind |-> [t |-> "sink"]]},
             sub \in Subs}

Wirings(root) ==
    LET outs == ToSet(OutputPorts(Library(root), root))
        ins  == UNION {{c} \X (1 .. Inputs(Library(root), root, c)) : c \in ToSet(root.order)}
        all  == {w \in [outs -> ins] : \A o1, o2 \in outs : w[o1] = w[o2] => o1 = o2}
    IN all \union {Restrict(w, outs \ {o}) : w \in all, o \in outs}

MCHierarchies ==
    UNION {{Library([root EXCEPT !.wire = w]) : w \in Wirings(root)} : root \in Roots}

(* The networks of the tests SourceCCSink and ConsecutiveCC. *)
TestHierarchies ==
    {Library([order |-> <<"cc1", "sink1", "source1">>,
              kind |-> [cc1 |-> "composite", sink1 |-> "sink", source1 |-> "source"],
              of |-> [cc1 |-> "credit"],
              wire |-> (<<"source1", 1>> :> <<"cc1", 1>>) @@ (<<"cc1", 1>> :> <<"sink1", 1>>)]),
     Library([order |-> <<"cc1", "cc2", "sink1", "source1">>,
              kind |-> [cc1 |-> "composite", cc2 |-> "composite", sink1 |-> "sink",
                        source1 |-> "source"],
              of |-> [cc1 |-> "credit", cc2 |-> "credit"],
              wire |-> (<<"source1", 1>> :> <<"cc1", 1>>) @@ (<<"cc1", 1>> :> <<"cc2", 1>>) @@
                       (<<"cc2", 1>> :> <<"sink1", 1>>)])}

-----------------------------------------------------------------------------
(* JSON: two names that are one to lessIgnoreCaseAlfa; a line break and a   *)
(* quotation mark behind an "a"; true, and one and a half.                  *)
MCStrings == {"", "a", "A"}

MCEncoded == ("a<LF>" :> <<"a\\n">>) @@ ("a<quote>" :> <<"a\\", "?">>)
MCLiterals == ("true" :> <<"?">>) @@ ("1.5" :> <<"1", "?">>)

MCLetter == [name \in MCStrings \cup {"a\\n", "a\\"} |->
                IF name = "A" THEN "a" ELSE name]

MCBeginnings ==
    {<<>>, <<"[", "1", ",">>, <<"[", "[", "1", ",">>, <<"{", "a", ":", "1", ",">>,
     <<"{", "a", ":", "1", ",", "A", ":">>, <<"{", "a", ":", "[", "1", ",">>}

-----------------------------------------------------------------------------
\* Texts over some characters, at most so many of them.
Over(characters, longest) == UNION {[1 .. long -> characters] : long \in 0 .. longest}

\* 0, 1, a and A; 2, a10, a11, a2, 111, B, Za, zA and an underscore.
MCNames ==
    Over({48, 49, 97, 65}, 2) \cup
    {<<50>>, <<97, 49, 48>>, <<97, 49, 49>>, <<97, 50>>, <<49, 49, 49>>, <<66>>, <<90, 97>>,
     <<122, 65>>, <<95>>}

\* aA,a   ,aa,   a between spaces   aaa   -12,   128a   -a
MCParsed ==
    {<<97, 65, 44, 97>>, <<44, 97, 97, 44>>, <<32, 97, 32>>, <<97, 97, 97>>,
     <<45, 49, 50, 44>>, <<49, 50, 56, 97>>, <<45, 97>>}

\* Also percent signs, spaces, plus signs, slashes, dots; %41, /a./b, and other bytes.
MCTexts ==
    Over({97, 37, 32, 49, 43, 47, 46}, 3) \cup MCNames \cup MCParsed \cup
    {<<37, 52, 49>>, <<200, 3, 255>>, <<47, 97, 46, 47, 98>>}

MCClasses == {{32}, {44}, {97, 65}}

MCMarkers == {<<97>>, <<97, 65>>, <<44>>}

-----------------------------------------------------------------------------
NothingGenerated ==
    /\ shape = "mesh" /\ size = 0 /\ made = {} /\ joined = {} /\ channels = <<>>
    /\ packet = [type |-> "none", at |-> <<>>]

NothingWritten ==
    /\ printer = [text |-> <<>>, states |-> <<"Init">>, firstItem |-> TRUE]
    /\ told = <<>> /\ flawed = FALSE /\ unread = FALSE /\ file = [text |-> <<>>, typed |-> 0]

NothingFlattened ==
    /\ h = <<>> /\ stack = <<>> /\ network = {} /\ gates = {} /\ out = <<>> /\ inp = <<>>
    /\ status = "idle"

NothingRead ==
    /\ text = <<>> /\ front = <<>> /\ back = <<>> /\ step = [op |-> "nothing"]
    /\ parser = [left |-> <<>>, result |-> 0, error |-> 0]

MCInit ==
    \/ part = "flatten" /\ Init /\ NothingGenerated /\ NothingWritten /\ NothingRead
    \/ part = "generate" /\ GeneratorInit /\ NothingFlattened /\ NothingWritten /\ NothingRead
    \/ part = "json" /\ JsonInit /\ NothingFlattened /\ NothingGenerated /\ NothingRead
    \/ part = "texts" /\ StringInit /\ NothingFlattened /\ NothingGenerated /\ NothingWritten

MCNext ==
    \/ part = "flatten" /\ Next /\ UNCHANGED <<part, generatorVars, jsonVars, stringVars>>
    \/ part = "generate" /\ GeneratorNext /\ UNCHANGED <<part, vars, jsonVars, stringVars>>
    \/ part = "json" /\ JsonNext /\ UNCHANGED <<part, vars, generatorVars, stringVars>>
    \/ part = "texts" /\ StringNext /\ UNCHANGED <<part, vars, generatorVars, jsonVars>>

MCSpec == MCInit /\ [][MCNext]_<<part, vars, generatorVars, jsonVars, stringVars>>
=============================================================================
