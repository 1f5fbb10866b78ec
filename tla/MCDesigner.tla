----------------------------- MODULE MCDesigner ------------------------------
(* A queue, a composite and a sink, and files of networks: one uses another,  *)
(* a third is malformed after its composites, one of which has no file, and   *)
(* two use each other.                                                        *)
EXTENDS Designer

CONSTANTS q, comp, sink, fine, inner, broken, gone, ring

MCInputsOf == [c \in Objects |-> CASE c = q -> {"q.i"} [] c = comp -> {"comp.in"} [] OTHER -> {"sink.i"}]
MCOutputsOf == [c \in Objects |-> CASE c = q -> {"q.o"} [] c = comp -> {"comp.out"} [] OTHER -> {}]
MCComposites == {comp}
MCGenerated == [c \in Objects |-> IF c = comp THEN <<"C0", "C1", "C2">> ELSE <<"Q0", "Q1", "Q2", "Q3">>]
MCNames == {"Q0", "Q1", "Q2", "Q3", "C0", "C1", "C2", "q", " Q0", " q"}
MCTrimmed == [n \in MCNames |-> CASE n = " Q0" -> "Q0" [] n = " q" -> "q" [] OTHER -> n]
MCUses == [f \in Files |-> CASE f = fine -> {inner, ring} [] f = ring -> {fine}
                                [] f = broken -> {inner, gone} [] OTHER -> {}]
TypedNames == {"Q0", "q", " q"}
==============================================================================
