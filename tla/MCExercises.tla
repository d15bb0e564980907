----------------------------- MODULE MCExercises ------------------------------
(* One call of any exercise: those on lists on any heap, those on arrays,    *)
(* which do not touch it, on the empty one.                                  *)
EXTENDS LinkList, ArrayExercises

Row(n, r) == [c \in 0 .. n - 1 |-> r[c + 1]]
TheMetrix == Row(4, <<Row(4, <<1, 2, 8, 9>>), Row(4, <<2, 4, 9, 12>>),
                      Row(4, <<4, 7, 10, 13>>), Row(4, <<6, 8, 11, 15>>)>>)
SomeDigits == ("0" :> 0) @@ ("2" :> 2) @@ ("7" :> 7) @@ ("8" :> 8)

ArrayCall ==
    /\ next = [n \in Node |-> NULL]
    /\ ArrayStep
    /\ UNCHANGED next

MCSpec == ListInit /\ [][ListStep \/ ArrayCall]_vars

\* Nodes are interchangeable.
Symmetry == Permutations(Node)
=============================================================================
