---------------------------- MODULE SetunComments ----------------------------
(***************************************************************************)
(* What comments of the source say of single instructions, where the code  *)
(* does something else.  Each is checked by a run of its own that ends in  *)
(* a counterexample; none of them is used by another module.               *)
(***************************************************************************)
EXTENDS Setun

(* "The machine may stop on overflow if the result ... sent to S is larger  *)
(* than 4,5 in absolute value" (setun1958_vm.c:5008-5010): a sum that does  *)
(* not fit into S is not accepted with the status OK.  add_trs loses its    *)
(* carry, so over_check never sees one.                                     *)
Exact == IF OperationCode(K') = 10 THEN S + LongOperand ELSE S - LongOperand
OverflowStops ==
    [][ Step({8, 10}) /\ Exact \notin LongWord => ret_exec' # "OK" ]_vars

(* "++0 ... (S)=>(R); S=0; A* R => S" (setun1958_vm.c:4827): the product    *)
(* with the number 1 is the other factor.  S has two trits before the point *)
(* (4,5 is its largest value), so 1 is the unit of its second trit.         *)
One == pow3(LW - 2)
MultiplyByOne == [][ Step({12}) /\ LongOperand = One => S' = S ]_vars

(* "Clear a zone of FRAM" (setun1958_vm.c:1995): reading a drum zone that   *)
(* does not exist clears the page and no cell of another one.               *)
CleaningStaysInPage ==
    [][ Step({-10}) /\ ~ HasZone =>
            \A c \in Cells \ PageCells(FirstTrit(A)) : fram'[c] = fram[c] ]_vars
=============================================================================
