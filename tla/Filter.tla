------------------------------- MODULE Filter --------------------------------
(***************************************************************************)
(* What is left of a sequence when some of its entries are removed where    *)
(* they are: Vec::retain, or Map.delete while the map is iterated.          *)
(***************************************************************************)
EXTENDS Integers, Sequences

\* The entries at the places in `keep', in their order.
Retained(entries, keep) ==
  LET left[i \in 0 .. Len(entries)] ==
        IF i = 0 THEN << >>
        ELSE IF i \in keep THEN Append(left[i - 1], entries[i]) ELSE left[i - 1]
  IN left[Len(entries)]
=============================================================================
