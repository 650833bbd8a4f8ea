------------------------------ MODULE MCEptMap -------------------------------
(***************************************************************************)
(* Two entries per table and two bytes per page: a PD entry covers 4       *)
(* bytes, a PDPT entry 8, the largest identity map 16.  Addresses below 32 *)
(* stand for the 64-bit ones.                                              *)
(***************************************************************************)
EXTENDS EptMap

\* Maps of no region, of one region - the ones that overflow included - and
\* of two in both orders of their ends.
MCMaps ==
  {{}} \cup {{r} : r \in {0, 6, 8, 14, 30} \X {0, 1, 4, 15, 16}}
       \cup {{<<0, 1>>, r} : r \in {<<2, 3>>, <<2, 4>>, <<14, 1>>, <<14, 2>>, <<30, 1>>}}

\* Every page of the first map's end, one misaligned, one past the limit.
MCPages == {0, 2, 4, 5, 6, 8, 14, 16}
=============================================================================
