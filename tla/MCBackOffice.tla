----------------------------- MODULE MCBackOffice -----------------------------
(***************************************************************************)
(* Module BackOffice on a small instance: two files Karbon can be asked to *)
(* hand over, one of them without text, and one that is neither .docx nor  *)
(* .pdf; and two of last year's work items, of which one is asked for.     *)
(***************************************************************************)
EXTENDS BackOffice

CONSTANTS p1, p2, p3, i1, i2

(* A file that is found only if its item is; and a client's own folder that   *)
(* lists more than there is room for after last year's item.                 *)
MCFilings ==
  { [a \in Areas |-> CASE a = "own" -> {p3} [] a = i1 -> {} [] a = i2 -> {p2} [] a = "client" -> {p1}],
    [a \in Areas |-> CASE a = "own" -> {} [] a = i1 -> {p1} [] a = i2 -> {p3} [] a = "client" -> {p1, p2}] }
=============================================================================
