---------------------------- MODULE MCVirtualSD ----------------------------
(* Instantiation of VirtualSD: a three-line file with a two-byte line and *)
(* an empty line, read one byte at a time, so that a line is built across *)
(* reads that hold no NL (partial_input grows), and a chunk may be a lone *)
(* NL.                                                                     *)
EXTENDS VirtualSD

CONSTANTS a, b

MCFile == <<a, NL, b, b, NL, NL, a, NL>>
====
