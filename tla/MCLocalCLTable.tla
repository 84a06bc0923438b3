---------------------------- MODULE MCLocalCLTable ----------------------------
(* Instances of LocalCLTable for TLC, with groups of four lines.           *)
EXTENDS LocalCLTable

(* One line; the end of a group; a group; runs that begin alike, one of    *)
(* them in the middle of a group; a range with a partial group at each     *)
(* end; a string whose null byte begins a group.                           *)
MixedRanges ==
  {MemRange(5, 5, TRUE), MemRange(6, 8, FALSE), MemRange(24, 28, FALSE),
   MemRange(8, 16, FALSE), MemRange(7, 20, FALSE), MemRange(7, 18, TRUE),
   StrRange(22, 24)}

(* The first lines of a group.                                             *)
PartialRange == {MemRange(8, 10, FALSE), MemRange(16, 17, TRUE)}
===============================================================================
