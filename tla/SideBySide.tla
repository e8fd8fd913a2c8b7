---------------------------- MODULE SideBySide ----------------------------
(***************************************************************************)
(* Several components side by side.  The components of the libraries share *)
(* no state, so that a behaviour of one is all there is to see of it: what *)
(* is checked is the sum of their state spaces and not the product.        *)
(*                                                                         *)
(* A behaviour is one of a single part: `part` says of which and never     *)
(* changes, and x1, x2, ... are the variables of its module, in the order  *)
(* of their declaration.  Those it does not need are None.                 *)
(***************************************************************************)
EXTENDS Integers

CONSTANTS
  Parts,  \* the parts that are checked
  None

VARIABLES
  part,
  x1, x2, x3, x4, x5, x6, x7, x8, x9, x10, x11,
  x12, x13, x14, x15, x16, x17, x18, x19, x20, x21

vars ==
  <<part, x1, x2, x3, x4, x5, x6, x7, x8, x9, x10,
    x11, x12, x13, x14, x15, x16, x17, x18, x19, x20, x21>>

(* The part p has begun; it has n variables.                               *)
Begins(p, n) ==
  /\ part = p
  /\ IF n < 4 THEN x4 = None ELSE TRUE
  /\ IF n < 5 THEN x5 = None ELSE TRUE
  /\ IF n < 6 THEN x6 = None ELSE TRUE
  /\ IF n < 7 THEN x7 = None ELSE TRUE
  /\ IF n < 8 THEN x8 = None ELSE TRUE
  /\ IF n < 9 THEN x9 = None ELSE TRUE
  /\ IF n < 10 THEN x10 = None ELSE TRUE
  /\ IF n < 11 THEN x11 = None ELSE TRUE
  /\ IF n < 12 THEN x12 = None ELSE TRUE
  /\ IF n < 13 THEN x13 = None ELSE TRUE
  /\ IF n < 14 THEN x14 = None ELSE TRUE
  /\ IF n < 15 THEN x15 = None ELSE TRUE
  /\ IF n < 16 THEN x16 = None ELSE TRUE
  /\ IF n < 17 THEN x17 = None ELSE TRUE
  /\ IF n < 18 THEN x18 = None ELSE TRUE
  /\ IF n < 19 THEN x19 = None ELSE TRUE
  /\ IF n < 20 THEN x20 = None ELSE TRUE
  /\ IF n < 21 THEN x21 = None ELSE TRUE

(* The part p takes a step, which leaves all but its n variables alone.    *)
Moves(p, n) ==
  /\ part = p /\ UNCHANGED part
  /\ IF n < 4 THEN UNCHANGED x4 ELSE TRUE
  /\ IF n < 5 THEN UNCHANGED x5 ELSE TRUE
  /\ IF n < 6 THEN UNCHANGED x6 ELSE TRUE
  /\ IF n < 7 THEN UNCHANGED x7 ELSE TRUE
  /\ IF n < 8 THEN UNCHANGED x8 ELSE TRUE
  /\ IF n < 9 THEN UNCHANGED x9 ELSE TRUE
  /\ IF n < 10 THEN UNCHANGED x10 ELSE TRUE
  /\ IF n < 11 THEN UNCHANGED x11 ELSE TRUE
  /\ IF n < 12 THEN UNCHANGED x12 ELSE TRUE
  /\ IF n < 13 THEN UNCHANGED x13 ELSE TRUE
  /\ IF n < 14 THEN UNCHANGED x14 ELSE TRUE
  /\ IF n < 15 THEN UNCHANGED x15 ELSE TRUE
  /\ IF n < 16 THEN UNCHANGED x16 ELSE TRUE
  /\ IF n < 17 THEN UNCHANGED x17 ELSE TRUE
  /\ IF n < 18 THEN UNCHANGED x18 ELSE TRUE
  /\ IF n < 19 THEN UNCHANGED x19 ELSE TRUE
  /\ IF n < 20 THEN UNCHANGED x20 ELSE TRUE
  /\ IF n < 21 THEN UNCHANGED x21 ELSE TRUE
=============================================================================
