-------------------------------- MODULE Once --------------------------------
(***************************************************************************)
(* The value of an expression under a name.  LET stands for its expression *)
(* again at each use of the name; With passes the value on, once, and is   *)
(* used where a state of the program goes through a long chain of calls.   *)
(***************************************************************************)
With(value, Op(_)) == Op(value)
=============================================================================
