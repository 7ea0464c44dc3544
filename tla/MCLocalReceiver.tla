--------------------------- MODULE MCLocalReceiver ---------------------------
(* A small receiver for TLC: two sessions, two uploads, three instants.     *)
(* Files have zero, two or three bytes and a session takes at most two at a *)
(* time.  One kind of session runs out of bytes first (a streamed file of   *)
(* two is admitted on the third byte and refused afterwards), the other     *)
(* runs out of files first.                                                 *)
EXTENDS LocalReceiver

MCLimits ==
  {[max_file_size_bytes |-> 2, max_files |-> 2, max_total_bytes |-> 3],
   [max_file_size_bytes |-> 2, max_files |-> 1, max_total_bytes |-> 5]}
=============================================================================
