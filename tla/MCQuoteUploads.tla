--------------------------- MODULE MCQuoteUploads ---------------------------
(***************************************************************************)
(* QuoteUploads for TLC.  A PDF has one unit of bytes, a video up to two,  *)
(* and nothing tells workers, or quotes, apart.                            *)
(*                                                                         *)
(* The service and the broker do not read each other's state, so TLC takes *)
(* the steps of one while the other has done nothing yet.                  *)
(***************************************************************************)
EXTENDS QuoteUploads

CONSTANT video

MCLimit == (Pdf :> 1) @@ (video :> 2)
Interchangeable == Permutations(Worker) \cup Permutations(Quote)

NoUploads == admitted = 0
NoSessions ==
  /\ opened = 0 /\ now = 0 /\ fallback = NoProvider /\ receiver = "absent"

MCNext ==
  \/ NoSessions /\ DirectStep
  \/ NoUploads /\ BrokerStep

MCSpec == ServiceInit /\ [][MCNext]_<<uploading, vars>>
=============================================================================
