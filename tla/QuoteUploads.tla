---------------------------- MODULE QuoteUploads ----------------------------
(***************************************************************************)
(* The uploads of a quote at the hosted service: the files it takes itself *)
(* (HostedUploads) and the receipts of those a provider takes for it       *)
(* (UploadBroker).  The two have the quotes table in common and nothing    *)
(* else that either changes and the other reads.                           *)
(*                                                                         *)
(* Both have an endpoint for GET /quotes/{quote_id}/uploads.  The router   *)
(* of the quotes is included before that of the broker, so the path is     *)
(* answered by UploadService.list_uploads, and list_upload_receipts of the *)
(* broker is called by no request.                                         *)
(***************************************************************************)
EXTENDS HostedUploads, UploadBroker

ServiceInit == UploadsInit /\ Init

\* What either has besides the quotes.
direct   == <<files, uploads, logged, job, admitted, answered>>
brokered == <<broker, route, events, handling, past, now>>

DirectStep == UploadsNext /\ UNCHANGED brokered
BrokerStep == Next /\ UNCHANGED direct

\* "Retrieve a public summary of all uploaded files for a quote": its owner is
\* shown one for each receipt the broker has for the quote, besides those of
\* the files the service took itself.
OwnersSeeReceipts ==
  \A q \in {q \in Quote : quotes[q].account_id # NoAccount} :
    Cardinality({r \in receipts : accepted[r].quote_id = q}) <= Cardinality(ListUploads(q))
=============================================================================
