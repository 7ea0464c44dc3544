----------------------------- MODULE UploadQuotes -----------------------------
(***************************************************************************)
(* The quotes table as the two ways to upload a file look at it.           *)
(*                                                                         *)
(* The quotes are as QuoteRepository.create stores them, with or without   *)
(* an owner.  Those of the quote endpoints have none (HostedQuotes), and   *)
(* for them every upload, and every session for one, is refused.           *)
(***************************************************************************)
EXTENDS Naturals

CONSTANTS
  Quote, Account,
  NoAccount,        \* the account_id of a quote that has none
  VerifiedAccount   \* those with email_verified_at, or all if not required

ASSUME QuoteConstants ==
  VerifiedAccount \subseteq Account /\ NoAccount \notin Account

VARIABLE quotes

\* A quote is open while its status is one of those that allow uploads.
QuoteRow == [account_id : Account \cup {NoAccount}, open : BOOLEAN]

QuotesInit == quotes \in [Quote -> [account_id : Account \cup {NoAccount}, open : {TRUE}]]

\* The status of a quote moves on, for good, to one that takes no uploads.
CloseQuote(q) ==
  /\ quotes[q].open
  /\ quotes' = [quotes EXCEPT ![q].open = FALSE]
=============================================================================
