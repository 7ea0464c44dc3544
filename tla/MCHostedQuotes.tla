---------------------------- MODULE MCHostedQuotes ----------------------------
(* Signed actions for TLC, all for one quote.  The pair reuses a nonce, as *)
(* no honest device would, so that the nonce table matters too.            *)
EXTENDS HostedQuotes, TLC

CONSTANTS q1, dev, text

\* The location form filled in and left empty, and answers.
MCForm == {[answers |-> text]} \cup
          {[service_area |-> x, exact_location |-> x] : x \in {text, Empty}}

Signed(a, n) == [action_id |-> a, device_id |-> dev, nonce |-> n,
                       action_kind |-> "QUOTE_REVIEW_START", aggregate_id |-> q1]

MCPair  == {Signed("a1", "n1"),
            Signed("a2", "n1")}
MCForged == {Signed("a3", "n3")}

MCPairAndForged == MCPair \cup MCForged

Interchangeable == Permutations(Worker)
=============================================================================
