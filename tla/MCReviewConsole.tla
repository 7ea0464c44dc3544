--------------------------- MODULE MCReviewConsole ---------------------------
(* Three actions that the console may sign, for one quote, and one forgery *)
(* of its device.                                                          *)
EXTENDS ReviewConsole, TLC

CONSTANTS q1, dev, text

\* Each form filled in, and left empty.
MCForm == {[answers |-> x] : x \in {text, Empty}} \cup
          {[service_area |-> x, exact_location |-> x] : x \in {text, Empty}}

Signed(a, n) == [action_id |-> a, device_id |-> dev, nonce |-> n,
                 action_kind |-> "QUOTE_REVIEW_START", aggregate_id |-> q1]

MCSigned == {Signed("a1", "n1"), Signed("a2", "n2"), Signed("a3", "n3")}
MCForged == {Signed("a4", "n4")}
MCEnvelope == MCSigned \cup MCForged

\* What the theorems about ConsoleSpec take as their hypothesis.
ASSUME OneProcess
=============================================================================
