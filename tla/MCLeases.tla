------------------------------ MODULE MCLeases ------------------------------
EXTENDS Leases, TLC

CONSTANTS first, second, http, xss, csrf, c1, c2

MCFiles == <<first, second>>

\* A lab of one hour, for whoever gives it another lab, time or text.
Good == [yaml |-> "parses", lab |-> http, content |-> c1, top |-> TRUE, kind |-> "Lab",
         ttl |-> 2, asks |-> {}, writable |-> "no", images |-> {"pinned"},
         signed |-> TRUE, learning |-> TRUE]

Long     == [Good EXCEPT !.lab = xss, !.content = c2, !.ttl = 3]
Greedy   == [Good EXCEPT !.asks = {"hostNetwork"}]
Local    == [Good EXCEPT !.images = {"local"}]
NoNumber == [Good EXCEPT !.lab = csrf, !.ttl = None]
Unsigned == [Good EXCEPT !.signed = FALSE]
Broken   == [Good EXCEPT !.yaml = "broken"]
Empty    == [Good EXCEPT !.yaml = "empty"]

MCDrafts == {Good, Long, Unsigned, Greedy, Local, NoNumber, Broken, Empty}

=============================================================================
