-------------------------- MODULE MCDeliveryOutbox --------------------------
(* Two periods, two reports that compete for them, two workers.            *)
EXTENDS DeliveryOutbox

CONSTANTS p1, p2, a, b, w1, w2

MCPeriod == {p1, p2}
MCReport == {a, b}
MCWorker == {w1, w2}
MCBackoff == <<1, 2>>

=============================================================================
