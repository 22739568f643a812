---------------------------- MODULE MCIngestion ----------------------------
(* Two mails for Ingestion, in order of arrival: an approved alert, and    *)
(* one from a sender that is not allowed.                                  *)
EXTENDS Ingestion

MCMail == 1..2
MCFacts == [a |-> [listing |-> "A", title |-> 1, location |-> 1, rooms |-> 2,
                   area |-> 40, price |-> 100, observed |-> 1]]
MCMailOf ==
    << [sender |-> "allowed", intact |-> TRUE, id |-> 1, raw |-> 1,
        articles |-> <<"a">>],
       [sender |-> "other", intact |-> TRUE, id |-> 2, raw |-> 2,
        articles |-> <<"a">>] >>

=============================================================================
