---------------------------- MODULE MCBackground ----------------------------
(***************************************************************************)
(* Small instances of the components that run by themselves, with the      *)
(* fairness of their loops: mail polling, the daily retention and the      *)
(* scraper workers.  They share no state here, so a behaviour exercises    *)
(* one of them, the one `focus' names, and the others stay as they were    *)
(* initialised.                                                            *)
(***************************************************************************)
EXTENDS Ingestion, Retention, ScraperLoop

VARIABLE focus

bgVars == <<focus, ingestVars, retentionVars, loopVars>>

Only(component, unchanged) == focus = component /\ UNCHANGED <<focus, unchanged>>

BackgroundInit ==
    /\ focus \in {"ingestion", "retention", "scraper"}
    /\ IngestInit /\ RetentionInit /\ LoopInit

BackgroundNext ==
    \/ Only("ingestion", <<retentionVars, loopVars>>) /\ IngestNext
    \/ Only("retention", <<ingestVars, loopVars>>) /\ RetentionNext
    \/ Only("scraper", <<ingestVars, retentionVars>>) /\ LoopNext

(* Of the scraper workers only one of each kind has to keep going.         *)
Steady == {"w1", "n"}

(* The fairness of each component, for the behaviours it has the focus of. *)
BackgroundFairness ==
    /\ WF_ingestVars(focus = "ingestion" /\ (StartPoll \/ PollStep))
    /\ WF_retentionVars(focus = "retention" /\ DayPasses)
    /\ WF_retentionVars(focus = "retention" /\ RunGoesOn)
    /\ SF_retentionVars(focus = "retention" /\ Purge)
    /\ WF_loopVars(focus = "scraper" /\ TimePasses)
    /\ \A w \in Steady : /\ WF_loopVars(focus = "scraper" /\ RunWork(w))
                         /\ SF_loopVars(focus = "scraper" /\ ClaimWork(w))

BackgroundSpec == BackgroundInit /\ [][BackgroundNext]_bgVars /\ BackgroundFairness

-----------------------------------------------------------------------------
(* Two approved alerts with the same flat on two portals, the second an    *)
(* article that only the repaired parser reads; a mail that reuses the     *)
(* first Message-ID for other content; a mail the policy refuses.          *)
MCMail == 1..4
MCFacts ==
    [a |-> [listing |-> "A", title |-> 1, location |-> 1, rooms |-> 2,
            area |-> 40, price |-> 100, observed |-> 1],
     b |-> [listing |-> "B", title |-> 1, location |-> 1, rooms |-> 2,
            area |-> 40, price |-> 104, observed |-> 2]]
MCMailOf ==
    << [sender |-> "allowed", intact |-> TRUE, id |-> 1, raw |-> 1,
        articles |-> <<"a">>],
       [sender |-> "allowed", intact |-> TRUE, id |-> 2, raw |-> 2,
        articles |-> <<"b">>],
       [sender |-> "allowed", intact |-> TRUE, id |-> 1, raw |-> 3,
        articles |-> <<"a", "b">>],
       [sender |-> "other", intact |-> TRUE, id |-> 3, raw |-> 4,
        articles |-> <<"a">>] >>

(* Two captures of one listing.                                            *)
MCListingOf == [c \in {1, 2} |-> "l"]
MCBenchLife == [b \in {1, 2} |-> b]

(* Two queue workers, two artifact workers that carry different releases.  *)
MCPacks == [w1 |-> {"r1"}, w2 |-> {"r1"}, n |-> {"r1"}, m |-> {"r2"}]
MCNeeds == [a |-> "r1", c |-> "r1"]

=============================================================================
