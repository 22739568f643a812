----------------------------- MODULE Ingestion -----------------------------
(***************************************************************************)
(* Alert mail becomes catalog rows: the poll of one portal's Gmail label,  *)
(* the alert parser's verdict, the catalog transaction, the labels and the *)
(* quarantine, with calls that fail and a process that stops half way.     *)
(*                                                                         *)
(* Code: src/homefinder/application/{poll_gmail,ingest_alert,gmail_labels} *)
(* .py, catalog/{repository,deduplication}.py, sources/portal_alerts.py.   *)
(* Gmail is external: a set of labels per message and a listing of the     *)
(* messages of a label, newest first.                                      *)
(*                                                                         *)
(* One database session serves the whole poll.  A read opens a transaction *)
(* on it and only a commit closes it again, while add_alert begins one     *)
(* explicitly, which an open session refuses (session.begin of SQLAlchemy, *)
(* external): inTransaction is that state.                                 *)
(***************************************************************************)
EXTENDS Naturals, Sequences, SequencesExt, FiniteSets

CONSTANTS
    Mail,               \* Gmail messages, numbered by arrival
    MailOf,             \* what each contains: sender, intact, id, raw, articles
    FactsOf,            \* what an article says: listing, title, location, rooms...
    Unreadable,         \* articles that only the repaired parser reads
    MaxListings,        \* MAX_LISTINGS_PER_MESSAGE
    PollLimit,          \* max_messages_per_poll
    MaxFaults           \* bound: failing Gmail calls, stops and operator steps

Missing == 0            \* a fact the alert does not state

VARIABLES
    labels,             \* Gmail: labels per message, by role
    quarantined,        \* quarantined_messages rows, by Gmail id
    catalog,            \* the catalog tables
    health,             \* ingestion_states row
    polling,            \* the running poll: rest of its list, counters, step
    inTransaction,      \* the poll's session has a transaction open
    parserFixed,        \* the deployed parser reads Unreadable articles
    faults              \* counted for the bound

ingestVars == <<labels, quarantined, catalog, health, polling, inTransaction,
                parserFixed, faults>>

ASSUME IngestAssumption ==
    /\ Mail \subseteq Nat /\ IsFiniteSet(Mail)
    /\ {MaxListings, PollLimit, MaxFaults} \subseteq Nat
    /\ \A m \in Mail : MailOf[m].articles \in Seq(DOMAIN FactsOf)
    /\ \A m, n \in Mail : MailOf[m].raw = MailOf[n].raw          \* parsing is a
                => MailOf[m].articles = MailOf[n].articles       \* function of raw

Role == {"alert", "processed", "quarantine", "retry"}
Idle == [step |-> "idle", rest |-> <<>>, failed |-> 0, rejected |-> 0]

-----------------------------------------------------------------------------

(* deterministic_duplicate_key.                                            *)
DuplicateKey(titles, a) ==
    LET f == FactsOf[a] IN
    IF Missing \in {f.location, f.rooms, f.area}
      THEN <<"listing", f.listing>>
      ELSE <<f.location, titles[f.listing], f.rooms, f.area>>

Near(x, y, tolerance) ==
    x # Missing /\ y # Missing /\ x <= y + tolerance /\ y <= x + tolerance

(* At most 5% of the higher price apart.                                   *)
PriceNear(x, y) ==
    x # Missing /\ y # Missing /\ 19 * x <= 20 * y /\ 19 * y <= 20 * x

(* duplicate_evidence: the score of a pair, in hundredths.                 *)
DuplicateEvidence(titles, a, b) ==
    LET f == FactsOf[a]
        g == FactsOf[b]
        Score(holds, weight) == IF holds THEN weight ELSE 0
    IN  Score(Near(f.location, g.location, 0), 35)
      + Score(titles[f.listing] = titles[g.listing], 25)
      + Score(Near(f.rooms, g.rooms, 0), 15)
      + Score(Near(f.area, g.area, 1), 15)
      + Score(PriceNear(f.price, g.price), 10)

NewestOf(snapshots, listing) ==
    CHOOSE a \in snapshots :
        /\ FactsOf[a].listing = listing
        /\ \A b \in snapshots : FactsOf[b].listing = listing
                                    => FactsOf[b].observed <= FactsOf[a].observed

(* _record_fuzzy_evidence: pairs with the newest snapshot of each other    *)
(* listing, once per pair.                                                 *)
FuzzyPairs(titles, snapshots, a) ==
    {{FactsOf[a].listing, other} : other \in
        {l \in DOMAIN titles \ {FactsOf[a].listing} :
            DuplicateEvidence(titles, a, NewestOf(snapshots, l)) >= 60}}

(* _store_item of every article of a mail, in order; parse has seen to it  *)
(* that no two are of one listing.  After the first n of them: the titles, *)
(* of which a listing keeps its first, and the snapshots.  Each article    *)
(* gets its candidate's link and is compared with what is there by then.   *)
StoreItems(db, articles) ==
    LET TitleIn(l) ==
            FactsOf[CHOOSE a \in ToSet(articles) : FactsOf[a].listing = l].title
        Titles(n) ==
            [l \in DOMAIN db.titles \cup {FactsOf[articles[i]].listing : i \in 1..n} |->
                IF l \in DOMAIN db.titles THEN db.titles[l] ELSE TitleIn(l)]
        Snapshots(n) == db.snapshots \cup {articles[i] : i \in 1..n}
        Link(a) == <<DuplicateKey(Titles(Len(articles)), a), FactsOf[a].listing>>
    IN [messages |-> db.messages,
        titles |-> Titles(Len(articles)),
        snapshots |-> Snapshots(Len(articles)),
        links |-> db.links \cup {Link(a) : a \in ToSet(articles)},
        evidence |-> db.evidence \cup
            UNION {FuzzyPairs(Titles(n), Snapshots(n), articles[n]) : n \in DOMAIN articles}]

SameId(m) == {row \in catalog.messages : row.id = MailOf[m].id}

(* A Message-ID already stored with other content.                         *)
Conflicting(m) == \E row \in SameId(m) : row.raw # MailOf[m].raw

(* add_alert of a message that does not conflict: nothing for a known      *)
(* Message-ID, otherwise all items and the message row in one transaction. *)
AddAlert(m) ==
    IF SameId(m) # {}
      THEN catalog
      ELSE [StoreItems(catalog, MailOf[m].articles) EXCEPT
                !.messages = @ \cup {[id |-> MailOf[m].id, raw |-> MailOf[m].raw]}]

-----------------------------------------------------------------------------
(* _policy_failure: size and sender, before the parser sees the mail.      *)
Suspicious(m) == MailOf[m].sender # "allowed"

(* parse: the whole message is refused when its structure, any one article *)
(* or the set of listings is not in order.                                 *)
Parses(m) ==
    LET articles == MailOf[m].articles
        listings == {FactsOf[a].listing : a \in ToSet(articles)}
    IN  /\ MailOf[m].intact
        /\ articles # <<>>
        /\ Len(articles) <= MaxListings
        /\ parserFixed \/ ToSet(articles) \cap Unreadable = {}
        /\ Cardinality(listings) = Len(articles)

At(step) == polling.step = step
Current == Head(polling.rest)
InHand(m) == At("message") /\ polling.rest # <<>> /\ m = Current

(* list_messages: messages of the alert label, newest first.               *)
AlertList ==
    LET all == {m \in Mail : "alert" \in labels[m]}
        listed == IF Cardinality(all) < PollLimit THEN Cardinality(all) ELSE PollLimit
    IN  [i \in 1..listed |->
            CHOOSE m \in all : Cardinality({newer \in all : newer > m}) = i - 1]

(* _record_error and _record_success.                                      *)
RecordError == health' = [status |-> "degraded", failing |-> TRUE]
RecordSuccess ==
    health' = [status |-> IF polling.rejected = 0 THEN "healthy" ELSE "degraded",
               failing |-> FALSE]

(* On to the next message, or to a label change that is still to be made.  *)
Proceed(counters) ==
    polling' = [counters EXCEPT !.step = "message", !.rest = Tail(@)]

AwaitLabels(kind) == polling' = [polling EXCEPT !.step = kind]

(* _quarantine: a new row is committed, a known one is only read.          *)
Quarantine(m) ==
    /\ quarantined' = quarantined \cup {m}
    /\ inTransaction' = (m \in quarantined)

(* The cycle starts: a new session, the portal's four labels, their list.  *)
StartPoll ==
    /\ At("idle")
    /\ polling' = [Idle EXCEPT !.step = "message", !.rest = AlertList]
    /\ inTransaction' = FALSE
    /\ UNCHANGED <<labels, quarantined, catalog, health, parserFixed, faults>>

(* get_message or the catalog transaction raises.                          *)
ReadFails(m) ==
    /\ InHand(m)
    /\ faults < MaxFaults
    /\ faults' = faults + 1
    /\ RecordError
    /\ inTransaction' = FALSE
    /\ AwaitLabels("retry")
    /\ UNCHANGED <<labels, quarantined, catalog, parserFixed>>

(* The alert label went away after the message was listed.                 *)
SkipUnlabelled(m) ==
    /\ InHand(m)
    /\ "alert" \notin labels[m]
    /\ RecordError
    /\ inTransaction' = FALSE
    /\ Proceed([polling EXCEPT !.failed = 1])
    /\ UNCHANGED <<labels, quarantined, catalog, parserFixed, faults>>

(* A message the source policy refuses keeps all its labels.               *)
RejectByPolicy(m) ==
    /\ InHand(m)
    /\ "alert" \in labels[m]
    /\ Suspicious(m)
    /\ Quarantine(m)
    /\ Proceed([polling EXCEPT !.rejected = 1])
    /\ UNCHANGED <<labels, catalog, health, parserFixed, faults>>

Admitted(m) == InHand(m) /\ "alert" \in labels[m] /\ ~Suspicious(m)

(* AlertParseError from the parser, or for a reused Message-ID.            *)
RejectByParser(m) ==
    /\ Admitted(m)
    /\ ~Parses(m) \/ (~inTransaction /\ Conflicting(m))
    /\ Quarantine(m)
    /\ AwaitLabels("quarantine")
    /\ UNCHANGED <<labels, catalog, health, parserFixed, faults>>

(* add_alert cannot begin its transaction on the session's open one.       *)
BeginRefused(m) ==
    /\ Admitted(m)
    /\ Parses(m)
    /\ inTransaction
    /\ RecordError
    /\ inTransaction' = FALSE
    /\ AwaitLabels("retry")
    /\ UNCHANGED <<labels, quarantined, catalog, parserFixed, faults>>

Ingest(m) ==
    /\ Admitted(m)
    /\ Parses(m)
    /\ ~inTransaction
    /\ ~Conflicting(m)
    /\ catalog' = AddAlert(m)
    /\ AwaitLabels("processed")
    /\ UNCHANGED <<labels, quarantined, health, inTransaction, parserFixed, faults>>

AddsOnly(m) == labels[m] \cup {polling.step}

(* The label changes of the three endings.                                 *)
Relabelled(m) ==
    (labels[m] \cup {polling.step}) \
        (IF At("retry") THEN {"processed", "quarantine"} ELSE Role \ {polling.step})

AwaitingLabels == polling.step \in {"processed", "quarantine", "retry"}

DropAnyRow(m) == quarantined' = quarantined \ {m}

(* Only after the processed label a row left from an earlier parser goes.  *)
DropStaleRow(m) ==
    quarantined' = IF At("processed") THEN quarantined \ {m} ELSE quarantined

(* modify_labels succeeds; the lookup of a stale row opens a transaction   *)
(* that only its deletion commits.                                         *)
ApplyLabels ==
    /\ AwaitingLabels
    /\ labels' = [labels EXCEPT ![Current] = Relabelled(Current)]
    /\ DropStaleRow(Current)
    /\ inTransaction' = IF At("processed") THEN Current \notin quarantined
                                            ELSE inTransaction
    /\ Proceed([polling EXCEPT
            !.failed = IF At("retry") THEN 1 ELSE @,
            !.rejected = IF At("quarantine") THEN 1 ELSE @])
    /\ UNCHANGED <<catalog, health, parserFixed, faults>>

(* modify_labels raises, whether or not Gmail applied it: the exception    *)
(* ends the poll.                                                          *)
LabelsFail ==
    /\ AwaitingLabels
    /\ faults < MaxFaults
    /\ faults' = faults + 1
    /\ \/ labels' = [labels EXCEPT ![Current] = Relabelled(Current)]
       \/ UNCHANGED labels
    /\ polling' = Idle
    /\ inTransaction' = FALSE
    /\ UNCHANGED <<quarantined, catalog, health, parserFixed>>

FinishPoll ==
    /\ At("message")
    /\ polling.rest = <<>>
    /\ IF polling.failed = 0 THEN RecordSuccess ELSE UNCHANGED health
    /\ polling' = Idle
    /\ inTransaction' = FALSE
    /\ UNCHANGED <<labels, quarantined, catalog, parserFixed, faults>>

(* The process stops between two calls.                                    *)
StopPoll ==
    /\ ~At("idle")
    /\ faults < MaxFaults
    /\ faults' = faults + 1
    /\ polling' = Idle
    /\ inTransaction' = FALSE
    /\ UNCHANGED <<labels, quarantined, catalog, health, parserFixed>>

Arrived(m) == "inbox" \in labels[m]

(* External: Gmail's filter labels new mail; the owner of the mailbox      *)
(* takes an alert back or returns a quarantined one; a repaired parser is  *)
(* deployed.                                                               *)
Arrive(m) ==
    /\ ~Arrived(m)
    /\ \A n \in Mail : n < m => Arrived(n)
    /\ labels' = [labels EXCEPT ![m] = {"inbox", "alert"}]
    /\ UNCHANGED <<quarantined, catalog, health, polling, inTransaction,
                   parserFixed, faults>>

Operate(m) ==
    /\ faults < MaxFaults
    /\ faults' = faults + 1
    /\ \/ /\ "alert" \in labels[m]
          /\ labels' = [labels EXCEPT ![m] = @ \ {"alert"}]
          /\ UNCHANGED parserFixed
       \/ /\ "quarantine" \in labels[m]
          /\ labels' = [labels EXCEPT ![m] = @ \cup {"alert"}]
          /\ parserFixed' = TRUE
    /\ UNCHANGED <<quarantined, catalog, health, polling, inTransaction>>

-----------------------------------------------------------------------------
IngestInit ==
    /\ labels = [m \in Mail |-> {}]
    /\ quarantined = {}
    /\ catalog = [messages |-> {}, titles |-> <<>>, snapshots |-> {},
                  links |-> {}, evidence |-> {}]
    /\ health = [status |-> "unknown", failing |-> FALSE]
    /\ polling = Idle
    /\ inTransaction = FALSE
    /\ parserFixed = FALSE
    /\ faults = 0

(* What a poll does next when no call fails.                               *)
PollStep ==
    \/ ApplyLabels
    \/ FinishPoll
    \/ \E m \in Mail : \/ SkipUnlabelled(m) \/ RejectByPolicy(m)
                        \/ RejectByParser(m) \/ BeginRefused(m) \/ Ingest(m)

IngestNext ==
    \/ StartPoll
    \/ PollStep
    \/ LabelsFail
    \/ StopPoll
    \/ \E m \in Mail : ReadFails(m) \/ Arrive(m) \/ Operate(m)

(* The worker polls periodically and every remote call has a timeout.      *)
IngestFairness == WF_ingestVars(StartPoll) /\ WF_ingestVars(PollStep)

IngestSpec == IngestInit /\ [][IngestNext]_ingestVars /\ IngestFairness

-----------------------------------------------------------------------------
(* Types; a poll that awaits a label change has a message in hand.         *)
IngestTypeOK ==
    /\ labels \in [Mail -> SUBSET (Role \cup {"inbox"})]
    /\ quarantined \subseteq Mail
    /\ polling.rest \in Seq(Mail)
    /\ {polling.failed, polling.rejected} \subseteq {0, 1}
    /\ health.status \in {"unknown", "healthy", "degraded"}
    /\ {inTransaction, parserFixed, health.failing} \subseteq BOOLEAN
    /\ faults \in 0..MaxFaults
    /\ AwaitingLabels => polling.rest # <<>>

(* Mail that carries the processed label is in the catalog, with exactly   *)
(* this content and every listing it named, whatever call failed between   *)
(* the catalog transaction and the label (poll handles labels after the    *)
(* commit of add_alert).                                                   *)
ProcessedIsStored ==
    \A m \in Mail : "processed" \in labels[m] =>
        /\ [id |-> MailOf[m].id, raw |-> MailOf[m].raw] \in catalog.messages
        /\ ToSet(MailOf[m].articles) \subseteq catalog.snapshots

(* The original of a quarantined message is never lost: while it carries   *)
(* the quarantine label its row is there, through retries, replays after a *)
(* parser repair and label calls that fail half way.                       *)
QuarantineKeepsOriginal ==
    \A m \in Mail : "quarantine" \in labels[m] => m \in quarantined

(* Two snapshots that state the same place, rooms and area of listings     *)
(* with the same stored title share a candidate, in whichever mails,       *)
(* portals and order they were stored (deterministic_duplicate_key and     *)
(* _store_item, which looks the candidate up by key before it creates one).*)
SameFlatSameCandidate ==
    \A a, b \in catalog.snapshots :
        LET f == FactsOf[a]
            g == FactsOf[b]
        IN  /\ <<f.location, f.rooms, f.area>> = <<g.location, g.rooms, g.area>>
            /\ Missing \notin {f.location, f.rooms, f.area}
            /\ catalog.titles[f.listing] = catalog.titles[g.listing]
            => \E c \in {link[1] : link \in catalog.links} :
                  {<<c, f.listing>>, <<c, g.listing>>} \subseteq catalog.links

(* What IMPLEMENTATION_PLAN.md says of the poll: an approved alert is      *)
(* processed, failures are left for a retry that comes.                    *)
Settles(m) == "alert" \in labels[m] /\ ~Suspicious(m) ~> "alert" \notin labels[m]
EveryAlertSettles == \A m \in Mail : Settles(m)

(* As long as no mail that the policy refuses is in the mailbox, every     *)
(* alert leaves the queue, although each success makes the poll refuse the *)
(* message after it (the session stays in a transaction).                  *)
AlertsSettleWithoutSuspicious ==
    \A m \in Mail :
        "alert" \in labels[m] ~>
            \/ "alert" \notin labels[m]
            \/ \E n \in Mail : Suspicious(n) /\ Arrived(n)

(* Between Gmail and the catalog nothing is lost or doubled: processed     *)
(* mail is stored, quarantined mail is kept, and equal flats meet in one   *)
(* candidate.                                                              *)
IngestInvariant ==
    IngestTypeOK /\ ProcessedIsStored /\ QuarantineKeepsOriginal /\ SameFlatSameCandidate

=============================================================================
