----------------------------- MODULE BuyerDesk -----------------------------
(***************************************************************************)
(* What the buyer does in the private web application: edits the profile   *)
(* in settings forms, and rates listings through mailed links or in the    *)
(* offer browser; while delivery workers issue the links and an operator   *)
(* drafts and approves profiles.                                           *)
(*                                                                         *)
(* Code: src/homefinder/web/app.py, digest/feedback.py,                    *)
(* catalog/profile_repository.py, cli._feedback_links.  The application is *)
(* one process: a POST handler runs to its end once it has the body.  The  *)
(* operator and the delivery workers are other processes.                  *)
(***************************************************************************)
EXTENDS Naturals, Sequences, FiniteSets, FiniteSetsExt

CONSTANTS
    Browser,            \* browsers of the buyer, which keep one cookie each
    Link,               \* (report, listing) pairs with a feedback link
    Mailer,             \* delivery workers that issue links
    MaxPerMinute,       \* max_events_per_minute
    Minute,             \* length of the rate window
    LinkTtl,            \* life of a link
    DeskHorizon,        \* bound: clock
    MaxForms,           \* bound: settings forms rendered
    MaxDrafts,          \* bound: drafts of an operator
    MaxRatings          \* bound: recorded ratings

ASSUME DeskAssumption ==
    /\ {MaxPerMinute, Minute, LinkTtl, DeskHorizon, MaxForms, MaxDrafts, MaxRatings}
          \subseteq Nat \ {0}
    /\ Browser \cap {"operator", "nobody"} = {}
    /\ "browser" \notin Link

VARIABLES
    deskClock,
    profiles,           \* buyer_profiles: version -> edits in it, approval, author
    forms,              \* open settings forms: csrf, browser, the edits shown
    cookie,             \* homefinder_settings_csrf of each browser
    rendered,           \* forms rendered so far: the next csrf value
    saving,             \* the settings request being served
    links,              \* feedback_tokens
    issuing,            \* what each mailer has read
    mailed,             \* tokens that went out (history)
    ratings             \* feedback_events

deskVars == <<deskClock, profiles, forms, cookie, rendered, saving, links,
              issuing, mailed, ratings>>

settingsVars == <<profiles, forms, cookie, rendered, saving>>
ratingVars == <<links, issuing, mailed, ratings>>

NoLink == [expires |-> 0, used |-> FALSE]
NothingRead == [link |-> "none", expires |-> 0, found |-> FALSE]
NotSaving == [version |-> 0, by |-> "nobody", edits |-> {}]

-----------------------------------------------------------------------------
(* Profile versions: a sequence, since next_version is one more than the   *)
(* highest, drafts included.                                               *)
Approvals == {v \in 1..Len(profiles) : profiles[v].approved # 0}

(* active: the highest approved version.                                   *)
ActiveProfile == IF Approvals = {} THEN 0 ELSE Max(Approvals)

NextVersion == Len(profiles) + 1
Approval == Cardinality(Approvals) + 1      \* order of approvals, for approved_at

(* External: add_draft and approve, by an operator.                        *)
AddDraft ==
    /\ Cardinality({v \in 1..Len(profiles) : profiles[v].by = "operator"}) < MaxDrafts
    /\ profiles' = Append(profiles, [edits |-> {<<"draft", NextVersion>>},
                                     approved |-> 0, by |-> "operator"])
    /\ UNCHANGED <<deskClock, forms, cookie, rendered, saving, ratingVars>>

Approve(v) ==
    /\ profiles[v].approved = 0
    /\ profiles' = [profiles EXCEPT ![v].approved = Approval]
    /\ UNCHANGED <<deskClock, forms, cookie, rendered, saving, ratingVars>>

(* profile_settings: the form shows the active profile; its csrf value     *)
(* replaces the one in the browser's cookie.                               *)
RenderSettings(b) ==
    /\ ActiveProfile # 0
    /\ saving.by # b
    /\ rendered < MaxForms
    /\ rendered' = rendered + 1
    /\ forms' = forms \cup {[csrf |-> rendered', browser |-> b,
                             shows |-> profiles[ActiveProfile].edits]}
    /\ cookie' = [cookie EXCEPT ![b] = rendered']
    /\ UNCHANGED <<deskClock, profiles, saving, ratingVars>>

AnyForm(f) == TRUE

CsrfMatches(f) == cookie[f.browser] = f.csrf

(* _profile_from_settings: all editable fields come from the form.         *)
ProfileFromSettings(f) == f.shows \cup {<<"form", f.csrf>>}

(* update_profile_settings reads the versions.                             *)
PostSettings(f) ==
    /\ saving = NotSaving
    /\ ActiveProfile # 0
    /\ CsrfMatches(f)
    /\ saving' = [version |-> NextVersion, by |-> f.browser,
                  edits |-> ProfileFromSettings(f)]
    /\ forms' = forms \ {f}
    /\ UNCHANGED <<deskClock, profiles, cookie, rendered, ratingVars>>

(* add_approved: a version that appeared meanwhile is a conflict (409).    *)
SaveSettings ==
    /\ saving # NotSaving
    /\ profiles' = IF saving.version = NextVersion
                     THEN Append(profiles, [edits |-> saving.edits,
                                            approved |-> Approval, by |-> saving.by])
                     ELSE profiles
    /\ saving' = NotSaving
    /\ UNCHANGED <<deskClock, forms, cookie, rendered, ratingVars>>

-----------------------------------------------------------------------------
(* _feedback_links: a first issue lasts from now.                          *)
FirstExpiry == deskClock + LinkTtl

(* issue_stable: the token follows from report, listing and expiry, so a   *)
(* retry of the mail finds the expiry of the first issue and repeats it.   *)
IssueRead(w, l) ==
    /\ issuing[w] = NothingRead
    /\ issuing' = [issuing EXCEPT ![w] =
          IF links[l] # NoLink
            THEN [link |-> l, expires |-> links[l].expires, found |-> TRUE]
            ELSE [link |-> l, expires |-> FirstExpiry, found |-> FALSE]]
    /\ UNCHANGED <<deskClock, settingsVars, links, mailed, ratings>>

IssuedAgain(w) == TRUE

(* The unique key of a link: the insert of a second worker fails.          *)
Issued(w) == issuing[w].found \/ links[issuing[w].link] = NoLink

IssueInsert(w) ==
    /\ issuing[w] # NothingRead
    /\ LET l == issuing[w].link IN
        IF Issued(w)
          THEN /\ links' = IF issuing[w].found THEN links
                             ELSE [links EXCEPT ![l] = [expires |-> issuing[w].expires,
                                                        used |-> FALSE]]
               /\ mailed' = mailed \cup {<<l, issuing[w].expires>>}
          ELSE UNCHANGED <<links, mailed>>
    /\ issuing' = [issuing EXCEPT ![w] = NothingRead]
    /\ UNCHANGED <<deskClock, settingsVars, ratings>>

(* The rate limit of record and record_authenticated.                      *)
RateExceeded == Cardinality({r \in ratings : r.at + Minute > deskClock}) >= MaxPerMinute

RateWith(via) ==
    /\ ~RateExceeded
    /\ Cardinality(ratings) < MaxRatings
    /\ ratings' = ratings \cup {[id |-> Cardinality(ratings), at |-> deskClock,
                                 via |-> via]}

(* The condition of the UPDATE that uses a token up.                       *)
UsableToken(l, expires) ==
    /\ links[l].expires = expires
    /\ ~links[l].used
    /\ links[l].expires > deskClock

(* record, with a token from a mail; anything else is refused.             *)
RateByLink(l, expires) ==
    /\ <<l, expires>> \in mailed
    /\ UsableToken(l, expires)
    /\ RateWith(l)
    /\ links' = [links EXCEPT ![l].used = TRUE]
    /\ UNCHANGED <<deskClock, settingsVars, issuing, mailed>>

(* record_authenticated, in the offer browser.                             *)
RateInBrowser ==
    /\ RateWith("browser")
    /\ UNCHANGED <<deskClock, settingsVars, links, issuing, mailed>>

DeskTick ==
    /\ deskClock < DeskHorizon
    /\ deskClock' = deskClock + 1
    /\ UNCHANGED <<settingsVars, ratingVars>>

DeskInit ==
    /\ deskClock = 0
    /\ profiles = <<>>
    /\ forms = {}
    /\ cookie = [b \in Browser |-> 0]
    /\ rendered = 0
    /\ saving = NotSaving
    /\ links = [l \in Link |-> NoLink]
    /\ issuing = [w \in Mailer |-> NothingRead]
    /\ mailed = {}
    /\ ratings = {}

SettingsNext ==
    \/ AddDraft \/ SaveSettings
    \/ \E v \in 1..Len(profiles) : Approve(v)
    \/ \E b \in Browser : RenderSettings(b)
    \/ \E f \in forms : PostSettings(f)

RatingNext ==
    \/ RateInBrowser \/ DeskTick
    \/ \E w \in Mailer : IssueInsert(w) \/ \E l \in Link : IssueRead(w, l)
    \/ \E l \in Link, expires \in LinkTtl..(DeskHorizon + LinkTtl) :
          RateByLink(l, expires)

DeskNext == SettingsNext \/ RatingNext

DeskSpec == DeskInit /\ [][DeskNext]_deskVars

-----------------------------------------------------------------------------
(* A save that drops an edit of the version before it comes from another   *)
(* author: within one browser only the form rendered last can be saved     *)
(* (its csrf value is the one in the cookie), so an older tab cannot undo  *)
(* a newer save.                                                           *)
EditsKeptWithinBrowser ==
    \A v \in 2..Len(profiles) :
        profiles[v].by = profiles[v - 1].by /\ profiles[v].by \in Browser
            => profiles[v - 1].edits \subseteq profiles[v].edits

(* Every link that went out in a mail, by whichever worker and retry, is   *)
(* the one the database knows (issue_stable under its unique key).         *)
MailedLinkIsKnown ==
    \A m \in mailed : links[m[1]] # NoLink /\ links[m[1]].expires = m[2]

(* A link gives at most one rating, and a used one gave exactly one.       *)
LinkRatesOnce ==
    \A l \in Link :
        Cardinality({r \in ratings : r.via = l}) = IF links[l].used THEN 1 ELSE 0

(* No minute sees more ratings than the limit, whichever way they came.    *)
RatingsLimited ==
    \A r \in ratings :
        Cardinality({s \in ratings : s.at \in r.at..(r.at + Minute - 1)})
            <= MaxPerMinute

(* Feedback under racing mailers and requests: every mailed link is known, *)
(* rates once, and the limit of a minute holds.                            *)
FeedbackInvariant == MailedLinkIsKnown /\ LinkRatesOnce /\ RatingsLimited

=============================================================================
