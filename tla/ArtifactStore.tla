--------------------------- MODULE ArtifactStore ---------------------------
(***************************************************************************)
(* The encrypted store of captured pages and its service: metadata with    *)
(* the wrapped keys in SQLite, one ciphertext file per artifact, and no    *)
(* transaction over both.  Uploads, reads, reviews, deletions and the      *)
(* hourly expiry interleave at the transactions' borders, and any of them  *)
(* may stop between a commit and the change of a file.                     *)
(*                                                                         *)
(* Code: src/homefinder/artifacts/{store,api,service,client}.py and        *)
(* artifact_capability.py.  Encryption is left out: a body can be read     *)
(* exactly when its row (which holds the key) and its file are there.      *)
(***************************************************************************)
EXTENDS Naturals, FiniteSets, FiniteSetsExt

CONSTANTS
    Actor,              \* threads and processes that use the store
    Page,               \* pages, by content hash
    Retention,          \* RETENTION
    SampleLimit,        \* unreviewed samples kept of a variant
    MaxLifetime,        \* _MAX_LIFETIME of a capability
    MaxArtifact,        \* bound: artifact ids
    StoreHorizon,       \* bound: clock
    MaxCrashes          \* bound: operations that stop half way

Nobody == "nobody"      \* no connection has the write transaction

ASSUME StoreAssumption ==
    /\ {Retention, SampleLimit, MaxLifetime, MaxArtifact, StoreHorizon, MaxCrashes}
          \subseteq Nat
    /\ Nobody \notin Actor

Artifact == 1..MaxArtifact

VARIABLES
    storeClock,
    rows,               \* artifacts table: id -> page, expires, kind
    tombstones,         \* ids of tombstones
    files,              \* ids of the ciphertext files
    doing,              \* the operation each actor is in
    writer,             \* who has the SQLite write transaction open
    lastArtifact,       \* ids given out
    stored,             \* ids answered to an uploader (history)
    crashes             \* counted for the bound

storeVars == <<storeClock, rows, tombstones, files, doing, writer, lastArtifact,
               stored, crashes>>

NoOperation == [kind |-> "none", phase |-> "none"]
Doing(a, kind, phase) == doing[a].kind = kind /\ doing[a].phase = phase
Inside(a, kind, phase) == Doing(a, kind, phase) /\ writer = a

Continue(a, op) == doing' = [doing EXCEPT ![a] = op]
GoTo(a, phase) == Continue(a, [doing[a] EXCEPT !.phase = phase])
End(a) == Continue(a, NoOperation) /\ writer' = IF writer = a THEN Nobody ELSE writer

Dead(row, now) == row.expires <= now

-----------------------------------------------------------------------------
(* An operation is requested.  Its "now" is read before the transaction.   *)
Request(a, op) ==
    /\ doing[a] = NoOperation
    /\ Continue(a, op)
    /\ UNCHANGED <<storeClock, rows, tombstones, files, writer, lastArtifact,
                   stored, crashes>>

(* upload, from a worker of the portal: pages of the future and pages that *)
(* are out of retention are refused.  A quality sample expires first.      *)
RequestStore(a, p, fetched, sample) ==
    /\ fetched <= storeClock
    /\ fetched + Retention > storeClock
    /\ lastArtifact + Cardinality({b \in Actor : doing[b].kind = "store"}) < MaxArtifact
    /\ Request(a, [kind |-> "store", phase |-> IF sample THEN "expire" ELSE "begin",
                   page |-> p, expires |-> fetched + Retention,
                   now |-> storeClock, sample |-> sample, todo |-> {}])

(* issue: a capability lasts no longer than the lease it is issued for.    *)
CapabilityExpiry(issued, lease) == Min({lease, issued + MaxLifetime})

(* verify, for a capability that was signed at issued.                     *)
Verified(issued, lease) ==
    /\ issued <= storeClock
    /\ CapabilityExpiry(issued, lease) > storeClock

(* read, with a capability for the artifact; without its audit line it     *)
(* goes no further.                                                        *)
RequestRead(a, i, issued, lease) ==
    /\ Verified(issued, lease)
    /\ Request(a, [kind |-> "read", phase |-> "begin", id |-> i])

RequestReview(a, i, correct) ==
    /\ Request(a, [kind |-> "review", phase |-> "begin", id |-> i, correct |-> correct])

RequestDelete(a, i) ==
    /\ Request(a, [kind |-> "delete", phase |-> "begin", id |-> i])

RequestExpire(a) ==
    /\ Request(a, [kind |-> "expire", phase |-> "expire", now |-> storeClock,
                   todo |-> {}])

(* BEGIN IMMEDIATE.                                                        *)
BeginTransaction(a) ==
    /\ doing[a].phase \in {"begin", "again", "expire"}
    /\ writer = Nobody
    /\ writer' = a
    /\ IF doing[a].phase = "expire"
         THEN Continue(a, [doing[a] EXCEPT !.phase = "shredding",
                  !.todo = {i \in DOMAIN rows : Dead(rows[i], doing[a].now)}])
         ELSE IF doing[a].phase = "begin" THEN GoTo(a, "look")
                                          ELSE Continue(a, doing[a].resume)
    /\ UNCHANGED <<storeClock, rows, tombstones, files, lastArtifact, stored, crashes>>

FileFirst(a, i, op) ==
    /\ files' = files \ {i}
    /\ writer' = Nobody
    /\ Continue(a, op)
    /\ UNCHANGED <<rows, tombstones>>

(* _shred: tombstone and deletion of the row (with the key) are committed, *)
(* the file is unlinked after that, then a new transaction begins.         *)
Shred(a, i, op) ==
    /\ rows' = [j \in DOMAIN rows \ {i} |-> rows[j]]
    /\ tombstones' = tombstones \cup {i}
    /\ writer' = Nobody
    /\ Continue(a, op)
    /\ UNCHANGED files

(* The operation that waits for the unlink, and how it goes on after it.   *)
Unlinking(i, resume) ==
    [kind |-> resume.kind, phase |-> "unlink", unlink |-> i, resume |-> resume]

ShredThen(a, i, phase) ==
    /\ Shred(a, i, Unlinking(i, [doing[a] EXCEPT !.phase = phase]))
    /\ UNCHANGED <<storeClock, lastArtifact, stored, crashes>>

Unlink(a) ==
    /\ doing[a].phase = "unlink"
    /\ files' = files \ {doing[a].unlink}
    /\ GoTo(a, "again")
    /\ UNCHANGED <<storeClock, rows, tombstones, writer, lastArtifact, stored, crashes>>

-----------------------------------------------------------------------------
Existing(p) == {i \in DOMAIN rows : rows[i].page = p}

(* The known page of _store: out of date, it is shredded and looked for    *)
(* again, because another uploader may have stored it meanwhile.           *)
StoreShreds(a) ==
    /\ Inside(a, "store", "look")
    /\ \E i \in Existing(doing[a].page) :
          Dead(rows[i], doing[a].now) /\ ShredThen(a, i, "look")

(* A page stored again never lives longer.                                 *)
ShorterOf(old, new) == IF new < old THEN new ELSE old

StoreKnown(a) ==
    /\ Inside(a, "store", "look")
    /\ \E i \in Existing(doing[a].page) :
          /\ ~Dead(rows[i], doing[a].now)
          /\ rows' = [rows EXCEPT ![i].kind = IF doing[a].sample THEN @ ELSE "diagnostic",
                                  ![i].expires = ShorterOf(@, doing[a].expires)]
          /\ stored' = stored \cup {i}
    /\ End(a)
    /\ UNCHANGED <<storeClock, tombstones, files, lastArtifact, crashes>>

Samples == {i \in DOMAIN rows : rows[i].kind = "sample"}

(* No more than SampleLimit samples of a variant.                          *)
StoreRefused(a) ==
    /\ Inside(a, "store", "look")
    /\ Existing(doing[a].page) = {}
    /\ doing[a].sample /\ Cardinality(Samples) >= SampleLimit
    /\ End(a)
    /\ UNCHANGED <<storeClock, rows, tombstones, files, lastArtifact, stored, crashes>>

(* A new page: the file is written inside the transaction.                 *)
StoreFile(a) ==
    /\ Inside(a, "store", "look")
    /\ Existing(doing[a].page) = {}
    /\ doing[a].sample => Cardinality(Samples) < SampleLimit
    /\ lastArtifact' = lastArtifact + 1
    /\ files' = files \cup {lastArtifact'}
    /\ GoTo(a, "insert")
    /\ UNCHANGED <<storeClock, rows, tombstones, writer, stored, crashes>>

NewRow(op) == [page |-> op.page, expires |-> op.expires,
               kind |-> IF op.sample THEN "sample" ELSE "diagnostic"]

StoreRow(a) ==
    /\ Inside(a, "store", "insert")
    /\ rows' = [i \in DOMAIN rows \cup {lastArtifact} |->
                   IF i = lastArtifact THEN NewRow(doing[a]) ELSE rows[i]]
    /\ stored' = stored \cup {lastArtifact}
    /\ End(a)
    /\ UNCHANGED <<storeClock, tombstones, files, lastArtifact, crashes>>

(* The insert raises: the file is taken back.                              *)
StoreFails(a) ==
    /\ Inside(a, "store", "insert")
    /\ files' = files \ {lastArtifact}
    /\ End(a)
    /\ UNCHANGED <<storeClock, rows, tombstones, lastArtifact, stored, crashes>>

-----------------------------------------------------------------------------
Live(a) == doing[a].id \in DOMAIN rows /\ ~Dead(rows[doing[a].id], storeClock)

(* _live_row finds nothing, for a read or a review.                        *)
LookupFails(a) ==
    /\ Inside(a, "read", "look") \/ Inside(a, "review", "look")
    /\ doing[a].id \notin DOMAIN rows
    /\ End(a)
    /\ UNCHANGED <<storeClock, rows, tombstones, files, lastArtifact, stored, crashes>>

(* _live_row shreds what is out of date before it raises.                  *)
LookupShreds(a) ==
    /\ Inside(a, "read", "look") \/ Inside(a, "review", "look")
    /\ doing[a].id \in DOMAIN rows
    /\ ~Live(a)
    /\ ShredThen(a, doing[a].id, "end")

ReadBody(a) ==
    /\ Inside(a, "read", "look")
    /\ Live(a)
    /\ doing[a].id \in files
    /\ End(a)
    /\ UNCHANGED <<storeClock, rows, tombstones, files, lastArtifact, stored, crashes>>

(* review_quality_sample: a correct sample is shredded, another one is     *)
(* kept as diagnostic; other artifacts stay.                               *)
Review(a) ==
    /\ Inside(a, "review", "look")
    /\ Live(a)
    /\ LET i == doing[a].id IN
        IF rows[i].kind = "sample" /\ doing[a].correct
          THEN ShredThen(a, i, "end")
          ELSE /\ rows' = [rows EXCEPT ![i].kind = "diagnostic"]
               /\ End(a)
               /\ UNCHANGED <<storeClock, tombstones, files, lastArtifact, stored, crashes>>

(* delete: the row if it is there; the file also when an earlier deletion  *)
(* stopped before it.                                                      *)
DeleteRow(a) ==
    /\ Inside(a, "delete", "look")
    /\ IF doing[a].id \in DOMAIN rows
         THEN ShredThen(a, doing[a].id, "end")
         ELSE /\ files' = IF doing[a].id \in tombstones THEN files \ {doing[a].id} ELSE files
              /\ End(a)
              /\ UNCHANGED <<storeClock, rows, tombstones, lastArtifact, stored, crashes>>

EndShredding(a) ==
    /\ doing[a].phase = "end"
    /\ End(a)
    /\ UNCHANGED <<storeClock, rows, tombstones, files, lastArtifact, stored, crashes>>

(* expire shreds the rows it selected one after the other, whatever        *)
(* happened to them between two of its transactions.                       *)
ExpireShreds(a) ==
    /\ doing[a].phase = "shredding" /\ writer = a
    /\ doing[a].todo # {}
    /\ LET i == Min(doing[a].todo) IN
        Shred(a, i, Unlinking(i, [doing[a] EXCEPT !.todo = @ \ {i}]))
    /\ UNCHANGED <<storeClock, lastArtifact, stored, crashes>>

SweepNothing == files

(* The files of all tombstones go.                                         *)
Swept == files \ tombstones

ExpireEnds(a) ==
    /\ doing[a].phase = "shredding" /\ writer = a
    /\ doing[a].todo = {}
    /\ files' = Swept
    /\ writer' = Nobody
    /\ IF doing[a].kind = "store" THEN GoTo(a, "begin") ELSE Continue(a, NoOperation)
    /\ UNCHANGED <<storeClock, rows, tombstones, lastArtifact, stored, crashes>>

(* The process stops: SQLite rolls back, files stay as they are.           *)
Crash(a) ==
    /\ doing[a] # NoOperation
    /\ crashes < MaxCrashes
    /\ crashes' = crashes + 1
    /\ End(a)
    /\ UNCHANGED <<storeClock, rows, tombstones, files, lastArtifact, stored>>

StoreTick ==
    /\ storeClock < StoreHorizon
    /\ storeClock' = storeClock + 1
    /\ UNCHANGED <<rows, tombstones, files, doing, writer, lastArtifact, stored, crashes>>

StoreInit ==
    /\ storeClock = 0
    /\ rows = [i \in {} |-> 0]
    /\ tombstones = {}
    /\ files = {}
    /\ doing = [a \in Actor |-> NoOperation]
    /\ writer = Nobody
    /\ lastArtifact = 0
    /\ stored = {}
    /\ crashes = 0

(* A requested operation goes on.                                          *)
StoreStep(a) ==
    \/ BeginTransaction(a) \/ Unlink(a) \/ StoreShreds(a) \/ StoreKnown(a)
    \/ StoreRefused(a) \/ StoreFile(a) \/ StoreRow(a) \/ LookupFails(a)
    \/ LookupShreds(a) \/ ReadBody(a) \/ Review(a) \/ DeleteRow(a)
    \/ EndShredding(a) \/ ExpireShreds(a) \/ ExpireEnds(a)

StoreNext ==
    \/ StoreTick
    \/ \E a \in Actor :
          \/ StoreStep(a) \/ StoreFails(a) \/ Crash(a) \/ RequestExpire(a)
          \/ \E p \in Page, t \in 0..StoreHorizon, s \in BOOLEAN : RequestStore(a, p, t, s)
          \/ \E i \in stored : \/ RequestDelete(a, i)
                               \/ \E t \in 0..storeClock, l \in 1..StoreHorizon + 1 :
                                      t < l /\ RequestRead(a, i, t, l)
                               \/ \E c \in BOOLEAN : RequestReview(a, i, c)

(* Threads get the write lock in the end, and the service expires every    *)
(* hour.                                                                   *)
StoreSpec ==
    /\ StoreInit /\ [][StoreNext]_storeVars
    /\ \A a \in Actor : SF_storeVars(StoreStep(a))
    /\ SF_storeVars(\E a \in Actor : RequestExpire(a))

-----------------------------------------------------------------------------
(* A row, whose key opens the ciphertext, always has its file: stops,      *)
(* expiry and deletion at any point leave at most a file without a row,    *)
(* never a row whose page cannot be read (_shred commits before it         *)
(* unlinks, _store writes before it inserts).                              *)
RowHasFile == DOMAIN rows \subseteq files

(* An artifact id that an uploader was given is never lost without trace:  *)
(* it is live or it has a tombstone, and never both.                       *)
StoredIsAccounted ==
    /\ stored \subseteq DOMAIN rows \cup tombstones
    /\ DOMAIN rows \cap tombstones = {}

(* The ciphertext of a deleted artifact goes in the end, also when the     *)
(* deletion stopped between the commit and the unlink: the next expiry     *)
(* sweeps the files of all tombstones.                                     *)
DeletedFileGoes == \A i \in Artifact : i \in tombstones ~> i \notin files

(* Rows, files and tombstones agree after any stop and any interleaving of *)
(* uploads, expiry and deletion.                                           *)
StoreInvariant == RowHasFile /\ StoredIsAccounted

=============================================================================
