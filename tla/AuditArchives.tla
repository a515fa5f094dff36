---- MODULE AuditArchives ----
(***************************************************************************)
(* The archives of the audit log of a tenant.  An archive digests the      *)
(* entries of some days together with the digest of an archive before it;  *)
(* the verification computes the digests again from the entries there are. *)
(* Nobody asks whether the days are over, or whether an earlier archive    *)
(* covers them; and an entry is inserted some time after it took its       *)
(* timestamp.  A digest stands for what was digested.                      *)
(***************************************************************************)
EXTENDS Integers, Sequences, FiniteSets

CONSTANTS
  Requests,     \* requests that append an entry or file an archive
  MaxEntries,   \* bound on the entries
  MaxArchives,  \* bound on the archives
  LastDay       \* bound on the days

VARIABLES
  today,
  entries,   \* the days and the keys of the entries, which are their order
  archives,  \* in the order of their keys
  doing,     \* doing[r]: the entry or the archive request r is working on
  untimely   \* an archive was filed out of turn or before its days were over

vars == <<today, entries, archives, doing, untimely>>

Init ==
  /\ today = 1
  /\ entries = {}
  /\ archives = <<>>
  /\ doing = [r \in Requests |-> {}]
  /\ untimely = FALSE

Tomorrow ==
  /\ today < LastDay
  /\ today' = today + 1
  /\ UNCHANGED <<entries, archives, doing, untimely>>

Stage(r, stage) == {v \in doing[r] : v.stage = stage}

\* An entry takes its timestamp.
Stamp(r) ==
  /\ doing[r] = {}
  /\ Cardinality(entries) < MaxEntries
  /\ doing' = [doing EXCEPT ![r] = {[stage |-> "stamped", day |-> today]}]
  /\ UNCHANGED <<today, entries, archives, untimely>>

\* It is inserted, perhaps in a day an archive has covered.
Insert(r) ==
  \E v \in Stage(r, "stamped") :
    /\ entries' = entries \cup {[day |-> v.day, key |-> Cardinality(entries) + 1]}
    /\ doing' = [doing EXCEPT ![r] = {}]
    /\ untimely' = \/ untimely
                   \/ \E k \in DOMAIN archives : v.day <= archives[k].last
                   \/ \E q \in Requests : Stage(q, "digested") # {}
    /\ UNCHANGED <<today, archives>>

\* The rows of a period.
Rows(first, last) == {e \in entries : first <= e.day /\ e.day <= last}

Digest(before, rows) == <<before, rows>>

NoDigest == <<>>

\* Mutant for ArchivesVerify: an archive that ends the day before is passed over.
PrecedingFarther(last) ==
  LET earlier == {k \in DOMAIN archives : archives[k].last < last - 1}
  IN  IF earlier = {} THEN NoDigest
      ELSE archives[CHOOSE k \in earlier :
             \A j \in earlier : archives[j].last <= archives[k].last].digest

\* The archive with the latest end, of those that end no later than this one.
Preceding(last) ==
  LET earlier == {k \in DOMAIN archives : archives[k].last <= last}
  IN  IF earlier = {} THEN NoDigest
      ELSE archives[CHOOSE k \in earlier :
             \A j \in earlier : archives[j].last <= archives[k].last].digest

\* archive_period: an archive of the same days is returned as it is.
Gather(r, first, last) ==
  /\ doing[r] = {}
  /\ first <= last
  /\ Len(archives) < MaxArchives
  /\ \A k \in DOMAIN archives : archives[k].first # first \/ archives[k].last # last
  /\ doing' = [doing EXCEPT ![r] =
       {[stage |-> "digested", first |-> first, last |-> last,
         digest |-> Digest(Preceding(last), Rows(first, last))]}]
  /\ untimely' = \/ untimely
                 \/ last >= today
                 \/ \E q \in Requests : doing[q] # {}
                 \/ \E k \in DOMAIN archives : archives[k].last >= first
  /\ UNCHANGED <<today, entries, archives>>

\* A unique key refuses a second archive of the same days.
File(r) ==
  \E v \in Stage(r, "digested") :
    /\ archives' =
         IF \E k \in DOMAIN archives : archives[k].first = v.first /\ archives[k].last = v.last
         THEN archives
         ELSE Append(archives, [first |-> v.first, last |-> v.last, digest |-> v.digest])
    /\ doing' = [doing EXCEPT ![r] = {}]
    /\ UNCHANGED <<today, entries, untimely>>

\* The walk of the verification, from the first day on.
Before(j, k) ==
  \/ archives[j].first < archives[k].first
  \/ archives[j].first = archives[k].first /\ j < k

DigestBefore(k) ==
  LET earlier == {j \in DOMAIN archives : Before(j, k)}
  IN  IF earlier = {} THEN NoDigest
      ELSE archives[CHOOSE j \in earlier : \A i \in earlier \ {j} : Before(i, j)].digest

\* verify_chain.
ArchivesHold ==
  \A k \in DOMAIN archives :
    archives[k].digest =
      Digest(DigestBefore(k), Rows(archives[k].first, archives[k].last))

\* A request dies before it has written anything.
Die(r) ==
  /\ doing[r] # {}
  /\ doing' = [doing EXCEPT ![r] = {}]
  /\ UNCHANGED <<today, entries, archives, untimely>>

Next ==
  \/ Tomorrow
  \/ \E r \in Requests :
       \/ Stamp(r) \/ Insert(r)
       \/ \E first, last \in 1..LastDay : Gather(r, first, last)
       \/ File(r) \/ Die(r)

Spec == Init /\ [][Next]_vars

----------------------------------------------------------------------------

\* The archives verify as long as each was filed when its days were over and
\* before any later days were, and no request was late with an entry.
ArchivesVerify == untimely \/ ArchivesHold

====
