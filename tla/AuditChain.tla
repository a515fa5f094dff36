---- MODULE AuditChain ----
(***************************************************************************)
(* The hash chain of the audit log of a tenant.  An entry takes its        *)
(* timestamp when it is constructed, reads the hash of the latest entry    *)
(* and is inserted, with nothing to keep two requests from doing so at     *)
(* once; the verification walks the entries in the order of their          *)
(* timestamps.                                                             *)
(*                                                                         *)
(* A hash stands for what was hashed: the sequence of payloads.  The clock *)
(* is coarse: entries may have one timestamp, and are then in the order of *)
(* their keys.                                                             *)
(***************************************************************************)
EXTENDS Integers, Sequences

CONSTANTS
  Users,       \* the users whom entries name
  Requests,    \* requests that append an entry
  MaxEntries,  \* bound on the entries
  LastTick     \* bound on the clock

VARIABLES
  now,
  users,     \* those who have not been deleted
  entries,   \* in the order of their keys
  adding,    \* adding[r]: the entry request r is about to insert
  raced,     \* two requests overlapped while they appended
  redacted   \* a user whom entries name has been deleted

vars == <<now, users, entries, adding, raced, redacted>>

NoUser == "no user"

Init ==
  /\ now = 1
  /\ users = Users
  /\ entries = <<>>
  /\ adding = [r \in Requests |-> {}]
  /\ raced = FALSE
  /\ redacted = FALSE

Tick ==
  /\ now < LastTick
  /\ now' = now + 1
  /\ UNCHANGED <<users, entries, adding, raced, redacted>>

Stage(r, stage) == {v \in adding[r] : v.stage = stage}

Appending == {r \in Requests : adding[r] # {}}

\* What is hashed of an entry, besides the hash before it.
Payload(e) == <<e.user, e.time>>

Hash(before, e) == Append(before, Payload(e))

\* The order of the entries: by timestamp, then by key.
Earlier(es, j, k) == es[j].time < es[k].time \/ (es[j].time = es[k].time /\ j < k)

LatestOf(es, some) == CHOOSE k \in some : \A j \in some \ {k} : Earlier(es, j, k)

----------------------------------------------------------------------------

\* timestamp = default=timezone.now.
Stamp(r, u) ==
  /\ u \in users \cup {NoUser}
  /\ adding[r] = {}
  /\ Len(entries) < MaxEntries
  /\ adding' = [adding EXCEPT ![r] =
       {[stage |-> "stamped", user |-> u, time |-> now, before |-> <<>>]}]
  /\ raced' = (raced \/ Appending # {})
  /\ UNCHANGED <<now, users, entries, redacted>>

\* Mutant for ChainVerifies: the order is ascending.
EarliestHash(es) ==
  IF es = <<>> THEN <<>>
  ELSE es[CHOOSE k \in DOMAIN es : \A j \in DOMAIN es \ {k} : Earlier(es, k, j)].hash

\* order_by("-timestamp", "-pk").first().
LatestHash(es) == IF es = <<>> THEN <<>> ELSE es[LatestOf(es, DOMAIN es)].hash

\* apply_hash_chain.
Chain(r) ==
  \E v \in Stage(r, "stamped") :
    /\ adding' = [adding EXCEPT ![r] =
         {[v EXCEPT !.stage = "chained", !.before = LatestHash(entries)]}]
    /\ UNCHANGED <<now, users, entries, raced, redacted>>

\* The foreign key wants the user to be there still.
Insert(r) ==
  \E v \in Stage(r, "chained") :
    /\ v.user \in users \cup {NoUser}
    /\ entries' = Append(entries,
         [user |-> v.user, time |-> v.time, before |-> v.before, hash |-> Hash(v.before, v)])
    /\ adding' = [adding EXCEPT ![r] = {}]
    /\ UNCHANGED <<now, users, raced, redacted>>

\* A user is deleted: SET_NULL takes the name out of the entries.
DeleteUser(u) ==
  /\ u \in users
  /\ users' = users \ {u}
  /\ entries' = [k \in DOMAIN entries |->
       [entries[k] EXCEPT !.user = IF @ = u THEN NoUser ELSE @]]
  /\ redacted' = (redacted \/ \E k \in DOMAIN entries : entries[k].user = u)
  /\ UNCHANGED <<now, adding, raced>>

\* verify_chain: every link and every hash.
Verifies(es) ==
  \A k \in DOMAIN es :
    LET earlier == {j \in DOMAIN es : Earlier(es, j, k)}
    IN  /\ es[k].before = IF earlier = {} THEN <<>> ELSE es[LatestOf(es, earlier)].hash
        /\ es[k].hash = Hash(es[k].before, es[k])

\* A request dies before it has written anything.
Die(r) ==
  /\ adding[r] # {}
  /\ adding' = [adding EXCEPT ![r] = {}]
  /\ UNCHANGED <<now, users, entries, raced, redacted>>

Next ==
  \/ Tick
  \/ \E r \in Requests :
       \/ \E u \in Users \cup {NoUser} : Stamp(r, u)
       \/ Chain(r) \/ Insert(r) \/ Die(r)
  \/ \E u \in Users : DeleteUser(u)

Spec == Init /\ [][Next]_vars

----------------------------------------------------------------------------

\* The chain of the log verifies until two requests append at the same time
\* or a user whom it names is deleted: either breaks an honest log for good.
ChainVerifies == raced \/ redacted \/ Verifies(entries)

====
