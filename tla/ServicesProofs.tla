--------------------------- MODULE ServicesProofs ---------------------------
(***************************************************************************)
(* Proofs about Services: one after the other, the approvals, the blanket  *)
(* releases, the legal holds, the job ledger, the counts, the dispatch,    *)
(* the audit trail, the derived rows, the hash chain and the archives, for *)
(* any number of requests each; then the same of their composition.        *)
(***************************************************************************)
EXTENDS Services, SumLemmas, SequenceTheorems

\* Approvals: the level of the request may go back and be approved twice; what
\* never fails is that every level below the one a decision has loaded is
\* approved, as long as nobody edits the policy.

Approved(l) == <<l, "approve">> \in log

\* Every level of the policy below level n is approved.
ApprovedBelow(n) == \A l \in levels : l < n => Approved(l)

ApprovalIInv ==
  /\ TypeOK
  /\ ~edited => /\ ApprovedBelow(approval.level)
                /\ \A r \in Requests : \A d \in deciding[r] : ApprovedBelow(d.level)
  /\ ApprovedThroughEveryLevel

LEMMA ApprovalInit == Init => ApprovalIInv
  <1> SUFFICES ASSUME Init PROVE ApprovalIInv
    OBVIOUS
  <1>1. /\ approval = [status |-> "in_progress", level |-> 1]
        /\ levels \subseteq LevelNos /\ log = {} /\ edited = FALSE /\ closed = FALSE
        /\ deciding = [r \in Requests |-> {}]
    BY DEF Init
  <1>2. approval \in [status : Open \cup Decided, level : LevelNos]
    BY <1>1, ApprovalsAssumption DEF LevelNos, Open, Decided
  <1>3. TypeOK
    BY <1>1, <1>2 DEF TypeOK
  <1>4. ApprovedBelow(approval.level)
    BY <1>1, ApprovalsAssumption DEF ApprovedBelow, LevelNos
  <1>5. approval.status # "approved"
    BY <1>1
  <1>6. QED
    BY <1>1, <1>3, <1>4, <1>5 DEF ApprovalIInv, ApprovedThroughEveryLevel

\* A step that keeps the policy and the level, adds to the log at most, and
\* gives nobody a decision whose level was not the current one.
LEMMA LevelKept ==
    ASSUME ApprovalIInv, TypeOK', log \subseteq log', levels' = levels, edited' = edited,
           closed' = closed,
           approval'.level = approval.level,
           approval'.status = "approved" => approval.status = "approved",
           \A r \in Requests : \A d \in deciding'[r] :
             d \in deciding[r] \/ d.level = approval.level
    PROVE  ApprovalIInv'
  <1>1. CASE edited
    BY <1>1 DEF ApprovalIInv, ApprovedThroughEveryLevel
  <1>2. CASE ~edited
    <2>1. \A n : ApprovedBelow(n) => ApprovedBelow(n)'
      BY DEF ApprovedBelow, Approved
    <2>2. /\ ApprovedBelow(approval.level)'
          /\ \A r \in Requests : \A d \in deciding'[r] : ApprovedBelow(d.level)'
      BY <1>2, <2>1 DEF ApprovalIInv, ApprovedBelow, Approved
    <2>3. ApprovedThroughEveryLevel'
      BY <1>2 DEF ApprovalIInv, ApprovedThroughEveryLevel
    <2>4. QED
      BY <2>2, <2>3 DEF ApprovalIInv
  <1>3. QED
    BY <1>1, <1>2 DEF ApprovalIInv, TypeOK

LEMMA LoggedFacts ==
    ASSUME ApprovalIInv, NEW r \in Requests, NEW d \in deciding[r], Logged(r, d)
    PROVE  /\ d.level \in LevelNos
           /\ log' \subseteq LevelNos \X Operations
           /\ log \subseteq log' /\ <<d.level, d.op>> \in log'
           /\ deciding' \in [Requests -> SUBSET [op : Operations, level : LevelNos]]
           /\ \A q \in Requests : deciding'[q] \subseteq deciding[q]
           /\ deciding'[r] = {}
  <1>1. d \in [op : Operations, level : LevelNos]
    BY DEF ApprovalIInv, TypeOK
  <1>2. QED
    BY <1>1 DEF ApprovalIInv, TypeOK, Logged

LEMMA ApproveIInv ==
    ASSUME ApprovalIInv, NEW r \in Requests, Approve(r)
    PROVE  ApprovalIInv'
  <1>1. PICK d \in deciding[r] :
          /\ d.op = "approve"
          /\ Logged(r, d)
          /\ \/ Later(d) = {} /\ approval' = [approval EXCEPT !.status = "approved"]
             \/ \E next \in Later(d) :
                  /\ \A l \in Later(d) : next <= l
                  /\ approval' = [approval EXCEPT !.level = next]
    BY DEF Approve
  <1>2. /\ d.level \in LevelNos
        /\ log' \subseteq LevelNos \X Operations
        /\ log \subseteq log' /\ <<d.level, "approve">> \in log'
        /\ deciding' \in [Requests -> SUBSET [op : Operations, level : LevelNos]]
        /\ \A q \in Requests : deciding'[q] \subseteq deciding[q]
    BY <1>1, LoggedFacts
  <1>3. /\ levels' = levels /\ edited' = edited /\ closed' = closed
        /\ levels \subseteq LevelNos
    BY <1>1 DEF Logged, ApprovalIInv, TypeOK
  <1>4. approval \in [status : Open \cup Decided, level : LevelNos]
    BY DEF ApprovalIInv, TypeOK
  <1>5. ASSUME ~edited
        PROVE  /\ \A l \in levels : l <= d.level => Approved(l)'
               /\ \A q \in Requests : \A e \in deciding'[q] : ApprovedBelow(e.level)'
    <2>1. \A l \in levels : l < d.level => Approved(l)
      BY <1>5 DEF ApprovalIInv, ApprovedBelow
    <2>2. \A l \in levels : l <= d.level => l < d.level \/ l = d.level
      BY <1>2, <1>3 DEF LevelNos
    <2>3. QED
      BY <1>2, <1>3, <1>5, <2>1, <2>2 DEF ApprovalIInv, ApprovedBelow, Approved
  <1>6. CASE Later(d) = {} /\ approval' = [approval EXCEPT !.status = "approved"]
    <2>1. TypeOK'
      BY <1>2, <1>3, <1>4, <1>6 DEF ApprovalIInv, TypeOK, Open, Decided
    <2>2. approval'.level = approval.level
      BY <1>4, <1>6
    <2>3. \A l \in levels : l <= d.level
      BY <1>2, <1>3, <1>6 DEF Later, LevelNos
    <2>4. ~edited => \A l \in levels : Approved(l)'
      BY <1>5, <2>3
    <2>5. ~edited => ApprovedBelow(approval.level)'
      BY <1>3, <2>4 DEF ApprovedBelow
    <2>6. ApprovedThroughEveryLevel'
      BY <1>3, <2>4 DEF ApprovedThroughEveryLevel, Approved
    <2>7. QED
      BY <1>3, <1>5, <2>1, <2>5, <2>6 DEF ApprovalIInv
  <1>7. ASSUME NEW next \in Later(d), \A l \in Later(d) : next <= l,
               approval' = [approval EXCEPT !.level = next]
        PROVE  ApprovalIInv'
    <2>1. next \in LevelNos
      BY <1>3 DEF Later
    <2>2. approval'.level = next /\ approval'.status = approval.status
      BY <1>4, <1>7
    <2>3. TypeOK'
      BY <1>2, <1>3, <1>4, <1>7, <2>1 DEF ApprovalIInv, TypeOK
    <2>4. \A l \in levels : l < next => l <= d.level
      BY <1>2, <1>3, <1>7, <2>1 DEF Later, LevelNos
    <2>5. ~edited => ApprovedBelow(approval.level)'
      BY <1>3, <1>5, <2>2, <2>4 DEF ApprovedBelow
    <2>6. ApprovedThroughEveryLevel'
      BY <1>2, <1>3, <2>2 DEF ApprovalIInv, ApprovedThroughEveryLevel
    <2>7. QED
      BY <1>3, <1>5, <2>3, <2>5, <2>6 DEF ApprovalIInv
  <1>8. QED
    BY <1>1, <1>6, <1>7

\* The other decisions keep the level, and approve nothing.
LEMMA DecideIInv ==
    ASSUME ApprovalIInv, NEW r \in Requests, Reject(r) \/ Delegate(r) \/ Escalate(r) \/
           Recall(r)
    PROVE  ApprovalIInv'
  <1>1. PICK d \in deciding[r] :
          /\ Logged(r, d)
          /\ \/ approval' = approval
             \/ \E s \in {"rejected", "escalated", "cancelled"} :
                  approval' = [approval EXCEPT !.status = s]
    BY DEF Reject, Delegate, Escalate, Recall
  <1>2. approval \in [status : Open \cup Decided, level : LevelNos]
    BY DEF ApprovalIInv, TypeOK
  <1>3. approval' \in [status : Open \cup Decided, level : LevelNos]
    BY <1>1, <1>2 DEF Open, Decided
  <1>4. /\ approval'.level = approval.level
        /\ approval'.status = "approved" => approval.status = "approved"
    BY <1>1, <1>2
  <1>5. levels' = levels /\ edited' = edited /\ closed' = closed
    BY <1>1 DEF Logged
  <1>6. TypeOK'
    BY <1>1, <1>3, <1>5, LoggedFacts DEF ApprovalIInv, TypeOK
  <1>7. QED
    BY <1>1, <1>4, <1>5, <1>6, LoggedFacts, LevelKept

LEMMA LoadApprovalIInv ==
    ASSUME ApprovalIInv, NEW r \in Requests, Load(r)
    PROVE  ApprovalIInv'
  <1>1. PICK op \in Operations :
          deciding' = [deciding EXCEPT ![r] = {[op |-> op, level |-> approval.level]}]
    BY DEF Load
  <1>2. approval.level \in LevelNos /\
          deciding \in [Requests -> SUBSET [op : Operations, level : LevelNos]]
    BY DEF ApprovalIInv, TypeOK
  <1>3. deciding' \in [Requests -> SUBSET [op : Operations, level : LevelNos]]
    BY <1>1, <1>2
  <1>4. UNCHANGED <<approval, levels, log, edited, closed>>
    BY DEF Load
  <1>5. TypeOK'
    BY <1>3, <1>4 DEF ApprovalIInv, TypeOK
  <1>6. \A q \in Requests : \A d \in deciding'[q] : d \in deciding[q] \/
          d.level = approval.level
    BY <1>1, <1>2
  <1>7. QED
    BY <1>4, <1>5, <1>6, LevelKept

LEMMA GiveUpApprovalIInv ==
    ASSUME ApprovalIInv, NEW r \in Requests, GiveUp(r)
    PROVE  ApprovalIInv'
  <1>1. deciding \in [Requests -> SUBSET [op : Operations, level : LevelNos]]
    BY DEF ApprovalIInv, TypeOK
  <1>2. /\ deciding' \in [Requests -> SUBSET [op : Operations, level : LevelNos]]
        /\ \A q \in Requests : deciding'[q] \subseteq deciding[q]
    BY <1>1 DEF GiveUp
  <1>3. UNCHANGED <<approval, levels, log, edited, closed>>
    BY DEF GiveUp
  <1>4. TypeOK'
    BY <1>2, <1>3 DEF ApprovalIInv, TypeOK
  <1>5. QED
    BY <1>2, <1>3, <1>4, LevelKept

LEMMA EditLevelsIInv == ASSUME ApprovalIInv, EditLevels PROVE ApprovalIInv'
  BY DEF ApprovalIInv, TypeOK, EditLevels, ApprovedThroughEveryLevel

\* The signal approves the request where it is, and says so.
LEMMA CloseLinkedIInv == ASSUME ApprovalIInv, CloseLinked PROVE ApprovalIInv'
  <1>1. /\ approval' = [approval EXCEPT !.status = "approved"] /\ closed' = TRUE
        /\ UNCHANGED <<levels, log, deciding, edited>>
    BY DEF CloseLinked
  <1>2. approval \in [status : Open \cup Decided, level : LevelNos]
    BY DEF ApprovalIInv, TypeOK
  <1>3. TypeOK' /\ approval'.level = approval.level
    BY <1>1, <1>2 DEF ApprovalIInv, TypeOK, Open, Decided
  <1>4. ApprovedThroughEveryLevel'
    BY <1>1 DEF ApprovedThroughEveryLevel
  <1>5. QED
    BY <1>1, <1>3, <1>4 DEF ApprovalIInv, ApprovedBelow, Approved

LEMMA ApprovalStep == ApprovalIInv /\ [Next]_vars => ApprovalIInv'
  <1> SUFFICES ASSUME ApprovalIInv, [Next]_vars PROVE ApprovalIInv'
    OBVIOUS
  <1>1. CASE UNCHANGED vars
    BY <1>1
       DEF vars, ApprovalIInv, TypeOK, ApprovedBelow, Approved, ApprovedThroughEveryLevel
  <1>2. CASE Next
    BY <1>2, EditLevelsIInv, CloseLinkedIInv, LoadApprovalIInv, ApproveIInv, DecideIInv,
       GiveUpApprovalIInv DEF Next
  <1>3. QED
    BY <1>1, <1>2

LEMMA ApprovalSpecIInv == Spec => []ApprovalIInv
  BY ApprovalInit, ApprovalStep, PTL DEF Spec

\* However many approvals race, and whichever of them set the level back, a
\* request reaches approved only with an approval logged at every level of its
\* policy, if the policy was not edited meanwhile and it was not the signal of its
\* document request that approved it.
LEMMA ApprovalsComplete == Spec => []ApprovedThroughEveryLevel
  <1>1. ApprovalIInv => ApprovedThroughEveryLevel
    BY DEF ApprovalIInv
  <1>2. QED
    BY <1>1, ApprovalSpecIInv, PTL

----------------------------------------------------------------------------

LEMMA ReleasingFinite == ASSUME Releasing!BlanketAssumption PROVE IsFiniteSet(Releases)
  BY DEF Releasing!BlanketAssumption, Releasing!IsFiniteSet, IsFiniteSet

LEMMA ReleasingSum == \A f, S : Releasing!SumOver(f, S) = SumOver(f, S)
  BY DEF Releasing!SumOver, SumOver, Releasing!MapThenSumSet, MapThenSumSet,
         Releasing!MapThenFoldSet, MapThenFoldSet

ReleaseStatuses == {"draft", "released", "received", "cancelled"}

Row == [status : ReleaseStatuses, qty : 0..Committed]

Work == [op : {"lines", "cancel"}, id : Releases, status : ReleaseStatuses]

\* The lines of a release are written by who has loaded it as a draft, and a
\* release does not go back to what it was before.
Loaded(w) ==
  /\ w.op = "lines" => w.status = "draft"
  /\ w.status # "draft" => releases[w.id].status # "draft"
  /\ w.status \in {"received", "cancelled"} => releases[w.id].status = w.status

ReleaseTyped ==
  /\ releases \in [Releases -> Row]
  /\ consumed \in Int
  /\ working \in [Requests -> SUBSET Work]

ReleaseIInv ==
  /\ ReleaseTyped
  /\ \A r \in Requests : \A w \in working[r] : Loaded(w)

LEMMA ReleaseInit == ASSUME Releasing!BlanketAssumption, Releasing!Init PROVE ReleaseIInv
  BY DEF Releasing!BlanketAssumption, Releasing!Init, ReleaseIInv, ReleaseTyped, Row,
         ReleaseStatuses

LEMMA WorkFacts ==
    ASSUME ReleaseIInv, NEW r \in Requests, NEW w \in working[r]
    PROVE  /\ w \in Work /\ w.id \in Releases /\ w.op \in {"lines", "cancel"}
           /\ w.status \in ReleaseStatuses /\ Loaded(w)
           /\ releases[w.id] \in Row
  <1>1. w \in Work /\ Loaded(w)
    BY DEF ReleaseIInv, ReleaseTyped
  <1>2. QED
    BY <1>1 DEF Work, ReleaseIInv, ReleaseTyped

\* A step whose moved releases go forward, and in which nobody loads.
LEMMA ReleaseMoves ==
    ASSUME ReleaseIInv, releases' \in [Releases -> Row], consumed' \in Int,
           working' \in [Requests -> SUBSET Work],
           \A r \in Requests : working'[r] \subseteq working[r],
           \A x \in Releases :
             \/ releases'[x].status = releases[x].status
             \/ /\ releases'[x].status # "draft"
                /\ releases[x].status \in {"draft", "released"}
    PROVE  ReleaseIInv'
  <1>1. ASSUME NEW r \in Requests, NEW w \in working'[r] PROVE Loaded(w)'
    <2>1. w.id \in Releases /\ Loaded(w)
      BY <1>1, WorkFacts
    <2>2. QED
      BY <2>1 DEF Loaded
  <1>2. QED
    BY <1>1 DEF ReleaseIInv, ReleaseTyped

LEMMA ReleaseNextIInv ==
    ASSUME Releasing!BlanketAssumption, ReleaseIInv, Releasing!Next
    PROVE  ReleaseIInv'
  <1>1. /\ releases \in [Releases -> Row] /\ consumed \in Int
        /\ working \in [Requests -> SUBSET Work]
    BY DEF ReleaseIInv, ReleaseTyped
  <1>2. ASSUME NEW x \in Releases, Releasing!Release(x) \/ Releasing!Receive(x)
        PROVE  ReleaseIInv'
    <2>1. PICK to \in {"released", "received"} :
            /\ releases' = [releases EXCEPT ![x].status = to]
            /\ releases[x].status \in {"draft", "released"}
            /\ consumed' \in Int /\ working' = working
      BY <1>1, <1>2
         DEF Releasing!Release, Releasing!Receive, Row, Releasing!BlanketAssumption
    <2>2. releases' \in [Releases -> Row]
      BY <1>1, <2>1 DEF Row, ReleaseStatuses
    <2>3. \A y \in Releases : y # x => releases'[y] = releases[y]
      BY <1>1, <2>1
    <2>4. releases'[x].status = to
      BY <1>1, <2>1 DEF Row
    <2>5. QED
      BY <1>1, <2>1, <2>2, <2>3, <2>4, ReleaseMoves
  <1>3. ASSUME NEW r \in Requests, Releasing!Load(r) PROVE ReleaseIInv'
    <2>1. PICK op \in {"lines", "cancel"}, x \in Releases :
            /\ op = "lines" => releases[x].status = "draft"
            /\ working' = [working EXCEPT ![r] =
                 {[op |-> op, id |-> x, status |-> releases[x].status]}]
      BY <1>3 DEF Releasing!Load
    <2> DEFINE new == [op |-> op, id |-> x, status |-> releases[x].status]
    <2>2. new \in Work /\ Loaded(new)
      BY <1>1, <2>1 DEF Work, Row, Loaded
    <2>3. \A q \in Requests : working'[q] = IF q = r THEN {new} ELSE working[q]
      BY <1>1, <2>1
    <2>4. UNCHANGED <<releases, consumed>>
      BY <1>3 DEF Releasing!Load
    <2>5. working' \in [Requests -> SUBSET Work]
      BY <1>1, <2>1, <2>2
    <2> HIDE DEF new
    <2>6. QED
      BY <1>1, <2>2, <2>3, <2>4, <2>5 DEF ReleaseIInv, ReleaseTyped, Loaded
  <1>4. ASSUME NEW r \in Requests, Releasing!WriteLines(r) \/ Releasing!GiveUp(r)
        PROVE  ReleaseIInv'
    <2>1. CASE Releasing!WriteLines(r)
      <3>1. PICK w \in working[r], q \in 0..Committed :
              releases' = [releases EXCEPT ![w.id].qty = q]
        BY <2>1 DEF Releasing!WriteLines
      <3>2. /\ releases' \in [Releases -> Row]
            /\ \A y \in Releases : releases'[y].status = releases[y].status
        BY <1>1, <3>1, WorkFacts DEF Row
      <3>3. consumed' = consumed /\ working' = [working EXCEPT ![r] = {}]
        BY <2>1 DEF Releasing!WriteLines
      <3>4. QED
        BY <1>1, <3>2, <3>3, ReleaseMoves
    <2>2. CASE Releasing!GiveUp(r)
      BY <1>1, <2>2, ReleaseMoves DEF Releasing!GiveUp
    <2>3. QED
      BY <1>4, <2>1, <2>2
  <1>5. ASSUME NEW r \in Requests, Releasing!Cancel(r) PROVE ReleaseIInv'
    <2>1. PICK w \in working[r] :
            /\ releases[w.id].status \in {"draft", "released"}
            /\ releases' = [releases EXCEPT ![w.id].status = "cancelled"]
            /\ consumed' = IF w.status = "released" THEN consumed - releases[w.id].qty
                           ELSE consumed
            /\ working' = [working EXCEPT ![r] = {}]
      BY <1>5 DEF Releasing!Cancel
    <2>2. w.id \in Releases /\ releases[w.id].qty \in Int
      BY WorkFacts DEF Row, Releasing!BlanketAssumption
    <2>3. releases' \in [Releases -> Row] /\ releases'[w.id].status = "cancelled"
      BY <1>1, <2>1, <2>2 DEF Row, ReleaseStatuses
    <2>4. \A y \in Releases : y # w.id => releases'[y] = releases[y]
      BY <1>1, <2>1
    <2>5. consumed' \in Int
      BY <1>1, <2>1, <2>2
    <2>6. QED
      BY <1>1, <2>1, <2>3, <2>4, <2>5, ReleaseMoves
  <1>6. QED
    BY <1>2, <1>3, <1>4, <1>5 DEF Releasing!Next

LEMMA ReleaseSpecIInv ==
    ASSUME Releasing!BlanketAssumption
    PROVE  Releasing!Spec => []ReleaseIInv
  <1>1. Releasing!Init => ReleaseIInv
    BY ReleaseInit
  <1>2. ReleaseIInv /\ [Releasing!Next]_(Releasing!vars) => ReleaseIInv'
    <2>1. ASSUME ReleaseIInv, UNCHANGED Releasing!vars PROVE ReleaseIInv'
      BY <2>1 DEF Releasing!vars, ReleaseIInv, ReleaseTyped, Loaded
    <2>2. QED
      BY <2>1, ReleaseNextIInv
  <1>3. QED
    BY <1>1, <1>2, PTL DEF Releasing!Spec

\* What one release has taken.
TakenBy(row) == IF row.status \in {"released", "received"} THEN row.qty ELSE 0

\* A write to one release changes what they have taken by what it makes of that one.
LEMMA OneRelease ==
    ASSUME Releasing!BlanketAssumption, ReleaseIInv, releases' \in [Releases -> Row],
           NEW x \in Releases, \A y \in Releases \ {x} : releases'[y] = releases[y]
    PROVE  /\ Releasing!Taken \in Int /\ Releasing!Taken' \in Int
           /\ Releasing!Taken' - Releasing!Taken =
                TakenBy(releases'[x]) - TakenBy(releases[x])
  <1> DEFINE f == [y \in Releases |-> releases[y].qty]
             S == {y \in Releases : releases[y].status \in {"released", "received"}}
             g == [y \in Releases |-> releases'[y].qty]
             T == {y \in Releases : releases'[y].status \in {"released", "received"}}
  <1>1. \A y \in Releases : f[y] \in Int /\ g[y] \in Int
    BY DEF Releasing!BlanketAssumption, ReleaseIInv, ReleaseTyped, Row
  <1>2. S \subseteq Releases /\ T \subseteq Releases
    OBVIOUS
  <1>3. IsFiniteSet(S) /\ IsFiniteSet(T)
    BY <1>2, FS_Subset, ReleasingFinite
  <1>4. S \ {x} = T \ {x} /\ \A y \in S \ {x} : f[y] = g[y]
    OBVIOUS
  <1>5. IntOn(f, S) /\ IntOn(g, T)
    BY <1>1, <1>2 DEF IntOn
  <1>6. Share(f, S, x) = TakenBy(releases[x]) /\ Share(g, T, x) = TakenBy(releases'[x])
    BY DEF Share, TakenBy
  <1>7. Releasing!Taken = SumOver(f, S) /\ Releasing!Taken' = SumOver(g, T)
    BY ReleasingSum DEF Releasing!Taken
  <1> HIDE DEF f, S, g, T
  <1>8. QED
    BY <1>3, <1>4, <1>5, <1>6, <1>7, SumOneChange

LEMMA OneReleaseBalances ==
    ASSUME Releasing!BlanketAssumption, ReleaseIInv, ReleaseIInv',
           NEW x \in Releases, \A y \in Releases \ {x} : releases'[y] = releases[y],
           consumed' - consumed = TakenBy(releases'[x]) - TakenBy(releases[x])
    PROVE  consumed' - Releasing!Taken' = consumed - Releasing!Taken
  <1>1. /\ TakenBy(releases[x]) \in Int /\ TakenBy(releases'[x]) \in Int
        /\ consumed \in Int /\ consumed' \in Int /\ releases' \in [Releases -> Row]
    BY DEF TakenBy, ReleaseIInv, ReleaseTyped, Row, Releasing!BlanketAssumption
  <1>2. QED
    BY <1>1, OneRelease

LEMMA ReleaseStep ==
    ASSUME Releasing!BlanketAssumption, ReleaseIInv, ReleaseIInv', Releasing!Next,
           consumed' - Releasing!Taken' # consumed - Releasing!Taken
    PROVE  \E r \in Requests : \E w \in working[r] :
             /\ working'[r] = {}
             /\ w.status = "draft"
             /\ releases[w.id].status \in {"released", "received"}
  <1>1. /\ releases \in [Releases -> Row] /\ consumed \in Int
        /\ releases' \in [Releases -> Row] /\ consumed' \in Int
        /\ working \in [Requests -> SUBSET Work]
    BY DEF ReleaseIInv, ReleaseTyped
  <1>2. ASSUME NEW x \in Releases, Releasing!Release(x) \/ Releasing!Receive(x)
        PROVE  FALSE
    <2>1. \A y \in Releases \ {x} : releases'[y] = releases[y]
      BY <1>1, <1>2 DEF Releasing!Release, Releasing!Receive
    <2>2. consumed' - consumed = TakenBy(releases'[x]) - TakenBy(releases[x])
      <3>1. CASE Releasing!Release(x)
        <4>1. /\ TakenBy(releases[x]) = 0 /\ TakenBy(releases'[x]) = releases[x].qty
              /\ consumed' = consumed + releases[x].qty
          BY <1>1, <3>1 DEF Releasing!Release, TakenBy, Row
        <4>2. releases[x].qty \in Int
          BY <1>1 DEF Row, Releasing!BlanketAssumption
        <4>3. QED
          BY <1>1, <4>1, <4>2
      <3>2. CASE Releasing!Receive(x)
        <4>1. /\ TakenBy(releases'[x]) = TakenBy(releases[x]) /\ consumed' = consumed
          BY <1>1, <3>2 DEF Releasing!Receive, TakenBy, Row
        <4>2. TakenBy(releases[x]) \in Int
          BY <1>1 DEF TakenBy, Row, Releasing!BlanketAssumption
        <4>3. QED
          BY <1>1, <4>1, <4>2
      <3>3. QED
        BY <1>2, <3>1, <3>2
    <2>3. QED
      BY <2>1, <2>2, OneReleaseBalances
  <1>3. ASSUME NEW r \in Requests, Releasing!Load(r) \/ Releasing!GiveUp(r) PROVE FALSE
    BY <1>3 DEF Releasing!Load, Releasing!GiveUp, Releasing!Taken
  <1>4. ASSUME NEW r \in Requests, Releasing!WriteLines(r)
        PROVE  \E w \in working[r] : /\ working'[r] = {} /\ w.status = "draft"
                                     /\ releases[w.id].status \in {"released", "received"}
    <2>1. PICK w \in working[r], q \in 0..Committed :
            /\ w.op = "lines" /\ releases' = [releases EXCEPT ![w.id].qty = q]
            /\ working' = [working EXCEPT ![r] = {}] /\ consumed' = consumed
      BY <1>4 DEF Releasing!WriteLines
    <2>2. w.id \in Releases /\ w.status = "draft"
      BY <2>1, WorkFacts DEF Loaded
    <2>3. \A y \in Releases \ {w.id} : releases'[y] = releases[y]
      BY <1>1, <2>1
    <2>4. ASSUME releases[w.id].status \notin {"released", "received"} PROVE FALSE
      <3>1. TakenBy(releases[w.id]) = 0 /\ TakenBy(releases'[w.id]) = 0
        BY <1>1, <2>1, <2>2, <2>4 DEF TakenBy, Row
      <3>2. QED
        BY <1>1, <2>1, <2>2, <2>3, <3>1, OneReleaseBalances
    <2>5. QED
      BY <1>1, <2>1, <2>2, <2>4
  <1>5. ASSUME NEW r \in Requests, Releasing!Cancel(r)
        PROVE  \E w \in working[r] : /\ working'[r] = {} /\ w.status = "draft"
                                     /\ releases[w.id].status \in {"released", "received"}
    <2>1. PICK w \in working[r] :
            /\ releases[w.id].status \in {"draft", "released"}
            /\ releases' = [releases EXCEPT ![w.id].status = "cancelled"]
            /\ consumed' = IF w.status = "released" THEN consumed - releases[w.id].qty
                           ELSE consumed
            /\ working' = [working EXCEPT ![r] = {}]
      BY <1>5 DEF Releasing!Cancel
    <2>2. /\ w.id \in Releases /\ Loaded(w) /\ w.status \in ReleaseStatuses
          /\ releases[w.id].qty \in Int
      BY WorkFacts DEF Row, Releasing!BlanketAssumption
    <2>3. /\ \A y \in Releases \ {w.id} : releases'[y] = releases[y]
          /\ TakenBy(releases'[w.id]) = 0
      BY <1>1, <2>1, <2>2 DEF TakenBy, Row
    <2>4. ASSUME w.status # "draft" PROVE FALSE
      <3>1. w.status = "released" /\ releases[w.id].status = "released"
        BY <2>1, <2>2, <2>4 DEF Loaded, ReleaseStatuses
      <3>2. /\ TakenBy(releases[w.id]) = releases[w.id].qty
            /\ consumed' = consumed - releases[w.id].qty
        BY <2>1, <3>1 DEF TakenBy
      <3>3. QED
        BY <1>1, <2>2, <2>3, <3>2, OneReleaseBalances
    <2>5. ASSUME w.status = "draft", releases[w.id].status = "draft" PROVE FALSE
      <3>1. TakenBy(releases[w.id]) = 0 /\ consumed' = consumed
        BY <2>1, <2>5 DEF TakenBy
      <3>2. QED
        BY <1>1, <2>2, <2>3, <3>1, OneReleaseBalances
    <2>6. QED
      BY <1>1, <2>1, <2>4, <2>5
  <1>6. QED
    BY <1>2, <1>3, <1>4, <1>5 DEF Releasing!Next

LEMMA ReleaseFollows ==
    ASSUME Releasing!BlanketAssumption
    PROVE  Releasing!Spec => Releasing!ConsumptionFollowsReleases
  <1>1. ReleaseIInv /\ ReleaseIInv' /\ [Releasing!Next]_(Releasing!vars) =>
          [consumed' - Releasing!Taken' # consumed - Releasing!Taken =>
             \E r \in Requests : \E w \in working[r] :
               /\ working'[r] = {}
               /\ w.status = "draft"
               /\ releases[w.id].status \in {"released", "received"}]_(Releasing!vars)
    BY ReleaseStep DEF Releasing!vars
  <1>2. QED
    BY <1>1, ReleaseSpecIInv, PTL DEF Releasing!Spec, Releasing!ConsumptionFollowsReleases

----------------------------------------------------------------------------

HoldRow == [status : Holding!Statuses, docs : SUBSET Documents]

\* A request on a hold names one.
HoldsTyped ==
  /\ holds \in [Holds -> HoldRow]
  /\ busy = [r \in Requests |-> busy[r]]
  /\ \A r \in Requests : \A b \in busy[r] :
       /\ b.op # "form" => b.on \in Holds
       /\ b.docs \subseteq Documents

LEMMA HoldInit == Holding!Init => HoldsTyped
  BY DEF Holding!Init, HoldsTyped, HoldRow, Holding!Statuses

LEMMA HoldNextTyped == ASSUME HoldsTyped, Holding!Next PROVE HoldsTyped'
  <1>1. holds \in [Holds -> HoldRow] /\ busy = [r \in Requests |-> busy[r]]
    BY DEF HoldsTyped
  <1>2. ASSUME NEW r \in Requests, NEW s, busy' = [busy EXCEPT ![r] = s],
               holds' \in [Holds -> HoldRow],
               \A b \in s : (b.op # "form" => b.on \in Holds) /\
                 b.docs \subseteq Documents
        PROVE  HoldsTyped'
    <2>1. /\ busy' = [q \in Requests |-> busy'[q]]
          /\ \A q \in Requests : busy'[q] = IF q = r THEN s ELSE busy[q]
      BY <1>1, <1>2
    <2>2. QED
      BY <1>2, <2>1 DEF HoldsTyped
  <1>3. ASSUME NEW h \in Holds, Holding!Create(h) PROVE HoldsTyped'
    <2>1. PICK docs \in SUBSET Documents :
            holds' = [holds EXCEPT ![h] = [status |-> "active", docs |-> docs]]
      BY <1>3 DEF Holding!Create
    <2>2. holds' \in [Holds -> HoldRow]
      BY <1>1, <2>1 DEF HoldRow, Holding!Statuses
    <2>3. QED
      BY <1>3, <2>2 DEF Holding!Create, HoldsTyped
  <1>4. ASSUME NEW r \in Requests, Holding!LoadHold(r) PROVE HoldsTyped'
    <2>1. PICK h \in Holds, op \in {"edit", "release", "delete"} :
            busy' = [busy EXCEPT ![r] =
              {[op |-> op, on |-> h, docs |-> {}, leave |-> {}, seen |-> {}]}]
      BY <1>4 DEF Holding!LoadHold
    <2>2. QED
      BY <1>1, <1>2, <1>4, <2>1 DEF Holding!LoadHold
  <1>5. ASSUME NEW r \in Requests, Holding!LoadDocument(r) PROVE HoldsTyped'
    <2>1. PICK d \in Documents \ locked :
            busy' = [busy EXCEPT ![r] =
              {[op |-> "form", on |-> d, docs |-> {}, leave |-> {}, seen |-> {}]}]
      BY <1>5 DEF Holding!LoadDocument
    <2> DEFINE s == {[op |-> "form", on |-> d, docs |-> {}, leave |-> {}, seen |-> {}]}
    <2>2. \A b \in s : (b.op # "form" => b.on \in Holds) /\ b.docs \subseteq Documents
      OBVIOUS
    <2>3. busy' = [busy EXCEPT ![r] = s] /\ holds' \in [Holds -> HoldRow]
      BY <1>1, <1>5, <2>1 DEF Holding!LoadDocument
    <2> HIDE DEF s
    <2>4. QED
      BY <1>2, <2>2, <2>3
  <1>6. ASSUME NEW r \in Requests, Holding!EditLook(r) PROVE HoldsTyped'
    <2>1. PICK b \in busy[r], docs \in SUBSET Documents :
            /\ b.op = "edit"
            /\ busy' = [busy EXCEPT ![r] =
                 {[op |-> "save", on |-> b.on, docs |-> docs,
                   leave |-> holds[b.on].docs \ docs,
                   seen |-> Holding!Looked(b.on, holds[b.on].docs \ docs)]}]
            /\ UNCHANGED <<holds, locked>>
      BY <1>6 DEF Holding!EditLook
    <2>2. b.on \in Holds
      BY <2>1 DEF HoldsTyped
    <2> DEFINE s == {[op |-> "save", on |-> b.on, docs |-> docs,
                      leave |-> holds[b.on].docs \ docs,
                      seen |-> Holding!Looked(b.on, holds[b.on].docs \ docs)]}
    <2>3. \A c \in s : (c.op # "form" => c.on \in Holds) /\ c.docs \subseteq Documents
      BY <2>2
    <2>4. busy' = [busy EXCEPT ![r] = s] /\ holds' \in [Holds -> HoldRow]
      BY <1>1, <2>1
    <2> HIDE DEF s
    <2>5. QED
      BY <1>2, <2>3, <2>4
  <1>7. ASSUME NEW r \in Requests, Holding!ReleaseLook(r) PROVE HoldsTyped'
    <2>1. PICK b \in busy[r] :
            /\ b.op = "release"
            /\ busy' = [busy EXCEPT ![r] =
                 {[b EXCEPT !.op = "unlock", !.leave = holds[b.on].docs,
                            !.seen = Holding!Looked(b.on, holds[b.on].docs)]}]
            /\ UNCHANGED <<holds, locked>>
      BY <1>7 DEF Holding!ReleaseLook
    <2> DEFINE c == [b EXCEPT !.op = "unlock", !.leave = holds[b.on].docs,
                              !.seen = Holding!Looked(b.on, holds[b.on].docs)]
    <2>2. b.on \in Holds /\ b.docs \subseteq Documents
      BY <2>1 DEF HoldsTyped
    <2>3. c.on = b.on /\ c.docs = b.docs
      OBVIOUS
    <2>4. \A e \in {c} : (e.op # "form" => e.on \in Holds) /\ e.docs \subseteq Documents
      BY <2>2, <2>3
    <2>5. holds' \in [Holds -> HoldRow] /\ busy' = [busy EXCEPT ![r] = {c}]
      BY <1>1, <2>1
    <2> HIDE DEF c
    <2>6. QED
      BY <1>2, <2>4, <2>5
  <1>8. ASSUME NEW r \in Requests,
               Holding!SaveDocument(r) \/ Holding!EditSave(r) \/
                 Holding!ReleaseUnlock(r) \/ Holding!DeleteHold(r) \/ Holding!GiveUp(r)
        PROVE  HoldsTyped'
    <2>1. busy' = [busy EXCEPT ![r] = {}]
      BY <1>8
         DEF Holding!SaveDocument, Holding!EditSave, Holding!ReleaseUnlock,
           Holding!DeleteHold, Holding!GiveUp
    <2>2. holds' \in [Holds -> HoldRow]
      <3>1. CASE Holding!SaveDocument(r) \/ Holding!GiveUp(r)
        BY <1>1, <3>1 DEF Holding!SaveDocument, Holding!GiveUp
      <3>2. CASE Holding!EditSave(r)
        <4>1. PICK b \in busy[r] :
                holds' = [holds EXCEPT ![b.on] = [status |-> "active", docs |-> b.docs]]
          BY <3>2 DEF Holding!EditSave
        <4>2. b.docs \subseteq Documents
          BY DEF HoldsTyped
        <4>3. QED
          BY <1>1, <4>1, <4>2 DEF HoldRow, Holding!Statuses
      <3>3. CASE Holding!ReleaseUnlock(r)
        <4>1. PICK b \in busy[r] :
                b.op = "unlock" /\ holds' = [holds EXCEPT ![b.on].status = "released"]
          BY <3>3 DEF Holding!ReleaseUnlock
        <4>2. b.on \in Holds
          BY <4>1 DEF HoldsTyped
        <4>3. QED
          BY <1>1, <4>1, <4>2 DEF HoldRow, Holding!Statuses
      <3>4. CASE Holding!DeleteHold(r)
        <4>1. PICK b \in busy[r] :
                holds' = [holds EXCEPT ![b.on] = [status |-> "none", docs |-> {}]]
          BY <3>4 DEF Holding!DeleteHold
        <4>2. QED
          BY <1>1, <4>1 DEF HoldRow, Holding!Statuses
      <3>5. QED
        BY <1>8, <3>1, <3>2, <3>3, <3>4
    <2>3. QED
      BY <1>2, <2>1, <2>2
  <1>9. QED
    BY <1>3, <1>4, <1>5, <1>6, <1>7, <1>8 DEF Holding!Next

LEMMA HoldSpecTyped == Holding!Spec => []HoldsTyped
  <1>1. HoldsTyped /\ [Holding!Next]_(Holding!vars) => HoldsTyped'
    <2>1. ASSUME HoldsTyped, UNCHANGED Holding!vars PROVE HoldsTyped'
      BY <2>1 DEF Holding!vars, HoldsTyped
    <2>2. QED
      BY <2>1, HoldNextTyped
  <1>2. QED
    BY <1>1, HoldInit, PTL DEF Holding!Spec

\* A document without its lock under an active hold.
Bare == Holding!Covered \ locked

LEMMA HoldStep ==
    ASSUME HoldsTyped, Holding!Next, NEW d \in Holding!Covered' \ locked',
           d \notin Holding!Covered \ locked
    PROVE  \E r \in Requests : \E b \in busy[r] :
             /\ busy'[r] = {}
             /\ \/ b.op = "form" /\ b.on \in locked
                \/ b.op \in {"unlock", "save"} /\
                     ~(Holding!Looked(b.on, b.leave) \subseteq b.seen)
  <1>1. holds \in [Holds -> HoldRow] /\ busy = [r \in Requests |-> busy[r]]
    BY DEF HoldsTyped
  <1>2. PICK k \in Holds : holds'[k].status = "active" /\ d \in holds'[k].docs
    BY DEF Holding!Covered
  <1>3. ASSUME NEW g \in Holds, holds[g].status = "active", d \in holds[g].docs
        PROVE  d \in Holding!Covered /\ d \in locked
    BY <1>3 DEF Holding!Covered
  <1>4. ASSUME NEW h \in Holds, Holding!Create(h) PROVE FALSE
    <2>1. PICK docs \in SUBSET Documents :
            /\ holds' = [holds EXCEPT ![h] = [status |-> "active", docs |-> docs]]
            /\ locked' = locked \cup docs
      BY <1>4 DEF Holding!Create
    <2>2. k # h
      BY <1>1, <1>2, <2>1
    <2>3. holds[k] = holds'[k]
      BY <1>1, <2>1, <2>2
    <2>4. QED
      BY <1>2, <1>3, <2>1, <2>3
  <1>5. ASSUME UNCHANGED <<holds, locked>> PROVE FALSE
    BY <1>2, <1>3, <1>5
  <1>6. ASSUME NEW r \in Requests, NEW b \in busy[r], busy' = [busy EXCEPT ![r] = {}]
        PROVE  busy'[r] = {}
    BY <1>1, <1>6
  <1>7. ASSUME NEW r \in Requests, Holding!SaveDocument(r)
        PROVE  \E b \in busy[r] : busy'[r] = {} /\ b.op = "form" /\ b.on \in locked
    <2>1. PICK b \in busy[r] :
            /\ b.op = "form" /\ locked' = locked \ {b.on}
            /\ busy' = [busy EXCEPT ![r] = {}] /\ holds' = holds
      BY <1>7 DEF Holding!SaveDocument
    <2>2. d \in locked
      BY <1>2, <1>3, <2>1
    <2>3. QED
      BY <1>6, <2>1, <2>2
  <1>8. ASSUME NEW r \in Requests, Holding!EditSave(r) \/ Holding!ReleaseUnlock(r)
        PROVE  \E b \in busy[r] :
                 /\ busy'[r] = {} /\ b.op \in {"unlock", "save"}
                 /\ ~(Holding!Looked(b.on, b.leave) \subseteq b.seen)
    <2>1. PICK b \in busy[r] :
            /\ busy' = [busy EXCEPT ![r] = {}]
            /\ \/ /\ b.op = "save"
                  /\ holds' = [holds EXCEPT ![b.on] =
                       [status |-> "active", docs |-> b.docs]]
                  /\ locked' = (locked \ b.leave) \cup b.seen \cup b.docs
               \/ /\ b.op = "unlock"
                  /\ holds' = [holds EXCEPT ![b.on].status = "released"]
                  /\ locked' = locked \ (b.leave \ b.seen)
      BY <1>8 DEF Holding!EditSave, Holding!ReleaseUnlock
    <2>2. b.on \in Holds
      BY <2>1 DEF HoldsTyped
    <2>3. k # b.on
      BY <1>1, <1>2, <2>1, <2>2 DEF HoldRow
    <2>4. holds[k] = holds'[k]
      BY <1>1, <2>1, <2>2, <2>3
    <2>5. d \in locked /\ d \in Holding!CoveredBut(b.on)
      BY <1>2, <1>3, <2>3, <2>4 DEF Holding!CoveredBut
    <2>6. d \in b.leave /\ d \notin b.seen
      BY <2>1, <2>5
    <2>7. QED
      BY <1>6, <2>1, <2>5, <2>6 DEF Holding!Looked
  <1>9. ASSUME NEW r \in Requests, Holding!DeleteHold(r) PROVE FALSE
    <2>1. PICK b \in busy[r] :
            /\ b.op = "delete"
            /\ holds' = [holds EXCEPT ![b.on] = [status |-> "none", docs |-> {}]]
            /\ locked' = locked
      BY <1>9 DEF Holding!DeleteHold
    <2>2. k # b.on
      BY <1>1, <1>2, <2>1
    <2>3. holds[k] = holds'[k]
      BY <1>1, <2>1, <2>2
    <2>4. QED
      BY <1>2, <1>3, <2>1, <2>3
  <1>10. ASSUME NEW r \in Requests, Holding!LoadHold(r) \/ Holding!LoadDocument(r) \/
                Holding!EditLook(r)
                                      \/ Holding!ReleaseLook(r) \/ Holding!GiveUp(r)
         PROVE  FALSE
    BY <1>5, <1>10
       DEF Holding!LoadHold, Holding!LoadDocument, Holding!EditLook, Holding!ReleaseLook,
         Holding!GiveUp
  <1>11. QED
    BY <1>4, <1>7, <1>8, <1>9, <1>10 DEF Holding!Next

LEMMA HoldKeepsLocks == Holding!Spec => Holding!LockedWhileHeld
  <1>1. HoldsTyped /\ [Holding!Next]_(Holding!vars) =>
          [~(Holding!Covered' \ locked' \subseteq Holding!Covered \ locked) =>
             \E r \in Requests : \E b \in busy[r] :
               /\ busy'[r] = {}
               /\ \/ b.op = "form" /\ b.on \in locked
                  \/ b.op \in {"unlock", "save"} /\
                       ~(Holding!Looked(b.on, b.leave) \subseteq b.seen)]_(Holding!vars)
    BY HoldStep DEF Holding!vars
  <1>2. QED
    BY <1>1, HoldSpecTyped, PTL DEF Holding!Spec, Holding!LockedWhileHeld

----------------------------------------------------------------------------

LEMMA CostingFinite == ASSUME Costing!JobAssumption PROVE IsFiniteSet(Entries)
  BY DEF Costing!JobAssumption, Costing!IsFiniteSet, IsFiniteSet

LEMMA CostingSum == \A f, S : Costing!SumOver(f, S) = SumOver(f, S)
  BY DEF Costing!SumOver, SumOver, Costing!MapThenSumSet, MapThenSumSet,
         Costing!MapThenFoldSet, MapThenFoldSet

\* A deletion holds an entry that was posted, with its amount.
Acts(a) ==
  /\ a.op = "reverse" => a.id \in Entries /\ a.amount \in Int
  /\ a.op = "delete" => /\ a.id \in Entries /\ a.amount \in Int /\ a.total \in Int
                        /\ entries[a.id].of # "none"
                        /\ Costing!Posted(a.id) => entries[a.id].amount = a.amount

JobTyped ==
  /\ entries = [e \in Entries |-> entries[e]]
  /\ \A e \in Entries : entries[e].amount \in Int
  /\ job = [status |-> job.status, total |-> job.total] /\ job.total \in Int
  /\ acting = [r \in Requests |-> acting[r]]

JobIInv == JobTyped /\ \A r \in Requests : \A a \in acting[r] : Acts(a)

LEMMA JobInit == Costing!Init => JobIInv
  BY DEF Costing!Init, JobIInv, JobTyped, Costing!NoRow

\* The row that is inserted, and what it does to the total.
LEMMA InsertFacts ==
    ASSUME JobIInv, NEW n \in Int, NEW of, Costing!Insert(n, of)
    PROVE  \E e \in Entries :
             /\ entries[e] = Costing!NoRow
             /\ entries'[e] = [amount |-> n, of |-> of]
             /\ \A f \in Entries \ {e} : entries'[f] = entries[f]
             /\ entries' = [f \in Entries |-> entries'[f]]
             /\ job' = [status |-> job'.status, total |-> job'.total]
             /\ job'.total = job.total + n /\ job'.total \in Int
  <1>1. PICK e \in Entries :
          /\ entries[e] = Costing!NoRow
          /\ entries' = [entries EXCEPT ![e] = [amount |-> n, of |-> of]]
    BY DEF Costing!Insert
  <1>2. /\ entries'[e] = [amount |-> n, of |-> of]
        /\ \A f \in Entries \ {e} : entries'[f] = entries[f]
        /\ entries' = [f \in Entries |-> entries'[f]]
    BY <1>1 DEF JobIInv, JobTyped
  <1>3. /\ job' = [status |-> job'.status, total |-> job'.total]
        /\ job'.total = job.total + n
    BY DEF Costing!Insert, JobIInv, JobTyped
  <1>4. job'.total \in Int
    BY <1>3 DEF JobIInv, JobTyped
  <1>5. QED
    BY <1>1, <1>2, <1>3, <1>4

LEMMA InsertIInv ==
    ASSUME JobIInv, NEW n \in Int, NEW of, of # "none", Costing!Insert(n, of),
           acting' = [r \in Requests |-> acting'[r]],
           \A r \in Requests : acting'[r] \subseteq acting[r]
    PROVE  JobIInv'
  <1>1. PICK e \in Entries :
             /\ entries[e] = Costing!NoRow
             /\ entries'[e] = [amount |-> n, of |-> of]
             /\ \A f \in Entries \ {e} : entries'[f] = entries[f]
             /\ entries' = [f \in Entries |-> entries'[f]]
             /\ job' = [status |-> job'.status, total |-> job'.total]
             /\ job'.total = job.total + n /\ job'.total \in Int
    BY InsertFacts
  <1>2. \A f \in Entries : entries'[f].amount \in Int
    BY <1>1 DEF JobIInv, JobTyped
  <1>3. ASSUME NEW r \in Requests, NEW a \in acting'[r] PROVE Acts(a)'
    <2>1. Acts(a)
      BY <1>3 DEF JobIInv
    <2>2. a.op = "delete" => a.id # e
      BY <1>1, <2>1 DEF Acts, Costing!NoRow
    <2>3. QED
      BY <1>1, <2>1, <2>2 DEF Acts, Costing!Posted
  <1>4. QED
    BY <1>1, <1>2, <1>3 DEF JobIInv, JobTyped

LEMMA DeleteFacts ==
    ASSUME JobIInv, NEW r \in Requests, Costing!Delete(r)
    PROVE  \E a \in acting[r] :
             /\ a.op = "delete" /\ Acts(a) /\ a.id \in Entries
             /\ entries'[a.id] = Costing!GoneRow
             /\ \A f \in Entries \ {a.id} : entries'[f] = entries[f]
             /\ entries' = [f \in Entries |-> entries'[f]]
             /\ job' = [status |-> job'.status, total |-> job'.total]
             /\ job'.total = a.total - a.amount
             /\ acting' = [acting EXCEPT ![r] = {}]
  <1>1. PICK a \in acting[r] :
          /\ a.op = "delete"
          /\ entries' = [entries EXCEPT ![a.id] = Costing!GoneRow]
          /\ job' = [job EXCEPT !.total = a.total - a.amount]
          /\ acting' = [acting EXCEPT ![r] = {}]
    BY DEF Costing!Delete
  <1>2. Acts(a) /\ a.id \in Entries
    BY <1>1 DEF JobIInv, Acts
  <1>3. /\ entries'[a.id] = Costing!GoneRow
        /\ \A f \in Entries \ {a.id} : entries'[f] = entries[f]
        /\ entries' = [f \in Entries |-> entries'[f]]
    BY <1>1, <1>2 DEF JobIInv, JobTyped
  <1>4. /\ job' = [status |-> job'.status, total |-> job'.total]
        /\ job'.total = a.total - a.amount
    BY <1>1 DEF JobIInv, JobTyped
  <1>5. QED
    BY <1>1, <1>2, <1>3, <1>4

LEMMA JobNextIInv == ASSUME Costing!JobAssumption, JobIInv, Costing!Next PROVE JobIInv'
  <1>1. acting = [r \in Requests |-> acting[r]] /\ job.total \in Int
    BY DEF JobIInv, JobTyped
  <1>2. ASSUME Costing!Post PROVE JobIInv'
    <2>1. PICK n \in Amounts : Costing!Insert(n, "nothing")
      BY <1>2 DEF Costing!Post
    <2>2. n \in Int /\ acting' = acting
      BY <1>2 DEF Costing!Post, Costing!JobAssumption
    <2>3. QED
      BY <1>1, <2>1, <2>2, InsertIInv
  <1>3. ASSUME NEW r \in Requests, Costing!Reverse(r) PROVE JobIInv'
    <2>1. PICK a \in acting[r] :
            /\ a.op = "reverse" /\ Costing!Insert(-a.amount, a.id)
            /\ acting' = [acting EXCEPT ![r] = {}]
      BY <1>3 DEF Costing!Reverse
    <2>2. -a.amount \in Int /\ a.id # "none"
      BY <2>1 DEF JobIInv, Acts, Costing!JobAssumption
    <2>3. /\ acting' = [q \in Requests |-> acting'[q]]
          /\ \A q \in Requests : acting'[q] \subseteq acting[q]
      BY <1>1, <2>1
    <2>4. QED
      BY <2>1, <2>2, <2>3, InsertIInv
  <1>4. ASSUME NEW r \in Requests, NEW a, Acts(a),
               acting' = [acting EXCEPT ![r] = {a}], UNCHANGED <<entries, job>>
        PROVE  JobIInv'
    <2>1. /\ acting' = [q \in Requests |-> acting'[q]]
          /\ \A q \in Requests : acting'[q] = IF q = r THEN {a} ELSE acting[q]
      BY <1>1, <1>4
    <2>2. QED
      BY <1>4, <2>1 DEF JobIInv, JobTyped, Acts, Costing!Posted
  <1>5. ASSUME NEW r \in Requests, Costing!LookForReversal(r) PROVE JobIInv'
    <2>1. PICK e \in Entries :
            acting' = [acting EXCEPT ![r] =
              {[op |-> "reverse", id |-> e, amount |-> entries[e].amount, total |-> 0]}]
      BY <1>5 DEF Costing!LookForReversal
    <2> DEFINE a == [op |-> "reverse", id |-> e, amount |-> entries[e].amount,
          total |-> 0]
    <2>2. Acts(a)
      BY DEF Acts, JobIInv, JobTyped
    <2>3. acting' = [acting EXCEPT ![r] = {a}] /\ UNCHANGED <<entries, job>>
      BY <1>5, <2>1 DEF Costing!LookForReversal
    <2> HIDE DEF a
    <2>4. QED
      BY <1>4, <2>2, <2>3
  <1>6. ASSUME NEW r \in Requests, Costing!LoadToDelete(r) PROVE JobIInv'
    <2>1. PICK e \in Entries :
            /\ Costing!Posted(e)
            /\ acting' = [acting EXCEPT ![r] =
                 {[op |-> "delete", id |-> e, amount |-> entries[e].amount,
                   total |-> job.total]}]
      BY <1>6 DEF Costing!LoadToDelete
    <2> DEFINE a == [op |-> "delete", id |-> e, amount |-> entries[e].amount,
                     total |-> job.total]
    <2>2. Acts(a)
      BY <1>1, <2>1 DEF Acts, JobIInv, JobTyped, Costing!Posted
    <2>3. acting' = [acting EXCEPT ![r] = {a}] /\ UNCHANGED <<entries, job>>
      BY <1>6, <2>1 DEF Costing!LoadToDelete
    <2> HIDE DEF a
    <2>4. QED
      BY <1>4, <2>2, <2>3
  <1>7. ASSUME NEW r \in Requests, Costing!LoadToClose(r) PROVE JobIInv'
    <2> DEFINE a == [op |-> "close", id |-> "none", amount |-> 0, total |-> 0]
    <2>1. Acts(a)
      BY DEF Acts
    <2>2. acting' = [acting EXCEPT ![r] = {a}] /\ UNCHANGED <<entries, job>>
      BY <1>7 DEF Costing!LoadToClose
    <2> HIDE DEF a
    <2>3. QED
      BY <1>4, <2>1, <2>2
  <1>8. ASSUME NEW r \in Requests, Costing!Close(r) \/ Costing!GiveUp(r) PROVE JobIInv'
    <2>1. /\ acting' = [q \in Requests |-> acting'[q]]
          /\ \A q \in Requests : acting'[q] \subseteq acting[q]
          /\ entries' = entries
      BY <1>1, <1>8 DEF Costing!Close, Costing!GiveUp
    <2>2. job' = [status |-> job'.status, total |-> job'.total] /\ job'.total = job.total
      BY <1>8 DEF Costing!Close, Costing!GiveUp, JobIInv, JobTyped
    <2>3. QED
      BY <2>1, <2>2 DEF JobIInv, JobTyped, Acts, Costing!Posted
  <1>9. ASSUME NEW r \in Requests, Costing!Delete(r) PROVE JobIInv'
    <2>1. PICK a \in acting[r] :
             /\ a.op = "delete" /\ Acts(a) /\ a.id \in Entries
             /\ entries'[a.id] = Costing!GoneRow
             /\ \A f \in Entries \ {a.id} : entries'[f] = entries[f]
             /\ entries' = [f \in Entries |-> entries'[f]]
             /\ job' = [status |-> job'.status, total |-> job'.total]
             /\ job'.total = a.total - a.amount
             /\ acting' = [acting EXCEPT ![r] = {}]
      BY <1>9, DeleteFacts
    <2>2. job'.total \in Int
      BY <2>1 DEF Acts
    <2>3. \A f \in Entries : entries'[f].amount \in Int
      BY <2>1 DEF JobIInv, JobTyped, Costing!GoneRow
    <2>4. /\ acting' = [q \in Requests |-> acting'[q]]
          /\ \A q \in Requests : acting'[q] \subseteq acting[q]
      BY <1>1, <2>1
    <2>5. ASSUME NEW q \in Requests, NEW c \in acting'[q] PROVE Acts(c)'
      <3>1. Acts(c)
        BY <2>4, <2>5 DEF JobIInv
      <3>2. QED
        BY <2>1, <3>1 DEF Acts, Costing!Posted, Costing!GoneRow
    <2>6. QED
      BY <2>1, <2>2, <2>3, <2>4, <2>5 DEF JobIInv, JobTyped
  <1>10. QED
    BY <1>2, <1>3, <1>5, <1>6, <1>7, <1>8, <1>9 DEF Costing!Next

LEMMA JobSpecIInv == ASSUME Costing!JobAssumption PROVE Costing!Spec => []JobIInv
  <1>1. JobIInv /\ [Costing!Next]_(Costing!vars) => JobIInv'
    <2>1. ASSUME JobIInv, UNCHANGED Costing!vars PROVE JobIInv'
      BY <2>1 DEF Costing!vars, JobIInv, JobTyped, Acts, Costing!Posted
    <2>2. QED
      BY <2>1, JobNextIInv
  <1>2. QED
    BY <1>1, JobInit, PTL DEF Costing!Spec

\* A write to one entry changes the sum by what it makes of that one.
LEMMA OneEntry ==
    ASSUME Costing!JobAssumption, JobTyped, NEW e \in Entries,
           \A f \in Entries : entries'[f].amount \in Int,
           \A f \in Entries \ {e} : entries'[f] = entries[f]
    PROVE  /\ Costing!Ledger \in Int /\ Costing!Ledger' \in Int
           /\ Costing!Ledger' - Costing!Ledger = entries'[e].amount - entries[e].amount
  <1> DEFINE f == [d \in Entries |-> entries[d].amount]
             g == [d \in Entries |-> entries'[d].amount]
  <1>1. IsFiniteSet(Entries)
    BY CostingFinite
  <1>2. IntOn(f, Entries) /\ IntOn(g, Entries)
    BY DEF IntOn, JobTyped
  <1>3. \A d \in Entries \ {e} : f[d] = g[d]
    OBVIOUS
  <1>4. Share(f, Entries, e) = entries[e].amount /\
          Share(g, Entries, e) = entries'[e].amount
    BY DEF Share
  <1>5. Costing!Ledger = SumOver(f, Entries) /\ Costing!Ledger' = SumOver(g, Entries)
    BY CostingSum DEF Costing!Ledger
  <1> HIDE DEF f, g
  <1>6. QED
    BY <1>1, <1>2, <1>3, <1>4, <1>5, SumOneChange

LEMMA InsertBalances ==
    ASSUME Costing!JobAssumption, JobIInv, JobIInv', NEW n \in Int, NEW of,
           Costing!Insert(n, of)
    PROVE  job'.total - Costing!Ledger' = job.total - Costing!Ledger
  <1>1. PICK e \in Entries :
             /\ entries[e] = Costing!NoRow
             /\ entries'[e] = [amount |-> n, of |-> of]
             /\ \A f \in Entries \ {e} : entries'[f] = entries[f]
             /\ job'.total = job.total + n
    BY InsertFacts
  <1>2. entries[e].amount = 0 /\ entries'[e].amount = n
    BY <1>1 DEF Costing!NoRow
  <1>3. JobTyped /\ job.total \in Int /\ \A f \in Entries : entries'[f].amount \in Int
    BY DEF JobIInv, JobTyped
  <1>4. Costing!Ledger \in Int /\ Costing!Ledger' \in Int /\
          Costing!Ledger' - Costing!Ledger = n - 0
    BY <1>1, <1>2, <1>3, OneEntry
  <1>5. QED
    BY <1>1, <1>3, <1>4

LEMMA JobStep ==
    ASSUME Costing!JobAssumption, JobIInv, JobIInv', Costing!Next,
           job'.total - Costing!Ledger' # job.total - Costing!Ledger
    PROVE  \E r \in Requests : \E a \in acting[r] :
             /\ a.op = "delete" /\ acting'[r] = {}
             /\ a.total # job.total \/ ~Costing!Posted(a.id)
  <1>1. /\ JobTyped /\ job.total \in Int /\ acting = [r \in Requests |-> acting[r]]
        /\ \A f \in Entries : entries'[f].amount \in Int
    BY DEF JobIInv, JobTyped
  <1>2. ~Costing!Post
    BY InsertBalances DEF Costing!Post, Costing!JobAssumption
  <1>3. ASSUME NEW r \in Requests, Costing!Reverse(r) PROVE FALSE
    <2>1. PICK a \in acting[r] : a.op = "reverse" /\ Costing!Insert(-a.amount, a.id)
      BY <1>3 DEF Costing!Reverse
    <2>2. -a.amount \in Int
      BY <2>1 DEF JobIInv, Acts
    <2>3. QED
      BY <2>1, <2>2, InsertBalances
  <1>4. ASSUME NEW r \in Requests,
               \/ Costing!LookForReversal(r) \/ Costing!LoadToDelete(r)
               \/ Costing!LoadToClose(r) \/ Costing!GiveUp(r)
        PROVE  FALSE
    BY <1>4
       DEF Costing!LookForReversal, Costing!LoadToDelete, Costing!LoadToClose,
         Costing!GiveUp, Costing!Ledger
  <1>5. ASSUME NEW r \in Requests, Costing!Close(r) PROVE FALSE
    <2>1. entries' = entries /\ job'.total = job.total
      BY <1>5 DEF Costing!Close, JobIInv, JobTyped
    <2>2. QED
      BY <2>1 DEF Costing!Ledger
  <1>6. ASSUME NEW r \in Requests, Costing!Delete(r)
        PROVE  \E a \in acting[r] : /\ a.op = "delete" /\ acting'[r] = {}
                                    /\ a.total # job.total \/ ~Costing!Posted(a.id)
    <2>1. PICK a \in acting[r] :
             /\ a.op = "delete" /\ Acts(a) /\ a.id \in Entries
             /\ entries'[a.id] = Costing!GoneRow
             /\ \A f \in Entries \ {a.id} : entries'[f] = entries[f]
             /\ job'.total = a.total - a.amount
             /\ acting' = [acting EXCEPT ![r] = {}]
      BY <1>6, DeleteFacts
    <2>2. acting'[r] = {}
      BY <1>1, <2>1
    <2>3. ASSUME a.total = job.total, Costing!Posted(a.id) PROVE FALSE
      <3>1. entries[a.id].amount = a.amount /\ entries'[a.id].amount = 0 /\
              a.amount \in Int
        BY <2>1, <2>3 DEF Acts, Costing!GoneRow
      <3>2. Costing!Ledger \in Int /\ Costing!Ledger' \in Int /\
              Costing!Ledger' - Costing!Ledger = 0 - a.amount
        BY <1>1, <2>1, <3>1, OneEntry
      <3>3. QED
        BY <1>1, <2>1, <2>3, <3>1, <3>2
    <2>4. QED
      BY <2>1, <2>2, <2>3
  <1>7. QED
    BY <1>2, <1>3, <1>4, <1>5, <1>6 DEF Costing!Next

LEMMA JobFollows ==
    ASSUME Costing!JobAssumption
    PROVE  Costing!Spec => Costing!TotalFollowsEntries
  <1>1. JobIInv /\ JobIInv' /\ [Costing!Next]_(Costing!vars) =>
          [job'.total - Costing!Ledger' # job.total - Costing!Ledger =>
             \E r \in Requests : \E a \in acting[r] :
               /\ a.op = "delete" /\ acting'[r] = {}
               /\ a.total # job.total \/ ~Costing!Posted(a.id)]_(Costing!vars)
    BY JobStep DEF Costing!vars
  <1>2. QED
    BY <1>1, JobSpecIInv, PTL DEF Costing!Spec, Costing!TotalFollowsEntries

----------------------------------------------------------------------------

LEMMA CountingFinite ==
    ASSUME Counting!CountingAssumption
    PROVE  IsFiniteSet(Adjustments) /\ IsFiniteSet(Sheets)
  BY DEF Counting!CountingAssumption, Counting!IsFiniteSet, IsFiniteSet

LEMMA CountingSum == \A f, S : Counting!SumOver(f, S) = SumOver(f, S)
  BY DEF Counting!SumOver, SumOver, Counting!MapThenSumSet, MapThenSumSet,
         Counting!MapThenFoldSet, MapThenFoldSet

PaperStatuses == {"draft", "counting", "posted", "reconciled", "gone"}

Paper == [status : PaperStatuses, system : Counting!Quantities,
  counted : Counting!Quantities]

Task == [op : {"line", "post", "posting", "delete"}, id : Counting!Papers,
         variance : Int, read : Nat]

CountTyped ==
  /\ papers \in [Counting!Papers -> Paper]
  /\ balance \in Nat
  /\ counter \in [Requests -> SUBSET Task]

\* A document is posted by one transaction at a time, and while it is under way the
\* document keeps the status that the transaction has found.
OnePost ==
  /\ \A r \in Requests : \A c \in counter[r] :
       c.op = "posting" => papers[c.id].status = Counting!Before(c.id)
  /\ \A r, q \in Requests : \A c \in counter[r], d \in counter[q] :
       c.op = "posting" /\ d.op = "posting" /\ c.id = d.id => r = q

CountIInv == CountTyped /\ OnePost

LEMMA CountInit == ASSUME Counting!CountingAssumption, Counting!Init PROVE CountIInv
  BY DEF Counting!CountingAssumption, Counting!Init, CountIInv, CountTyped, OnePost,
         Paper, PaperStatuses, Counting!Quantities

LEMMA TaskFacts ==
    ASSUME CountIInv, NEW r \in Requests, NEW c \in counter[r]
    PROVE  c \in Task /\ c.id \in Counting!Papers /\ papers[c.id] \in Paper
  BY DEF CountIInv, CountTyped, Task

LEMMA VarianceType ==
    ASSUME Counting!CountingAssumption, CountIInv
    PROVE  \A p \in Counting!Papers : Counting!Variance(p) \in Int
  BY DEF Counting!CountingAssumption, CountIInv, CountTyped, Counting!Variance, Paper,
         Counting!Quantities

LEMMA AdjustedIs ==
    ASSUME CountIInv, NEW c \in Task
    PROVE  /\ Counting!Adjusted(c) \in Nat
           /\ c.read = balance /\ c.read + c.variance >= 0 =>
                Counting!Adjusted(c) = balance + c.variance
  <1> DEFINE n == c.read + c.variance
  <1>1. n \in Int /\ c.variance \in Int /\ balance \in Nat
    BY DEF CountIInv, CountTyped, Task
  <1>2. Counting!Adjusted(c) = IF c.variance = 0 THEN balance ELSE Max({0, n})
    BY DEF Counting!Adjusted, Counting!Max, Max
  <1> HIDE DEF n
  <1>3. Max({0, n}) \in {0, n} /\ \A m \in {0, n} : Max({0, n}) >= m
    BY <1>1 DEF Max
  <1>4. QED
    BY <1>1, <1>2, <1>3 DEF n

\* A step that answers a request and leaves the status of the documents that the
\* others are posting.
LEMMA AnsweredIInv ==
    ASSUME CountIInv, NEW r \in Requests, Counting!Answered(r),
           papers' \in [Counting!Papers -> Paper], balance' \in Nat,
           \A q \in Requests \ {r} : \A c \in counter[q] :
             c.op = "posting" => papers'[c.id].status = papers[c.id].status
    PROVE  CountIInv'
  <1>1. counter \in [Requests -> SUBSET Task]
    BY DEF CountIInv, CountTyped
  <1>2. /\ counter' \in [Requests -> SUBSET Task] /\ counter'[r] = {}
        /\ \A q \in Requests \ {r} : counter'[q] = counter[q]
    BY <1>1 DEF Counting!Answered
  <1>3. OnePost'
    BY <1>2 DEF CountIInv, OnePost, Counting!Before
  <1>4. QED
    BY <1>2, <1>3 DEF CountIInv, CountTyped

\* What a transaction does that posts a document.
LEMMA BeginFacts ==
    ASSUME CountIInv, NEW r \in Requests, Counting!Begin(r)
    PROVE  \E c \in counter[r] :
             /\ c.id \in Counting!Papers /\ c.id \notin Counting!Locked
             /\ papers[c.id].status = Counting!Before(c.id)
             /\ counter' = [counter EXCEPT ![r] =
                  {[op |-> "posting", id |-> c.id,
                    variance |-> Counting!Variance(c.id), read |-> balance]}]
             /\ papers' = papers /\ balance' = balance
  BY TaskFacts DEF Counting!Begin, Counting!Opened

LEMMA FinishFacts ==
    ASSUME CountIInv, NEW r \in Requests, Counting!Finish(r)
    PROVE  \E c \in counter[r] :
             /\ c \in Task /\ c.op = "posting" /\ c.id \in Counting!Papers
             /\ papers[c.id].status = Counting!Before(c.id)
             /\ papers' = [papers EXCEPT ![c.id].status = Counting!After(c.id)]
             /\ balance' = Counting!Adjusted(c)
             /\ Counting!Answered(r) /\ counter' = [counter EXCEPT ![r] = {}]
  BY TaskFacts DEF Counting!Finish, Counting!Answered, CountIInv, OnePost

LEMMA BeginIInv ==
    ASSUME Counting!CountingAssumption, CountIInv, NEW r \in Requests, Counting!Begin(r)
    PROVE  CountIInv'
  <1>1. PICK c \in counter[r] :
          /\ c.id \in Counting!Papers /\ c.id \notin Counting!Locked
          /\ papers[c.id].status = Counting!Before(c.id)
          /\ counter' = [counter EXCEPT ![r] =
               {[op |-> "posting", id |-> c.id,
                 variance |-> Counting!Variance(c.id), read |-> balance]}]
          /\ papers' = papers /\ balance' = balance
    BY BeginFacts
  <1> DEFINE t == [op |-> "posting", id |-> c.id,
                   variance |-> Counting!Variance(c.id), read |-> balance]
  <1>2. /\ papers \in [Counting!Papers -> Paper] /\ balance \in Nat
        /\ counter \in [Requests -> SUBSET Task]
    BY DEF CountIInv, CountTyped
  <1>3. t \in Task
    BY <1>1, <1>2, VarianceType DEF Task
  <1>4. t.id = c.id
    OBVIOUS
  <1>5. counter' = [counter EXCEPT ![r] = {t}]
    BY <1>1
  <1> HIDE DEF t
  <1>6. /\ counter'[r] = {t} /\ counter' \in [Requests -> SUBSET Task]
        /\ \A q \in Requests \ {r} : counter'[q] = counter[q]
    BY <1>2, <1>3, <1>5
  <1>7. \A q \in Requests : \A d \in counter[q] : d.op = "posting" => d.id # c.id
    BY <1>1, <1>2 DEF Counting!Locked
  <1>8. OnePost'
    <2>1. ASSUME NEW q \in Requests, NEW d \in counter'[q], d.op = "posting"
          PROVE  papers'[d.id].status = Counting!Before(d.id)
      BY <1>1, <1>4, <1>6, <2>1 DEF CountIInv, OnePost
    <2>2. ASSUME NEW q \in Requests, NEW s \in Requests, NEW d \in counter'[q],
                 NEW e \in counter'[s], d.op = "posting", e.op = "posting", d.id = e.id
          PROVE  q = s
      BY <1>4, <1>6, <1>7, <2>2 DEF CountIInv, OnePost
    <2>3. QED
      BY <2>1, <2>2 DEF OnePost, Counting!Before
  <1>9. QED
    BY <1>1, <1>2, <1>6, <1>8 DEF CountIInv, CountTyped

LEMMA CountNextIInv ==
    ASSUME Counting!CountingAssumption, CountIInv, Counting!Next
    PROVE  CountIInv'
  <1>1. /\ papers \in [Counting!Papers -> Paper] /\ balance \in Nat
        /\ counter \in [Requests -> SUBSET Task]
    BY DEF CountIInv, CountTyped
  <1>2. ASSUME NEW p \in Counting!Papers, Counting!Start(p) PROVE CountIInv'
    <2>1. /\ p \in Sheets /\ papers[p].status = "draft" /\ counter' = counter
          /\ papers' = [papers EXCEPT ![p].status = "counting"] /\ balance' = balance
      BY <1>2 DEF Counting!Start
    <2>2. CountTyped'
      BY <1>1, <2>1 DEF CountTyped, Paper, PaperStatuses
    <2>3. \A r \in Requests : \A c \in counter[r] :
            c.op = "posting" => c.id # p /\ papers'[c.id] = papers[c.id]
      BY <1>1, <2>1, TaskFacts DEF CountIInv, OnePost, Counting!Before
    <2>4. OnePost'
      BY <2>1, <2>3 DEF CountIInv, OnePost, Counting!Before
    <2>5. QED
      BY <2>2, <2>4 DEF CountIInv
  <1>3. ASSUME NEW r \in Requests, Counting!Load(r) PROVE CountIInv'
    <2>1. PICK op \in {"line", "post", "delete"}, p \in Counting!Papers :
            counter' = [counter EXCEPT ![r] =
                         {[op |-> op, id |-> p, variance |-> 0, read |-> 0]}]
      BY <1>3 DEF Counting!Load
    <2> DEFINE t == [op |-> op, id |-> p, variance |-> 0, read |-> 0]
    <2>2. t \in Task /\ t.op # "posting"
      BY DEF Task
    <2>3. papers' = papers /\ balance' = balance /\ counter' = [counter EXCEPT ![r] = {t}]
      BY <1>3, <2>1 DEF Counting!Load
    <2> HIDE DEF t
    <2>4. /\ counter' \in [Requests -> SUBSET Task] /\ counter'[r] = {t}
          /\ \A q \in Requests \ {r} : counter'[q] = counter[q]
      BY <1>1, <2>2, <2>3
    <2>5. OnePost'
      BY <2>2, <2>3, <2>4 DEF CountIInv, OnePost, Counting!Before
    <2>6. QED
      BY <1>1, <2>3, <2>4, <2>5 DEF CountIInv, CountTyped
  <1>4. ASSUME NEW r \in Requests, Counting!WriteLine(r) PROVE CountIInv'
    <2>1. PICK c \in counter[r] :
            \E s \in Counting!Quantities, n \in Counting!Quantities :
              papers' = [papers EXCEPT ![c.id].system = s, ![c.id].counted = n]
      BY <1>4 DEF Counting!WriteLine
    <2>2. PICK s \in Counting!Quantities, n \in Counting!Quantities :
            papers' = [papers EXCEPT ![c.id].system = s, ![c.id].counted = n]
      BY <2>1
    <2>3. /\ papers' \in [Counting!Papers -> Paper]
          /\ \A p \in Counting!Papers : papers'[p].status = papers[p].status
      BY <1>1, <2>2 DEF Paper
    <2>4. \A q \in Requests : \A d \in counter[q] : d.id \in Counting!Papers
      BY TaskFacts
    <2>5. Counting!Answered(r) /\ balance' = balance
      BY <1>4 DEF Counting!WriteLine
    <2>6. QED
      BY <1>1, <2>3, <2>4, <2>5, AnsweredIInv
  <1>5. ASSUME NEW r \in Requests, Counting!Finish(r) PROVE CountIInv'
    <2>1. PICK c \in counter[r] :
             /\ c \in Task /\ c.op = "posting" /\ c.id \in Counting!Papers
             /\ papers' = [papers EXCEPT ![c.id].status = Counting!After(c.id)]
             /\ balance' = Counting!Adjusted(c)
             /\ Counting!Answered(r)
      BY <1>5, FinishFacts
    <2>2. papers' \in [Counting!Papers -> Paper]
      BY <1>1, <2>1 DEF Paper, PaperStatuses, Counting!After
    <2>3. balance' \in Nat
      BY <2>1, AdjustedIs
    <2>4. \A q \in Requests \ {r} : \A d \in counter[q] :
            d.op = "posting" => d.id # c.id /\ d.id \in Counting!Papers
      BY <2>1, TaskFacts DEF CountIInv, OnePost
    <2>5. QED
      BY <1>1, <2>1, <2>2, <2>3, <2>4, AnsweredIInv
  <1>6. ASSUME NEW r \in Requests, Counting!Delete(r) PROVE CountIInv'
    <2>1. PICK c \in counter[r] :
            /\ c.id \notin Counting!Locked
            /\ papers' =
                 [papers EXCEPT ![c.id] = [status |-> "gone", system |-> 0, counted |-> 0]]
      BY <1>6 DEF Counting!Delete
    <2>2. [status |-> "gone", system |-> 0, counted |-> 0] \in Paper
      BY DEF Paper, PaperStatuses, Counting!Quantities, Counting!CountingAssumption
    <2>3. papers' \in [Counting!Papers -> Paper]
      BY <1>1, <2>1, <2>2
    <2>4. \A q \in Requests : \A d \in counter[q] :
            d.op = "posting" => d.id # c.id /\ d.id \in Counting!Papers
      BY <2>1, TaskFacts DEF Counting!Locked
    <2>5. Counting!Answered(r) /\ balance' = balance
      BY <1>6 DEF Counting!Delete
    <2>6. QED
      BY <1>1, <2>1, <2>3, <2>4, <2>5, AnsweredIInv
  <1>7. ASSUME NEW r \in Requests, Counting!GiveUp(r) PROVE CountIInv'
    BY <1>1, <1>7, AnsweredIInv DEF Counting!GiveUp
  <1>8. QED
    BY <1>2, <1>3, <1>4, <1>5, <1>6, <1>7, BeginIInv DEF Counting!Next

LEMMA CountSpecIInv ==
    ASSUME Counting!CountingAssumption
    PROVE  Counting!Spec => []CountIInv
  <1>1. Counting!Init => CountIInv
    BY CountInit
  <1>2. CountIInv /\ [Counting!Next]_(Counting!vars) => CountIInv'
    <2>1. ASSUME CountIInv, UNCHANGED Counting!vars PROVE CountIInv'
      BY <2>1 DEF Counting!vars, CountIInv, CountTyped, OnePost, Counting!Before
    <2>2. QED
      BY <2>1, CountNextIInv
  <1>3. QED
    BY <1>1, <1>2, PTL DEF Counting!Spec

\* What one document says it has moved.
Moved(p) == IF p \in Counting!Done THEN Counting!Variance(p) ELSE 0

\* A write to one document changes the corrections by what it makes of that one.
LEMMA OnePaper ==
    ASSUME Counting!CountingAssumption, CountIInv, CountIInv',
           NEW p \in Counting!Papers, \A q \in Counting!Papers \ {p} :
             papers'[q] = papers[q]
    PROVE  /\ Counting!Corrections \in Int /\ Counting!Corrections' \in Int
           /\ Moved(p) \in Int /\ Moved(p)' \in Int
           /\ Counting!Corrections' - Counting!Corrections = Moved(p)' - Moved(p)
  <1> DEFINE f == [q \in Counting!Papers |-> papers[q].counted - papers[q].system]
             S == {q \in Counting!Papers : papers[q].status \in {"posted", "reconciled"}}
             g == [q \in Counting!Papers |-> papers'[q].counted - papers'[q].system]
             T == {q \in Counting!Papers : papers'[q].status \in {"posted", "reconciled"}}
  <1>1. papers \in [Counting!Papers -> Paper] /\ papers' \in [Counting!Papers -> Paper]
    BY DEF CountIInv, CountTyped
  <1>2. \A q \in Counting!Papers : f[q] \in Int /\ g[q] \in Int
    BY <1>1 DEF Counting!CountingAssumption, Paper, Counting!Quantities
  <1>3. IsFiniteSet(Counting!Papers)
    BY FS_Union, CountingFinite DEF Counting!Papers
  <1>4. S \subseteq Counting!Papers /\ T \subseteq Counting!Papers
    OBVIOUS
  <1>5. IsFiniteSet(S) /\ IsFiniteSet(T)
    BY <1>3, <1>4, FS_Subset
  <1>6. S \ {p} = T \ {p} /\ \A q \in S \ {p} : f[q] = g[q]
    OBVIOUS
  <1>7. IntOn(f, S) /\ IntOn(g, T)
    BY <1>2, <1>4 DEF IntOn
  <1>8. Share(f, S, p) = Moved(p) /\ Share(g, T, p) = Moved(p)'
    BY DEF Share, Moved, Counting!Done, Counting!Variance
  <1>9. Counting!Corrections = SumOver(f, S) /\ Counting!Corrections' = SumOver(g, T)
    BY CountingSum DEF Counting!Corrections, Counting!Done, Counting!Variance
  <1>10. Moved(p) \in Int /\ Moved(p)' \in Int
    <2>1. Share(f, S, p) \in Int /\ Share(g, T, p) \in Int
      BY <1>2 DEF Share
    <2> HIDE DEF f, S, g, T
    <2>2. QED
      BY <1>8, <2>1
  <1> HIDE DEF f, S, g, T
  <1>11. QED
    BY <1>5, <1>6, <1>7, <1>8, <1>9, <1>10, SumOneChange

LEMMA OnePaperBalances ==
    ASSUME Counting!CountingAssumption, CountIInv, CountIInv',
           NEW p \in Counting!Papers, \A q \in Counting!Papers \ {p} :
             papers'[q] = papers[q],
           balance' - balance = Moved(p)' - Moved(p)
    PROVE  balance' - Counting!Corrections' = balance - Counting!Corrections
  <1>1. balance \in Int /\ balance' \in Int
    BY DEF CountIInv, CountTyped
  <1>2. QED
    BY <1>1, OnePaper

LEMMA CountStep ==
    ASSUME Counting!CountingAssumption, CountIInv, CountIInv', Counting!Next,
           balance' - Counting!Corrections' # balance - Counting!Corrections
    PROVE  \E r \in Requests : \E c \in counter[r] :
             /\ counter'[r] = {}
             /\ \/ /\ c.op = "posting"
                   /\ \/ c.read # balance \/ c.read + c.variance < 0
                      \/ c.variance # Counting!Variance(c.id)
                \/ c.op \in {"line", "delete"} /\ c.id \in Counting!Done
  <1>1. /\ papers \in [Counting!Papers -> Paper] /\ balance \in Nat
        /\ papers' \in [Counting!Papers -> Paper] /\ balance' \in Nat
        /\ counter \in [Requests -> SUBSET Task]
    BY DEF CountIInv, CountTyped
  <1>2. ASSUME NEW p \in Counting!Papers, Counting!Start(p) PROVE FALSE
    <2>1. /\ \A q \in Counting!Papers \ {p} : papers'[q] = papers[q]
          /\ balance' = balance /\ p \notin Counting!Done /\ ~(p \in Counting!Done)'
      BY <1>1, <1>2 DEF Counting!Start, Counting!Done, Paper
    <2>2. QED
      BY <1>1, <2>1, OnePaperBalances DEF Moved
  <1>3. ASSUME NEW r \in Requests, Counting!Load(r) \/ Counting!GiveUp(r) \/
               Counting!Begin(r)
        PROVE  FALSE
    BY <1>3
       DEF Counting!Load, Counting!GiveUp, Counting!Begin, Counting!Corrections,
           Counting!Done,
         Counting!Variance
  <1>4. ASSUME NEW r \in Requests, Counting!Finish(r)
        PROVE  \E c \in counter[r] :
                 /\ counter'[r] = {}
                 /\ c.op = "posting"
                 /\ \/ c.read # balance \/ c.read + c.variance < 0
                    \/ c.variance # Counting!Variance(c.id)
    <2>1. PICK c \in counter[r] :
             /\ c \in Task /\ c.op = "posting" /\ c.id \in Counting!Papers
             /\ papers[c.id].status = Counting!Before(c.id)
             /\ papers' = [papers EXCEPT ![c.id].status = Counting!After(c.id)]
             /\ balance' = Counting!Adjusted(c)
             /\ counter' = [counter EXCEPT ![r] = {}]
      BY <1>4, FinishFacts
    <2>2. ASSUME c.read = balance, c.read + c.variance >= 0,
                 c.variance = Counting!Variance(c.id)
          PROVE  FALSE
      <3>1. /\ \A q \in Counting!Papers \ {c.id} : papers'[q] = papers[q]
            /\ Counting!Variance(c.id)' = Counting!Variance(c.id)
            /\ c.id \notin Counting!Done /\ (c.id \in Counting!Done)'
        BY <1>1, <2>1
           DEF Counting!Done, Counting!Variance, Paper, Counting!Before, Counting!After
      <3>2. Moved(c.id) = 0 /\ Moved(c.id)' = Counting!Variance(c.id)
        BY <3>1 DEF Moved
      <3>3. balance' = balance + Counting!Variance(c.id) /\
              Counting!Variance(c.id) \in Int
        BY <2>1, <2>2, AdjustedIs, VarianceType
      <3>4. QED
        BY <1>1, <2>1, <3>1, <3>2, <3>3, OnePaperBalances
    <2>3. c.read \in Int /\ c.variance \in Int /\ counter'[r] = {}
      BY <1>1, <2>1 DEF Task
    <2>4. QED
      BY <2>1, <2>2, <2>3
  <1>5. ASSUME NEW r \in Requests, NEW c \in counter[r], c.op \in {"line", "delete"},
               Counting!Answered(r), balance' = balance,
               \A q \in Counting!Papers \ {c.id} : papers'[q] = papers[q],
               papers'[c.id].status \in {papers[c.id].status, "gone"}
        PROVE  /\ counter'[r] = {} /\ c.id \in Counting!Done
    <2>1. c.id \in Counting!Papers
      BY TaskFacts
    <2>2. ASSUME c.id \notin Counting!Done PROVE FALSE
      <3>1. ~(c.id \in Counting!Done)'
        BY <1>5, <2>1, <2>2 DEF Counting!Done
      <3>2. QED
        BY <1>1, <1>5, <2>1, <2>2, <3>1, OnePaperBalances DEF Moved
    <2>3. QED
      BY <1>1, <1>5, <2>2 DEF Counting!Answered
  <1>6. ASSUME NEW r \in Requests, Counting!WriteLine(r)
        PROVE  \E c \in counter[r] : /\ counter'[r] = {}
                                     /\ c.op \in {"line", "delete"}
                                     /\ c.id \in Counting!Done
    <2>1. PICK c \in counter[r] :
            /\ c.op = "line"
            /\ \E s \in Counting!Quantities, n \in Counting!Quantities :
                 papers' = [papers EXCEPT ![c.id].system = s, ![c.id].counted = n]
      BY <1>6 DEF Counting!WriteLine
    <2>2. PICK s \in Counting!Quantities, n \in Counting!Quantities :
            papers' = [papers EXCEPT ![c.id].system = s, ![c.id].counted = n]
      BY <2>1
    <2>3. c.id \in Counting!Papers
      BY TaskFacts
    <2>4. /\ \A q \in Counting!Papers \ {c.id} : papers'[q] = papers[q]
          /\ papers'[c.id].status = papers[c.id].status
      BY <1>1, <2>2, <2>3 DEF Paper
    <2>5. QED
      BY <1>5, <1>6, <2>1, <2>4 DEF Counting!WriteLine
  <1>7. ASSUME NEW r \in Requests, Counting!Delete(r)
        PROVE  \E c \in counter[r] : /\ counter'[r] = {}
                                     /\ c.op \in {"line", "delete"}
                                     /\ c.id \in Counting!Done
    <2>1. PICK c \in counter[r] :
            /\ c.op = "delete"
            /\ papers' = [papers EXCEPT ![c.id] =
                            [status |-> "gone", system |-> 0, counted |-> 0]]
      BY <1>7 DEF Counting!Delete
    <2>2. c.id \in Counting!Papers
      BY TaskFacts
    <2>3. /\ \A q \in Counting!Papers \ {c.id} : papers'[q] = papers[q]
          /\ papers'[c.id].status = "gone"
      BY <1>1, <2>1, <2>2
    <2>4. QED
      BY <1>5, <1>7, <2>1, <2>3 DEF Counting!Delete
  <1>8. QED
    BY <1>2, <1>3, <1>4, <1>6, <1>7 DEF Counting!Next

LEMMA CountPostsOnce ==
    ASSUME Counting!CountingAssumption
    PROVE  Counting!Spec => Counting!VariancePostedOnce
  <1>1. CountIInv /\ CountIInv' /\ [Counting!Next]_(Counting!vars) =>
          [balance' - Counting!Corrections' # balance - Counting!Corrections =>
             \E r \in Requests : \E c \in counter[r] :
               /\ counter'[r] = {}
               /\ \/ /\ c.op = "posting"
                     /\ \/ c.read # balance
                        \/ c.read + c.variance < 0
                        \/ c.variance # Counting!Variance(c.id)
                  \/ c.op \in {"line", "delete"} /\ c.id \in Counting!Done]_(Counting!vars)
    BY CountStep DEF Counting!vars
  <1>2. QED
    BY <1>1, CountSpecIInv, PTL DEF Counting!Spec, Counting!VariancePostedOnce

----------------------------------------------------------------------------

\* Who has looked and is fresh has seen what there is.
Sighted(d) == d.op = "insert" /\ d.fresh => Dispatching!Live = {}

DispatchIInv ==
  /\ workOrders = [w \in WorkOrders |-> workOrders[w]]
  /\ requests = [r \in Requests |-> requests[r]]
  /\ \A r \in Requests : \A d \in requests[r] :
       /\ d = [op |-> d.op, id |-> d.id, status |-> d.status, fresh |-> d.fresh]
       /\ Sighted(d)

LEMMA DispatchInit == Dispatching!Init => DispatchIInv
  BY DEF Dispatching!Init, DispatchIInv

LEMMA WrittenFacts ==
    ASSUME DispatchIInv, NEW r \in Requests, NEW w, NEW st, Dispatching!Written(r, w, st)
    PROVE  /\ DispatchIInv' /\ requests'[r] = {}
           /\ \A v \in WorkOrders \ {w} : workOrders'[v] = workOrders[v]
  <1>1. \A q \in Requests : requests'[q] =
          IF q = r THEN {} ELSE {[d EXCEPT !.fresh = FALSE] : d \in requests[q]}
    BY DEF Dispatching!Written
  <1>2. ASSUME NEW q \in Requests, NEW d \in requests'[q]
        PROVE  /\ d = [op |-> d.op, id |-> d.id, status |-> d.status, fresh |-> d.fresh]
               /\ Sighted(d)'
    <2> DEFINE aged(c) == [c EXCEPT !.fresh = FALSE]
    <2>5. requests'[q] = IF q = r THEN {} ELSE {aged(c) : c \in requests[q]}
      BY <1>1
    <2>1. PICK c \in requests[q] : d = aged(c)
      <3> HIDE DEF aged
      <3>1. QED
        BY <1>2, <2>5
    <2>2. c = [op |-> c.op, id |-> c.id, status |-> c.status, fresh |-> c.fresh]
      BY DEF DispatchIInv
    <2>3. d = [op |-> c.op, id |-> c.id, status |-> c.status, fresh |-> FALSE]
      BY <2>1, <2>2
    <2>4. QED
      BY <2>3 DEF Sighted
  <1>3. /\ requests' = [q \in Requests |-> requests'[q]]
        /\ workOrders' = [v \in WorkOrders |-> workOrders'[v]]
        /\ \A v \in WorkOrders \ {w} : workOrders'[v] = workOrders[v]
    BY DEF Dispatching!Written, DispatchIInv
  <1>4. QED
    BY <1>1, <1>2, <1>3 DEF DispatchIInv

\* A request takes one more step without writing a work order.
LEMMA GoesIInv ==
    ASSUME DispatchIInv, workOrders' = workOrders, NEW r \in Requests, NEW s,
           Dispatching!Goes(r, s),
           \A d \in s :
             /\ d = [op |-> d.op, id |-> d.id, status |-> d.status, fresh |-> d.fresh]
             /\ Sighted(d)
    PROVE  DispatchIInv'
  <1>1. /\ \A q \in Requests : requests'[q] = IF q = r THEN s ELSE requests[q]
        /\ requests' = [q \in Requests |-> requests'[q]]
    BY DEF Dispatching!Goes, DispatchIInv
  <1>2. QED
    BY <1>1 DEF DispatchIInv, Sighted, Dispatching!Live, Dispatching!Existing

LEMMA HoldsFacts ==
    ASSUME NEW op, NEW id, NEW st, op # "insert"
    PROVE  \A d \in {Dispatching!Keeps(op, id, st)} :
             /\ d = [op |-> d.op, id |-> d.id, status |-> d.status, fresh |-> d.fresh]
             /\ Sighted(d)
  BY DEF Dispatching!Keeps, Sighted

\* The moves of a work order bring none to life.
LEMMA MoveKeeps ==
    ASSUME DispatchIInv, NEW w \in WorkOrders, Dispatching!MoveWorkOrder(w)
    PROVE  Dispatching!Live' \subseteq Dispatching!Live
  <1>1. PICK move \in Dispatching!WorkOrderMoves :
          workOrders[w] = move[1] /\ workOrders' = [workOrders EXCEPT ![w] = move[2]]
    BY DEF Dispatching!MoveWorkOrder
  <1>2. move[1] \notin {"none", "deleted", "cancelled"}
    BY DEF Dispatching!WorkOrderMoves
  <1>3. w \in Dispatching!Live
    BY <1>1, <1>2 DEF Dispatching!Live, Dispatching!Existing
  <1>4. \A v \in WorkOrders \ {w} : workOrders'[v] = workOrders[v]
    BY <1>1 DEF DispatchIInv
  <1>5. QED
    BY <1>3, <1>4 DEF Dispatching!Live, Dispatching!Existing

LEMMA DispatchNextIInv == ASSUME DispatchIInv, Dispatching!Next PROVE DispatchIInv'
  <1>1. ASSUME Dispatching!MoveOrder PROVE DispatchIInv'
    BY <1>1
       DEF Dispatching!MoveOrder, DispatchIInv, Sighted, Dispatching!Live,
         Dispatching!Existing
  <1>2. ASSUME NEW w \in WorkOrders, Dispatching!MoveWorkOrder(w) PROVE DispatchIInv'
    <2>1. Dispatching!Live' \subseteq Dispatching!Live
      BY <1>2, MoveKeeps
    <2>2. /\ workOrders' = [v \in WorkOrders |-> workOrders'[v]] /\ requests' = requests
      BY <1>2 DEF Dispatching!MoveWorkOrder, DispatchIInv
    <2>3. QED
      BY <2>1, <2>2 DEF DispatchIInv, Sighted
  <1>3. ASSUME NEW r \in Requests, Dispatching!Load(r) PROVE DispatchIInv'
    <2>1. \A d \in {Dispatching!Keeps("look", "none", "none")} :
            /\ d = [op |-> d.op, id |-> d.id, status |-> d.status, fresh |-> d.fresh]
            /\ Sighted(d)
      BY HoldsFacts
    <2>2. QED
      BY <1>3, <2>1, GoesIInv DEF Dispatching!Load
  <1>4. ASSUME NEW r \in Requests, Dispatching!Look(r) PROVE DispatchIInv'
    <2> DEFINE c == Dispatching!Keeps("insert", "none", "none")
    <2>1. Dispatching!Goes(r, IF Dispatching!Found THEN {} ELSE {c}) /\
            workOrders' = workOrders
      BY <1>4 DEF Dispatching!Look
    <2>2. CASE Dispatching!Found
      BY <2>1, <2>2, GoesIInv
    <2>3. CASE ~Dispatching!Found
      <3>1. /\ c = [op |-> c.op, id |-> c.id, status |-> c.status, fresh |-> c.fresh]
            /\ Sighted(c)
        BY <2>3 DEF Dispatching!Keeps, Sighted, Dispatching!Found
      <3> HIDE DEF c
      <3>2. QED
        BY <2>1, <2>3, <3>1, GoesIInv
    <2>4. QED
      BY <2>2, <2>3
  <1>5. ASSUME NEW r \in Requests, NEW op, NEW id, NEW s, op # "insert",
               Dispatching!Goes(r, {Dispatching!Keeps(op, id, s)}),
                 workOrders' = workOrders
        PROVE  DispatchIInv'
    <2>1. \A d \in {Dispatching!Keeps(op, id, s)} :
            /\ d = [op |-> d.op, id |-> d.id, status |-> d.status, fresh |-> d.fresh]
            /\ Sighted(d)
      BY <1>5, HoldsFacts
    <2>2. QED
      BY <1>5, <2>1, GoesIInv
  <1>9. ASSUME NEW r \in Requests, Dispatching!LoadWorkOrder(r) PROVE DispatchIInv'
    <2>1. PICK w \in Dispatching!Existing :
            \/ Dispatching!Goes(r, {Dispatching!Keeps("edit", w, workOrders[w])})
            \/ Dispatching!Goes(r, {Dispatching!Keeps("delete", w, "deleted")})
      BY <1>9 DEF Dispatching!LoadWorkOrder
    <2>2. QED
      BY <1>5, <1>9, <2>1 DEF Dispatching!LoadWorkOrder
  <1>10. ASSUME NEW r \in Requests, Dispatching!LoadOrder(r) PROVE DispatchIInv'
    BY <1>5, <1>10 DEF Dispatching!LoadOrder
  <1>6. ASSUME NEW r \in Requests,
               \/ Dispatching!Insert(r)
               \/ Dispatching!SaveWorkOrder(r) \/ Dispatching!DeleteWorkOrder(r)
        PROVE  DispatchIInv'
    BY <1>6, WrittenFacts
       DEF Dispatching!Insert, Dispatching!SaveWorkOrder, Dispatching!DeleteWorkOrder
  <1>7. ASSUME NEW r \in Requests, Dispatching!GiveUp(r) \/ Dispatching!WriteOrder(r)
        PROVE  DispatchIInv'
    BY <1>7, GoesIInv DEF Dispatching!GiveUp, Dispatching!WriteOrder
  <1>8. QED
    BY <1>1, <1>2, <1>3, <1>4, <1>6, <1>7, <1>9, <1>10 DEF Dispatching!Next

LEMMA DispatchSpecIInv == Dispatching!Spec => []DispatchIInv
  <1>1. DispatchIInv /\ [Dispatching!Next]_(Dispatching!vars) => DispatchIInv'
    <2>1. ASSUME DispatchIInv, UNCHANGED Dispatching!vars PROVE DispatchIInv'
      BY <2>1
         DEF Dispatching!vars, DispatchIInv, Sighted, Dispatching!Live,
           Dispatching!Existing
    <2>2. QED
      BY <2>1, DispatchNextIInv
  <1>2. QED
    BY <1>1, DispatchInit, PTL DEF Dispatching!Spec

LEMMA DispatchStep ==
    ASSUME DispatchIInv, Dispatching!Next, Dispatching!Live # {},
           ~(Dispatching!Live' \subseteq Dispatching!Live)
    PROVE  \E r \in Requests : \E d \in requests[r] :
             /\ requests'[r] = {}
             /\ \/ d.op = "insert" /\ ~d.fresh
                \/ d.op = "edit" /\ d.id \notin Dispatching!Live
  <1>1. ASSUME workOrders' = workOrders PROVE FALSE
    BY <1>1 DEF Dispatching!Live, Dispatching!Existing
  <1>2. ASSUME NEW r \in Requests, Dispatching!Load(r) \/ Dispatching!Look(r) \/
               Dispatching!GiveUp(r) \/ Dispatching!LoadWorkOrder(r)
                                    \/ Dispatching!LoadOrder(r) \/
                                         Dispatching!WriteOrder(r)
        PROVE  FALSE
    BY <1>1, <1>2
       DEF Dispatching!Load, Dispatching!Look, Dispatching!GiveUp,
         Dispatching!LoadWorkOrder, Dispatching!LoadOrder, Dispatching!WriteOrder
  <1>3. ~Dispatching!MoveOrder
    BY <1>1 DEF Dispatching!MoveOrder
  <1>4. ASSUME NEW w \in WorkOrders, Dispatching!MoveWorkOrder(w) PROVE FALSE
    BY <1>4, MoveKeeps
  <1>5. ASSUME NEW r \in Requests, Dispatching!Insert(r)
        PROVE  \E d \in requests[r] : requests'[r] = {} /\ d.op = "insert" /\ ~d.fresh
    <2>1. PICK d \in requests[r] : d.op = "insert" /\ requests'[r] = {}
      BY <1>5, WrittenFacts DEF Dispatching!Insert
    <2>2. ~d.fresh
      BY <2>1 DEF DispatchIInv, Sighted
    <2>3. QED
      BY <2>1, <2>2
  <1>6. ASSUME NEW r \in Requests, Dispatching!SaveWorkOrder(r)
        PROVE  \E d \in requests[r] : requests'[r] = {} /\ d.op = "edit" /\
               d.id \notin Dispatching!Live
    <2>1. PICK d \in requests[r] : d.op = "edit" /\ Dispatching!Written(r, d.id, d.status)
      BY <1>6 DEF Dispatching!SaveWorkOrder
    <2>2. /\ requests'[r] = {}
          /\ \A v \in WorkOrders \ {d.id} : workOrders'[v] = workOrders[v]
      BY <2>1, WrittenFacts
    <2>3. ASSUME d.id \in Dispatching!Live PROVE FALSE
      BY <2>2, <2>3 DEF Dispatching!Live, Dispatching!Existing
    <2>4. QED
      BY <2>1, <2>2, <2>3
  <1>7. ASSUME NEW r \in Requests, Dispatching!DeleteWorkOrder(r) PROVE FALSE
    <2>1. PICK d \in requests[r] : Dispatching!Written(r, d.id, "deleted")
      BY <1>7 DEF Dispatching!DeleteWorkOrder
    <2>2. /\ \A v \in WorkOrders \ {d.id} : workOrders'[v] = workOrders[v]
          /\ d.id \in WorkOrders => workOrders'[d.id] = "deleted"
      BY <2>1, WrittenFacts DEF Dispatching!Written, DispatchIInv
    <2>3. QED
      BY <2>2 DEF Dispatching!Live, Dispatching!Existing
  <1>8. QED
    BY <1>2, <1>3, <1>4, <1>5, <1>6, <1>7 DEF Dispatching!Next

LEMMA DispatchOnce == Dispatching!Spec => Dispatching!OneWorkOrder
  <1>1. DispatchIInv /\ [Dispatching!Next]_(Dispatching!vars) =>
          [Dispatching!Live # {} /\ ~(Dispatching!Live' \subseteq Dispatching!Live) =>
             \E r \in Requests : \E d \in requests[r] :
               /\ requests'[r] = {}
               /\ \/ d.op = "insert" /\ ~d.fresh
                  \/ d.op = "edit" /\ d.id \notin Dispatching!Live]_(Dispatching!vars)
    BY DispatchStep DEF Dispatching!vars
  <1>2. QED
    BY <1>1, DispatchSpecIInv, PTL DEF Dispatching!Spec, Dispatching!OneWorkOrder

----------------------------------------------------------------------------

TableTyped == remembered = [p \in Processes |-> remembered[p]]

TrailTyped ==
  /\ trail \in AuditTrails
  /\ status \in Auditing!Known(trail)
  /\ saving \in [Requests -> SUBSET Auditing!Save(trail)]
  /\ TableTyped
  /\ \A r \in Requests : \A v, w \in saving[r] : v = w
  /\ status = Auditing!None => \A r \in Requests : saving[r] = {}

\* What a save that has missed nothing knows.
Seen(v) ==
  /\ v.phase = "before" => v.before = status /\ ~v.created
  /\ v.phase = "after" => v.to = status
  /\ v.created => v.before = Auditing!None
  /\ ~v.created => /\ v.before \in trail.statuses
                   /\ trail.memory = "process" => remembered[v.at] = v.before
                   /\ trail.memory = "cache" =>
                        remembered[v.at] \in {Auditing!None, v.before}

Knowing == {v \in Auditing!Save(trail) : Seen(v)}

Sights == \A r \in Requests : \A v \in saving[r] : v.sees => Seen(v)

\* Two saves get in each other's way.
Meet(v, w) ==
  \/ v.phase = "after" /\ w.phase = "after" /\ w.sees
  \/ trail.memory = "process" /\ w.at = v.at

Apart ==
  \A q, r \in Requests : q # r =>
    \A v \in saving[r], w \in saving[q] : v.sees => ~Meet(v, w)

AllSighted == \A r \in Requests : \A v \in saving[r] : v.phase = "after" => v.sees

Settled == \A r \in Requests : \A v \in saving[r] : v.phase # "after"

\* What calls for an entry, whatever a dictionary says.
Plain(v) ==
  \/ v.created /\ trail.creation
  \/ ~v.created /\ v.to \in trail.loud /\ v.before # v.to

Told ==
  /\ Settled /\ status \in Auditing!Owed => told = status
  /\ \A r \in Requests : \A v \in saving[r] :
       v.phase = "after" /\ v.to \in Auditing!Owed /\ ~Plain(v) => told = v.to

Sound == trail.written /\ ~missed /\ AllSighted => Told

TrailIInv == TrailTyped /\ Sights /\ Apart /\ Sound

LEMMA TrailInit == Auditing!Init => TrailIInv
  BY DEF Auditing!Init, TrailIInv, TrailTyped, Sights, Apart, Sound, Told, AllSighted,
         Settled, Auditing!Known,
         Auditing!None, Auditing!Gone, Auditing!Owed, Auditing!Save, TableTyped

LEMMA TrailKind ==
    ASSUME Auditing!TrailsAssumption, TrailTyped
    PROVE  /\ trail.memory \in Memories
           /\ trail.initial \subseteq trail.statuses
           /\ trail.loud \subseteq trail.statuses
           /\ Auditing!None \notin trail.statuses /\ Auditing!Gone \notin trail.statuses
           /\ Auditing!None # Auditing!Gone
           /\ trail.creation \/ trail.initial \cap trail.loud = {}
  BY DEF Auditing!TrailsAssumption, Auditing!Memories, Memories, TrailTyped,
         Auditing!None, Auditing!Gone

\* The same save, which may have missed something since.
Same(w, v) ==
  /\ w.to = v.to /\ w.before = v.before /\ w.at = v.at
  /\ w.phase = v.phase /\ w.created = v.created

LEMMA BlindedSave ==
    ASSUME TrailTyped, NEW places, NEW r \in Requests, NEW v \in saving[r],
           NEW w, w = [v EXCEPT !.sees = v.sees /\ v.at \notin places]
    PROVE  /\ w \in Auditing!Save(trail) /\ Same(w, v)
           /\ w.sees <=> v.sees /\ v.at \notin places
  <1>1. v \in Auditing!Save(trail)
    BY DEF TrailTyped
  <1>2. QED
    BY <1>1 DEF Auditing!Save, Same

\* The saves after what happened in these places, or after nothing.
Follows(base, places) == (base = saving /\ places = {}) \/ base = Auditing!Blinded(places)

LEMMA BlindedFacts ==
    ASSUME TrailTyped, NEW places, NEW base,
           Follows(base, places)
    PROVE  /\ base = [r \in Requests |-> base[r]]
           /\ \A r \in Requests : \A w \in base[r] :
                /\ w \in Auditing!Save(trail)
                /\ \E v \in saving[r] : Same(w, v) /\
                     (w.sees => v.sees /\ v.at \notin places)
           /\ \A r \in Requests : \A v \in saving[r] : \E w \in base[r] : Same(w, v)
           /\ \A r \in Requests : \A v, w \in base[r] : v = w
  <1>1. CASE base = saving /\ places = {}
    BY <1>1 DEF TrailTyped, Same
  <1>2. CASE base = Auditing!Blinded(places)
    <2> DEFINE blind(v) == [v EXCEPT !.sees = v.sees /\ v.at \notin places]
    <2>1. base = [r \in Requests |-> {blind(v) : v \in saving[r]}]
      BY <1>2, Zenon DEF Auditing!Blinded
    <2>2. \A r \in Requests : \A v \in saving[r] :
            /\ blind(v) \in Auditing!Save(trail) /\ Same(blind(v), v)
            /\ blind(v).sees <=> v.sees /\ v.at \notin places
      BY BlindedSave
    <2>3. \A r \in Requests : \A v, w \in saving[r] : v = w
      BY DEF TrailTyped
    <2> HIDE DEF blind
    <2>4. QED
      BY <2>1, <2>2, <2>3
  <1>3. QED
    BY <1>1, <1>2 DEF Follows

\* The other saves know what they knew.
TrailKeeps(r, places) ==
  \A q \in Requests \ {r} : \A v \in saving[q], w \in Auditing!Save(trail) :
    v.sees /\ v.at \notin places /\ Seen(v) /\ Same(w, v) => w \in Knowing'

\* Those of r get in nobody's way.
TrailFits(r, s, places) ==
  \A q \in Requests \ {r} : \A v \in s, w \in saving[q] :
    /\ trail.memory = "process" /\ w.at = v.at => ~v.sees /\ (~w.sees \/ w.at \in places)
    /\ v.phase = "after" /\ w.phase = "after" => ~v.sees \/ ~w.sees \/ w.at \in places

\* A step of one request.
LEMMA TrailStep ==
    ASSUME TrailIInv, NEW r \in Requests, NEW places, NEW base,
           NEW s \in SUBSET Auditing!Save(trail),
           Follows(base, places),
           saving' = [base EXCEPT ![r] = s],
           \A v, w \in s : v = w,
           trail' = trail, status' \in Auditing!Known(trail), status' # Auditing!None,
           TableTyped',
           \A v \in s : v.sees => v \in Knowing',
           TrailKeeps(r, places), TrailFits(r, s, places)
    PROVE  TrailTyped' /\ Sights' /\ Apart'
  <1>1. /\ base = [q \in Requests |-> base[q]]
        /\ \A q \in Requests : \A w \in base[q] :
             /\ w \in Auditing!Save(trail)
             /\ \E v \in saving[q] : Same(w, v) /\
                  (w.sees => v.sees /\ v.at \notin places)
        /\ \A q \in Requests : \A v, w \in base[q] : v = w
    BY BlindedFacts DEF TrailIInv
  <1>2. /\ \A q \in Requests \ {r} : saving'[q] = base[q]
        /\ saving'[r] = s
        /\ saving' = [q \in Requests |-> saving'[q]]
    BY <1>1
  <1>3. TrailTyped'
    <2>1. saving' \in [Requests -> SUBSET Auditing!Save(trail)]
      BY <1>1, <1>2
    <2>2. \A q \in Requests : \A v, w \in saving'[q] : v = w
      BY <1>1, <1>2
    <2>3. trail' \in AuditTrails /\ status' \in Auditing!Known(trail') /\
            saving' \in [Requests -> SUBSET Auditing!Save(trail')]
      BY <2>1 DEF TrailIInv, TrailTyped
    <2>4. QED
      BY <2>2, <2>3 DEF TrailTyped, Auditing!None
  <1>4. ASSUME NEW q \in Requests, NEW w \in saving'[q], w.sees PROVE Seen(w)'
    <2>1. CASE q = r
      BY <1>2, <1>4, <2>1 DEF Knowing
    <2>2. CASE q # r
      <3>1. w \in Auditing!Save(trail)
        BY <1>1, <1>2, <1>4, <2>2
      <3>2. PICK v \in saving[q] : Same(w, v) /\ v.sees /\ v.at \notin places
        BY <1>1, <1>2, <1>4, <2>2
      <3>3. Seen(v)
        BY <3>2 DEF TrailIInv, Sights
      <3>4. QED
        BY <2>2, <3>1, <3>2, <3>3 DEF Knowing, TrailKeeps
    <2>3. QED
      BY <2>1, <2>2
  <1>5. ASSUME NEW p \in Requests, NEW q \in Requests, p # q,
               NEW v \in saving'[p], NEW w \in saving'[q], v.sees
        PROVE  ~Meet(v, w)'
    <2>1. CASE p = r
      <3>1. v \in s
        BY <1>2, <2>1
      <3>2. PICK u \in saving[q] : Same(w, u) /\ (w.sees => u.sees /\ u.at \notin places)
        BY <1>1, <1>2, <1>5, <2>1
      <3>3. QED
        BY <1>5, <2>1, <3>1, <3>2 DEF Meet, Same, TrailFits
    <2>2. CASE q = r
      <3>1. w \in s
        BY <1>2, <2>2
      <3>2. PICK u \in saving[p] : Same(v, u) /\ (v.sees => u.sees /\ u.at \notin places)
        BY <1>1, <1>2, <1>5, <2>2
      <3>3. QED
        BY <1>5, <2>2, <3>1, <3>2 DEF Meet, Same, TrailFits
    <2>3. CASE p # r /\ q # r
      <3>1. PICK u \in saving[p] : Same(v, u) /\ (v.sees => u.sees /\ u.at \notin places)
        BY <1>1, <1>2, <2>3
      <3>2. PICK t \in saving[q] : Same(w, t) /\ (w.sees => t.sees /\ t.at \notin places)
        BY <1>1, <1>2, <2>3
      <3>3. ~Meet(u, t)
        BY <1>5, <3>1, <3>2 DEF TrailIInv, Apart
      <3>4. QED
        BY <3>1, <3>2, <3>3 DEF Meet, Same
    <2>4. QED
      BY <2>1, <2>2, <2>3
  <1>6. QED
    BY <1>3, <1>4, <1>5 DEF Sights, Apart

\* A dictionary out of date does not keep a save that has missed nothing from
\* telling what it should.
LEMMA PlainIsTold ==
    ASSUME Auditing!TrailsAssumption, TrailIInv, NEW r \in Requests, NEW v \in saving[r],
           v.sees, v.phase = "after", Plain(v)
    PROVE  Auditing!Tells(v)
  <1>1. /\ trail.memory \in Memories /\ Auditing!None \notin trail.statuses
        /\ v.to \in trail.statuses
        /\ Seen(v)
    BY TrailKind DEF TrailIInv, TrailTyped, Sights, Auditing!Save
  <1>2. CASE v.created
    BY <1>2 DEF Plain, Auditing!Tells
  <1>3. CASE ~v.created
    <2>1. Auditing!Differs(v)
      BY <1>1, <1>3 DEF Plain, Seen, Auditing!Differs, Memories
    <2>2. QED
      BY <1>3, <2>1 DEF Plain, Auditing!Tells
  <1>4. QED
    BY <1>2, <1>3

LEMMA TrailInsert ==
    ASSUME Auditing!TrailsAssumption, TrailIInv, NEW r \in Requests, NEW p \in Processes,
           NEW to \in trail.statuses, Auditing!Insert(r, p, to)
    PROVE  TrailIInv'
  <1> DEFINE u == [to |-> to, before |-> Auditing!None, at |-> p, phase |-> "after",
                   created |-> TRUE, sees |-> TRUE]
  <1>1. /\ u.to = to /\ u.before = Auditing!None /\ u.phase = "after" /\ u.created
        /\ u.sees
        /\ u \in Auditing!Save(trail)
    BY DEF Auditing!Save, Auditing!Known
  <1>2. /\ \A q \in Requests : saving[q] = {}
        /\ saving' = [saving EXCEPT ![r] = {u}] /\ status' = to /\ to \in trail.initial
        /\ UNCHANGED <<trail, told, remembered, missed>>
    BY DEF Auditing!Insert, TrailIInv, TrailTyped
  <1>3. to \in Auditing!Known(trail) /\ to # Auditing!None /\ to # Auditing!Gone
    BY TrailKind DEF TrailIInv, Auditing!Known
  <1> HIDE DEF u
  <1>4. PICK v \in Auditing!Save(trail) : v = u
    BY <1>1
  <1>5. v \in Knowing'
    BY <1>1, <1>2, <1>4 DEF Seen, Knowing
  <1>6. TrailTyped' /\ Sights' /\ Apart'
    <2>1. /\ {v} \in SUBSET Auditing!Save(trail) /\ saving' = [saving EXCEPT ![r] = {v}]
          /\ \A x, y \in {v} : x = y
          /\ \A x \in {v} : x.sees => x \in Knowing'
          /\ \A q \in Requests \ {r} : saving[q] = {}
      BY <1>2, <1>4, <1>5
    <2>2. TableTyped'
      BY <1>2 DEF TrailIInv, TrailTyped, TableTyped
    <2>3. status' \in Auditing!Known(trail) /\ status' # Auditing!None /\ trail' = trail
      BY <1>2, <1>3
    <2>4. PICK places, base : Follows(base, places) /\ base = saving /\ places = {}
      BY DEF Follows
    <2>5. PICK s \in SUBSET Auditing!Save(trail) : s = {v}
      BY <2>1
    <2>6. /\ saving' = [base EXCEPT ![r] = s] /\ \A x, y \in s : x = y
          /\ \A x \in s : x.sees => x \in Knowing'
      BY <2>1, <2>4, <2>5
    <2>8. TrailKeeps(r, places) /\ TrailFits(r, s, places)
      BY <2>1 DEF TrailKeeps, TrailFits
    <2>7. QED
      BY <2>2, <2>3, <2>4, <2>6, <2>8, TrailStep
  <1>7. Sound'
    <2>1. saving'[r] = {v} /\ \A q \in Requests \ {r} : saving'[q] = {}
      BY <1>2, <1>4 DEF TrailIInv, TrailTyped
    <2>2. v.to \notin Auditing!Owed \/ trail.creation
      BY <1>1, <1>2, <1>3, <1>4, TrailKind DEF TrailIInv, Auditing!Owed
    <2>3. ~Settled'
      BY <1>1, <1>4, <2>1 DEF Settled
    <2>4. trail.creation => Plain(v)'
      BY <1>1, <1>2, <1>4 DEF Plain
    <2>5. Auditing!Owed' = Auditing!Owed /\ trail' = trail
      BY <1>2 DEF Auditing!Owed
    <2>6. QED
      BY <2>1, <2>2, <2>3, <2>4, <2>5 DEF Sound, Told
  <1>8. QED
    BY <1>6, <1>7 DEF TrailIInv

LEMMA TrailRemember ==
    ASSUME Auditing!TrailsAssumption, TrailIInv, NEW r \in Requests, NEW p \in Processes,
           NEW to \in trail.statuses, Auditing!Remember(r, p, to)
    PROVE  TrailIInv'
  <1> DEFINE clear == /\ \A q \in Auditing!Saving : \A v \in saving[q] :
                            ~(trail.memory = "process" /\ v.at = p)
                      /\ trail.memory = "cache" =>
                           remembered[p] \in {Auditing!None, status}
             there == IF trail.memory = "process" THEN {p} ELSE {}
             u == [to |-> to, before |-> status, at |-> p, phase |-> "before",
                   created |-> FALSE, sees |-> clear]
  <1>1. /\ u.to = to /\ u.before = status /\ u.phase = "before" /\ ~u.created /\ u.at = p
        /\ u.sees <=> clear
        /\ u \in Auditing!Save(trail)
    BY DEF Auditing!Save, TrailIInv, TrailTyped
  <1>2. /\ status \notin {Auditing!None, Auditing!Gone} /\ saving[r] = {}
        /\ saving' = [Auditing!Blinded(there) EXCEPT ![r] = {u}]
        /\ remembered' = IF trail.memory = "process"
                         THEN [remembered EXCEPT ![p] = status] ELSE remembered
        /\ UNCHANGED <<trail, status, told, missed>>
    BY DEF Auditing!Remember
  <1>3. clear => /\ trail.memory = "process" =>
                      \A q \in Requests : \A w \in saving[q] : w.at # p
                 /\ trail.memory = "cache" => remembered[p] \in {Auditing!None, status}
    BY DEF Auditing!Saving
  <1>4. status \in trail.statuses
    BY <1>2 DEF TrailIInv, TrailTyped, Auditing!Known
  <1>5. PICK places : places = there
    OBVIOUS
  <1>11. /\ trail.memory = "process" => places = {p}
         /\ trail.memory # "process" => places = {}
    BY <1>5
  <1> HIDE DEF u, clear, there
  <1>6. PICK base : Follows(base, places) /\ saving' = [base EXCEPT ![r] = {u}]
    BY <1>2, <1>5 DEF Follows
  <1>7. PICK v \in Auditing!Save(trail) : v = u
    BY <1>1
  <1>8. TrailTyped' /\ Sights' /\ Apart'
    <2>1. /\ {v} \in SUBSET Auditing!Save(trail) /\ saving' = [base EXCEPT ![r] = {v}]
          /\ \A x, y \in {v} : x = y
      BY <1>6, <1>7
    <2>2. TableTyped'
      BY <1>2 DEF TrailIInv, TrailTyped, TableTyped
    <2>3. status' \in Auditing!Known(trail) /\ status' # Auditing!None /\ trail' = trail
      BY <1>2 DEF TrailIInv, TrailTyped
    <2>4. v.sees => v \in Knowing'
      BY <1>1, <1>2, <1>3, <1>4, <1>7 DEF Seen, Knowing, TrailIInv, TrailTyped, TableTyped
    <2>5. \A q \in Requests \ {r} : \A x \in saving[q], w \in Auditing!Save(trail) :
            x.sees /\ x.at \notin places /\ Seen(x) /\ Same(w, x) => w \in Knowing'
      <3>1. SUFFICES ASSUME NEW q \in Requests \ {r}, NEW x \in saving[q],
                            NEW w \in Auditing!Save(trail),
                            x.sees, x.at \notin places, Seen(x), Same(w, x)
                     PROVE  w \in Knowing'
        OBVIOUS
      <3>2. remembered'[w.at] = remembered[w.at] /\ status' = status /\ trail' = trail
        BY <1>2, <1>11, <3>1 DEF Same, TrailIInv, TrailTyped, TableTyped
      <3>3. Seen(w)'
        BY <3>1, <3>2 DEF Seen, Same
      <3>4. QED
        BY <3>2, <3>3 DEF Knowing
    <2>6. /\ \A q \in Requests \ {r} : \A w \in saving[q] :
               v.sees => /\ ~(trail.memory = "process" /\ w.at = v.at)
                         /\ v.phase # "after"
          /\ trail.memory = "process" =>
               \A q \in Requests \ {r} : \A w \in saving[q] : w.at = v.at =>
                 w.at \in places
      BY <1>1, <1>3, <1>11, <1>7
    <2>8. PICK s \in SUBSET Auditing!Save(trail) : s = {v}
      BY <2>1
    <2>9. /\ saving' = [base EXCEPT ![r] = s] /\ \A x, y \in s : x = y
          /\ \A x \in s : x.sees => x \in Knowing'
      BY <2>1, <2>4, <2>8
    <2>10. TrailFits(r, s, places) /\ TrailKeeps(r, places)
      BY <2>5, <2>6, <2>8 DEF TrailFits, TrailKeeps
    <2>7. QED
      BY <1>6, <2>2, <2>3, <2>9, <2>10, TrailStep
  <1>9. Sound'
    <2>1. /\ base = [q \in Requests |-> base[q]]
          /\ \A q \in Requests : \A w \in base[q] : \E x \in saving[q] : Same(w, x)
          /\ \A q \in Requests : \A x \in saving[q] : \E w \in base[q] :
               Same(w, x) /\ (w.sees => x.sees)
      <3>1. /\ base = [q \in Requests |-> base[q]]
            /\ \A q \in Requests : \A w \in base[q] :
                 \E x \in saving[q] : Same(w, x) /\ (w.sees => x.sees)
            /\ \A q \in Requests : \A x \in saving[q] : \E w \in base[q] : Same(w, x)
        BY <1>6, BlindedFacts DEF TrailIInv
      <3>2. \A q \in Requests : \A x, y \in saving[q] : x = y
        BY DEF TrailIInv, TrailTyped
      <3>3. QED
        BY <3>1, <3>2
    <2>2. saving'[r] = {v} /\ \A q \in Requests \ {r} : saving'[q] = base[q]
      BY <1>6, <1>7, <2>1
    <2>3. AllSighted' => AllSighted
      BY <1>2, <2>1, <2>2 DEF AllSighted, Same
    <2>4. Settled' => Settled
      BY <1>2, <2>1, <2>2 DEF Settled, Same
    <2>5. Auditing!Owed' = Auditing!Owed /\ trail' = trail /\ status' = status /\
            told' = told /\ missed' = missed
      BY <1>2 DEF Auditing!Owed
    <2>6. ASSUME Told PROVE Told'
      <3>1. ASSUME NEW q \in Requests, NEW w \in saving'[q], w.phase = "after",
                   w.to \in Auditing!Owed,
                   ~Plain(w)'
            PROVE  told = w.to
        <4>1. q # r
          BY <1>1, <1>7, <2>2, <3>1
        <4>2. PICK x \in saving[q] : Same(w, x)
          BY <2>1, <2>2, <4>1
        <4>3. ~Plain(x)
          BY <2>5, <3>1, <4>2 DEF Plain, Same
        <4>4. QED
          BY <2>6, <3>1, <4>2, <4>3 DEF Told, Same
      <3>2. QED
        BY <2>4, <2>5, <2>6, <3>1 DEF Told
    <2>7. QED
      BY <2>3, <2>5, <2>6 DEF Sound, TrailIInv
  <1>10. QED
    BY <1>8, <1>9 DEF TrailIInv

LEMMA TrailStore ==
    ASSUME Auditing!TrailsAssumption, TrailIInv, NEW r \in Requests, Auditing!Store(r)
    PROVE  TrailIInv'
  <1>1. PICK u \in saving[r] :
          /\ u.phase = "before" /\ status' = u.to
          /\ saving' = [Auditing!Blinded(Processes) EXCEPT ![r] =
               {[u EXCEPT !.phase = "after", !.created = (status = Auditing!Gone)]}]
          /\ UNCHANGED <<trail, told, remembered, missed>>
    BY DEF Auditing!Store
  <1>2. /\ u \in Auditing!Save(trail) /\ \A x \in saving[r] : x = u
        /\ u.to \in trail.statuses /\ u.to \in Auditing!Known(trail)
        /\ u.to # Auditing!None /\ u.to # Auditing!Gone
    BY <1>1, TrailKind DEF TrailIInv, TrailTyped, Auditing!Save, Auditing!Known
  <1> DEFINE next == [u EXCEPT !.phase = "after", !.created = (status = Auditing!Gone)]
  <1>3. /\ next \in Auditing!Save(trail) /\ next.phase = "after" /\
             (next.created <=> status = Auditing!Gone)
        /\ next.to = u.to /\ next.before = u.before /\ next.at = u.at /\
             (next.sees <=> u.sees)
    BY <1>2 DEF Auditing!Save
  <1>4. saving' = [Auditing!Blinded(Processes) EXCEPT ![r] = {next}]
    BY <1>1
  <1> HIDE DEF next
  <1>5. PICK v \in Auditing!Save(trail) : v = next
    BY <1>3
  <1>6. PICK places, base : /\ Follows(base, places) /\ places = Processes
                            /\ saving' = [base EXCEPT ![r] = {v}]
    BY <1>4, <1>5 DEF Follows
  <1>7. u.sees => u.before = status /\ ~u.created /\ Seen(u)
    BY <1>1 DEF TrailIInv, Sights, Seen
  <1>8. u.sees => u.before \in trail.statuses /\ ~v.created
    BY <1>3, <1>5, <1>7, TrailKind DEF TrailIInv, Seen
  <1>9. \A q \in Requests : \A w \in saving[q] : w.at \in Processes
    BY DEF TrailIInv, TrailTyped, Auditing!Save
  <1>10. TrailTyped' /\ Sights' /\ Apart'
    <2>1. PICK s \in SUBSET Auditing!Save(trail) : s = {v}
      BY <1>5
    <2>2. v.sees => v \in Knowing'
      BY <1>1, <1>3, <1>5, <1>7, <1>8 DEF Seen, Knowing
    <2>3. TableTyped' /\ status' \in Auditing!Known(trail) /\ status' # Auditing!None /\
            trail' = trail
      BY <1>1, <1>2 DEF TrailIInv, TrailTyped, TableTyped
    <2>4. /\ saving' = [base EXCEPT ![r] = s] /\ \A x, y \in s : x = y
          /\ \A x \in s : x.sees => x \in Knowing'
      BY <1>6, <2>1, <2>2
    <2>5. TrailKeeps(r, places)
      BY <1>6, <1>9 DEF TrailKeeps
    <2>6. ASSUME NEW q \in Requests \ {r}, NEW w \in saving[q],
                 trail.memory = "process", w.at = u.at
          PROVE  ~u.sees
      BY <1>1, <2>6 DEF TrailIInv, Apart, Meet
    <2>7. TrailFits(r, s, places)
      BY <1>3, <1>5, <1>6, <1>9, <2>1, <2>6 DEF TrailFits
    <2>8. QED
      BY <1>6, <2>3, <2>4, <2>5, <2>7, TrailStep
  <1>11. Sound'
    <2>1. SUFFICES ASSUME trail.written, ~missed, AllSighted' PROVE Told'
      BY <1>1 DEF Sound
    <2>2. /\ base = [q \in Requests |-> base[q]]
          /\ \A q \in Requests : \A w \in base[q] : w.sees => w.at \notin Processes
          /\ \A q \in Requests : \A x \in saving[q] : \E w \in base[q] : Same(w, x)
      <3>1. /\ base = [q \in Requests |-> base[q]]
            /\ \A q \in Requests : \A w \in base[q] :
                 \E x \in saving[q] : Same(w, x) /\
                   (w.sees => x.sees /\ x.at \notin places)
            /\ \A q \in Requests : \A x \in saving[q] : \E w \in base[q] : Same(w, x)
        BY <1>6, BlindedFacts DEF TrailIInv
      <3>2. QED
        BY <1>6, <3>1 DEF Same
    <2>3. saving'[r] = {v} /\ \A q \in Requests \ {r} : saving'[q] = base[q]
      BY <1>6, <2>2
    <2>4. v.sees
      BY <1>3, <1>5, <2>1, <2>3 DEF AllSighted
    <2>5. ASSUME NEW q \in Requests \ {r}, NEW x \in saving[q] PROVE x.phase # "after"
      <3>1. PICK w \in base[q] : Same(w, x)
        BY <2>2
      <3>2. ~w.sees
        BY <1>9, <2>2, <3>1 DEF Same
      <3>3. w.phase # "after"
        BY <2>1, <2>3, <3>2 DEF AllSighted
      <3>4. QED
        BY <3>1, <3>3 DEF Same
    <2>6. Settled /\ AllSighted
      BY <1>1, <1>2, <2>5 DEF Settled, AllSighted
    <2>7. status \in Auditing!Owed => told = status
      BY <2>1, <2>6 DEF TrailIInv, Sound, Told
    <2>8. v.to \in Auditing!Owed /\ ~Plain(v) => told = v.to
      BY <1>2, <1>3, <1>5, <1>7, <1>8, <2>4, <2>7 DEF Auditing!Owed, Plain
    <2>9. ASSUME NEW q \in Requests, NEW w \in saving'[q], w.phase = "after" PROVE w = v
      <3>1. ASSUME q # r PROVE FALSE
        <4>1. w \in base[q]
          BY <2>3, <2>9, <3>1
        <4>2. w.sees
          BY <2>1, <2>9 DEF AllSighted
        <4>3. w.at \in Processes
          BY <1>9, <1>6, <4>1, BlindedFacts DEF TrailIInv, Auditing!Save
        <4>4. QED
          BY <2>2, <4>1, <4>2, <4>3
      <3>2. QED
        BY <2>3, <3>1
    <2>10. ~Settled' /\ Auditing!Owed' = Auditing!Owed /\ told' = told
      BY <1>1, <1>3, <1>5, <2>3 DEF Settled, Auditing!Owed
    <2>11. Plain(v) => Plain(v)'
      BY <1>1 DEF Plain
    <2>12. QED
      BY <2>8, <2>9, <2>10, <2>11 DEF Told
  <1>12. QED
    BY <1>10, <1>11 DEF TrailIInv

LEMMA TrailDie ==
    ASSUME Auditing!TrailsAssumption, TrailIInv, NEW r \in Requests, Auditing!Die(r)
    PROVE  TrailIInv'
  <1>1. PICK u \in saving[r] : TRUE
    BY DEF Auditing!Die
  <1>2. /\ saving' = [saving EXCEPT ![r] = {}]
        /\ UNCHANGED <<trail, status, told, remembered>>
        /\ ~missed' => ~missed /\ u.phase # "after"
    BY DEF Auditing!Die
  <1>3. /\ saving'[r] = {} /\ \A q \in Requests \ {r} : saving'[q] = saving[q]
        /\ \A x \in saving[r] : x = u
    BY <1>2 DEF TrailIInv, TrailTyped
  <1>4. TrailTyped' /\ Sights' /\ Apart'
    <2>1. PICK places, base : Follows(base, places) /\ base = saving /\ places = {}
      BY DEF Follows
    <2>2. PICK s \in SUBSET Auditing!Save(trail) : s = {}
      OBVIOUS
    <2>3. /\ saving' = [base EXCEPT ![r] = s] /\ \A x, y \in s : x = y
          /\ \A x \in s : x.sees => x \in Knowing'
      BY <1>2, <2>1, <2>2
    <2>4. TableTyped' /\ status' \in Auditing!Known(trail) /\ status' # Auditing!None /\
            trail' = trail
      BY <1>1, <1>2 DEF TrailIInv, TrailTyped, TableTyped
    <2>5. TrailKeeps(r, places)
      BY <1>2 DEF TrailKeeps, Knowing, Seen, Same
    <2>6. TrailFits(r, s, places)
      BY <2>2 DEF TrailFits
    <2>7. QED
      BY <2>1, <2>3, <2>4, <2>5, <2>6, TrailStep
  <1>5. Sound'
    <2>1. SUFFICES ASSUME trail.written, ~missed, u.phase # "after",
                          AllSighted' PROVE Told'
      BY <1>2 DEF Sound
    <2>2. AllSighted /\ (Settled' => Settled)
      BY <1>3, <2>1 DEF AllSighted, Settled
    <2>3. Told
      BY <2>1, <2>2 DEF TrailIInv, Sound
    <2>4. Auditing!Owed' = Auditing!Owed /\ told' = told /\ status' = status /\
            trail' = trail
      BY <1>2 DEF Auditing!Owed
    <2>5. ASSUME NEW q \in Requests, NEW w \in saving'[q], w.phase = "after",
                 w.to \in Auditing!Owed,
                 ~Plain(w)'
          PROVE  told = w.to
      <3>1. q # r /\ w \in saving[q]
        BY <1>3, <2>5
      <3>2. ~Plain(w)
        BY <2>4, <2>5 DEF Plain
      <3>3. QED
        BY <2>3, <2>5, <3>1, <3>2 DEF Told
    <2>6. QED
      BY <2>2, <2>3, <2>4, <2>5 DEF Told
  <1>6. QED
    BY <1>4, <1>5 DEF TrailIInv

LEMMA TrailRecord ==
    ASSUME Auditing!TrailsAssumption, TrailIInv, NEW r \in Requests, Auditing!Record(r)
    PROVE  TrailIInv'
  <1> DEFINE there(u) == IF trail.memory = "cache" /\ ~u.sees THEN {u.at} ELSE {}
  <1>1. PICK u \in saving[r] :
          /\ u.phase = "after"
          /\ told' = IF trail.written /\ Auditing!Tells(u) THEN u.to ELSE told
          /\ missed' = (~u.sees \/ (missed /\ ~Auditing!Tells(u)))
          /\ remembered' = CASE trail.memory =
               "process" -> [remembered EXCEPT ![u.at] = Auditing!None]
                             [] trail.memory =
                               "cache" -> [remembered EXCEPT ![u.at] = u.to]
                             [] OTHER -> remembered
          /\ saving' = [Auditing!Blinded(there(u)) EXCEPT ![r] = {}]
    BY DEF Auditing!Record
  <1>2. trail' = trail /\ status' = status /\ Auditing!Owed' = Auditing!Owed
    BY DEF Auditing!Record, Auditing!Owed
  <1>3. /\ u \in Auditing!Save(trail) /\ \A x \in saving[r] : x = u
        /\ status # Auditing!None /\ u.to # Auditing!None
        /\ u.sees => Seen(u) /\ u.to = status
    BY <1>1, TrailKind
       DEF TrailIInv, TrailTyped, Sights, Seen, Auditing!Save, Auditing!Known
  <1>4. PICK places : places = there(u)
    OBVIOUS
  <1>5. /\ trail.memory = "cache" /\ ~u.sees => places = {u.at}
        /\ ~(trail.memory = "cache" /\ ~u.sees) => places = {}
    BY <1>4
  <1> HIDE DEF there
  <1>6. PICK base : Follows(base, places) /\ saving' = [base EXCEPT ![r] = {}]
    BY <1>1, <1>4 DEF Follows
  <1>7. ASSUME NEW q \in Requests \ {r}, NEW x \in saving[q], x.sees PROVE ~Meet(x, u)
    BY <1>7 DEF TrailIInv, Apart
  <1>8. ASSUME NEW q \in Requests \ {r}, NEW x \in saving[q], u.sees PROVE ~Meet(u, x)
    BY <1>8 DEF TrailIInv, Apart
  <1>9. TrailTyped' /\ Sights' /\ Apart'
    <2>1. PICK s \in SUBSET Auditing!Save(trail) : s = {}
      OBVIOUS
    <2>2. /\ saving' = [base EXCEPT ![r] = s] /\ \A x, y \in s : x = y
          /\ \A x \in s : x.sees => x \in Knowing'
      BY <1>6, <2>1
    <2>3. TableTyped' /\ status' \in Auditing!Known(trail) /\ status' # Auditing!None /\
            trail' = trail
      BY <1>1, <1>2, <1>3 DEF TrailIInv, TrailTyped, TableTyped
    <2>4. TrailFits(r, s, places)
      BY <2>1 DEF TrailFits
    <2>5. TrailKeeps(r, places)
      <3>1. SUFFICES ASSUME NEW q \in Requests \ {r}, NEW x \in saving[q],
                            NEW w \in Auditing!Save(trail),
                            x.sees, x.at \notin places, Seen(x), Same(w, x)
                     PROVE  w \in Knowing'
        BY DEF TrailKeeps
      <3>2. x \in Auditing!Save(trail) /\ x.at \in Processes
        BY DEF TrailIInv, TrailTyped, Auditing!Save
      <3>3. ~Meet(x, u)
        BY <1>7, <3>1
      <3>4. trail.memory = "process" => remembered'[x.at] = remembered[x.at]
        BY <1>1, <3>2, <3>3 DEF Meet, TrailIInv, TrailTyped, TableTyped
      <3>5. trail.memory = "cache" => remembered'[x.at] \in {remembered[x.at], status}
        BY <1>1, <1>3, <1>5, <3>1, <3>2 DEF TrailIInv, TrailTyped, TableTyped
      <3>6. trail.memory = "cache" /\ remembered'[x.at] # remembered[x.at] =>
              x.phase = "before"
        <4>1. trail.memory = "cache" /\ remembered'[x.at] # remembered[x.at] => u.sees
          BY <1>1, <1>5, <3>1, <3>2 DEF TrailIInv, TrailTyped, TableTyped
        <4>2. x.phase \in {"before", "after"}
          BY <3>2 DEF Auditing!Save
        <4>3. QED
          BY <1>1, <3>3, <4>1, <4>2 DEF Meet
      <3>7. Seen(w)'
        BY <1>2, <3>1, <3>4, <3>5, <3>6 DEF Seen, Same
      <3>8. QED
        BY <1>2, <3>7 DEF Knowing
    <2>6. QED
      BY <1>6, <2>2, <2>3, <2>4, <2>5, TrailStep
  <1>10. Sound'
    <2>1. SUFFICES ASSUME trail.written, ~missed', AllSighted' PROVE Told'
      BY <1>2 DEF Sound
    <2>2. u.sees /\ (~missed \/ Auditing!Tells(u))
      BY <1>1, <2>1
    <2>3. /\ \A q \in Requests \ {r} : \A w \in saving'[q] :
               \E x \in saving[q] : Same(w, x) /\ (w.sees => x.sees)
          /\ \A q \in Requests \ {r} : \A x \in saving[q] : \E w \in saving'[q] :
               Same(w, x) /\ (w.sees => x.sees)
          /\ saving'[r] = {}
      <3>1. /\ base = [q \in Requests |-> base[q]]
            /\ \A q \in Requests : \A w \in base[q] :
                 \E x \in saving[q] : Same(w, x) /\ (w.sees => x.sees)
            /\ \A q \in Requests : \A x \in saving[q] : \E w \in base[q] : Same(w, x)
        BY <1>6, BlindedFacts DEF TrailIInv
      <3>2. \A q \in Requests : \A x, y \in saving[q] : x = y
        BY DEF TrailIInv, TrailTyped
      <3>3. \A q \in Requests : \A x \in saving[q] : \E w \in base[q] :
              Same(w, x) /\ (w.sees => x.sees)
        BY <3>1, <3>2
      <3>4. saving'[r] = {} /\ \A q \in Requests \ {r} : saving'[q] = base[q]
        BY <1>6, <3>1
      <3>5. QED
        BY <3>1, <3>3, <3>4
    <2>4. ASSUME NEW q \in Requests \ {r}, NEW x \in saving[q] PROVE x.phase # "after"
      <3>1. PICK w \in saving'[q] : Same(w, x) /\ (w.sees => x.sees)
        BY <2>3
      <3>2. x.phase = "after" => x.sees
        BY <2>1, <3>1 DEF AllSighted, Same
      <3>3. ~Meet(u, x)
        BY <1>8, <2>2
      <3>4. QED
        BY <1>1, <3>2, <3>3 DEF Meet
    <2>5. AllSighted
      BY <1>3, <2>2, <2>4 DEF AllSighted
    <2>6. ASSUME NEW q \in Requests, NEW w \in saving'[q] PROVE w.phase # "after"
      BY <2>3, <2>4 DEF Same
    <2>7. ASSUME status \in Auditing!Owed PROVE told' = status
      <3>1. CASE Auditing!Tells(u)
        BY <1>1, <1>3, <2>1, <2>2, <3>1
      <3>2. CASE ~Auditing!Tells(u)
        <4>1. Told
          BY <2>1, <2>2, <2>5, <3>2 DEF TrailIInv, Sound
        <4>2. ~Plain(u)
          BY <1>1, <2>2, <3>2, PlainIsTold
        <4>3. told = u.to
          BY <1>1, <1>3, <2>2, <2>7, <4>1, <4>2 DEF Told
        <4>4. QED
          BY <1>1, <1>3, <2>2, <3>2, <4>3
      <3>3. QED
        BY <3>1, <3>2
    <2>8. QED
      BY <1>2, <2>6, <2>7 DEF Told
  <1>11. QED
    BY <1>9, <1>10 DEF TrailIInv

\* What is outside the handlers' hearing blinds every save.
LEMMA TrailChange ==
    ASSUME TrailIInv, saving' = Auditing!Blinded(Processes), trail' = trail,
           remembered' = remembered,
           status' \in Auditing!Known(trail), status' # Auditing!None
    PROVE  /\ TrailTyped' /\ Sights' /\ Apart'
           /\ AllSighted' => Settled'
  <1>1. PICK places, base : Follows(base, places) /\ base = saving' /\ places = Processes
    BY DEF Follows
  <1>2. /\ base = [r \in Requests |-> base[r]]
        /\ \A r \in Requests : \A w \in base[r] :
             /\ w \in Auditing!Save(trail)
             /\ \E v \in saving[r] : Same(w, v) /\
                  (w.sees => v.sees /\ v.at \notin places)
        /\ \A r \in Requests : \A v, w \in base[r] : v = w
    BY <1>1, BlindedFacts DEF TrailIInv
  <1>3. ASSUME NEW r \in Requests, NEW w \in saving'[r] PROVE ~w.sees
    <2>1. w \in Auditing!Save(trail) /\ \E v \in saving[r] : Same(w, v) /\
            (w.sees => v.at \notin places)
      BY <1>1, <1>2
    <2>2. QED
      BY <1>1, <2>1 DEF Same, Auditing!Save
  <1>4. TrailTyped'
    <2>1. saving' \in [Requests -> SUBSET Auditing!Save(trail)]
      BY <1>1, <1>2
    <2>2. \A r \in Requests : \A v, w \in saving'[r] : v = w
      BY <1>1, <1>2
    <2>3. TableTyped' /\ trail' \in AuditTrails /\ status' \in Auditing!Known(trail')
          /\ saving' \in [Requests -> SUBSET Auditing!Save(trail')]
      BY <2>1 DEF TrailIInv, TrailTyped, TableTyped
    <2>4. status' # Auditing!None'
      BY DEF Auditing!None
    <2>5. QED
      BY <2>2, <2>3, <2>4 DEF TrailTyped
  <1>5. QED
    BY <1>3, <1>4 DEF Sights, Apart, AllSighted, Settled

LEMMA TrailUpdate ==
    ASSUME Auditing!TrailsAssumption, TrailIInv, NEW to \in trail.statuses,
           Auditing!Update(to)
    PROVE  TrailIInv'
  <1>1. /\ saving' = Auditing!Blinded(Processes) /\ trail' = trail
        /\ remembered' = remembered
        /\ status' \in Auditing!Known(trail) /\ status' # Auditing!None /\ missed'
    BY TrailKind DEF Auditing!Update, TrailIInv, Auditing!Known
  <1>2. QED
    BY <1>1, TrailChange DEF TrailIInv, Sound

LEMMA TrailDelete ==
    ASSUME Auditing!TrailsAssumption, TrailIInv, Auditing!Delete PROVE TrailIInv'
  <1>1. /\ saving' = Auditing!Blinded(Processes) /\ trail' = trail
        /\ remembered' = remembered
        /\ status' \in Auditing!Known(trail) /\ status' # Auditing!None
        /\ status' = Auditing!Gone
    BY TrailKind DEF Auditing!Delete, TrailIInv, Auditing!Known
  <1>2. TrailTyped' /\ Sights' /\ Apart' /\ (AllSighted' => Settled')
    BY <1>1, TrailChange
  <1>3. Auditing!Gone \notin trail.loud
    BY TrailKind DEF TrailIInv
  <1>4. trail.written /\ status' \in Auditing!Owed' => told' = Auditing!Gone
    BY <1>1, <1>3 DEF Auditing!Delete, Auditing!Owed
  <1>5. Settled' /\ trail.written => Told'
    BY <1>1, <1>4 DEF Told, Settled
  <1>6. QED
    BY <1>1, <1>2, <1>5 DEF TrailIInv, Sound

LEMMA TrailSpecIInv == ASSUME Auditing!TrailsAssumption PROVE Auditing!Spec => []TrailIInv
  <1>1. TrailIInv /\ [Auditing!Next]_(Auditing!vars) => TrailIInv'
    <2>1. ASSUME TrailIInv, UNCHANGED Auditing!vars PROVE TrailIInv'
      BY <2>1
         DEF Auditing!vars, TrailIInv, TrailTyped, TableTyped, Sights, Seen, Apart, Meet,
           Sound,
                  AllSighted, Told, Settled, Auditing!Owed, Plain
    <2>2. ASSUME TrailIInv, Auditing!Next PROVE TrailIInv'
      BY <2>2, TrailInsert, TrailRemember, TrailStore, TrailRecord, TrailDie, TrailUpdate,
         TrailDelete DEF Auditing!Next
    <2>3. QED
      BY <2>1, <2>2
  <1>2. QED
    BY <1>1, TrailInit, PTL DEF Auditing!Spec

LEMMA TrailFollows ==
    ASSUME Auditing!TrailsAssumption
    PROVE  Auditing!Spec => []Auditing!TrailFollowsStatus
  <1>1. TrailIInv => Auditing!TrailFollowsStatus
    BY DEF TrailIInv, Sound, AllSighted, Told, Settled, Auditing!TrailFollowsStatus,
           Auditing!Saving
  <1>2. QED
    BY <1>1, TrailSpecIInv, PTL

----------------------------------------------------------------------------

SaveOrUndo ==
  [stage : {"loaded", "saved", "clear"}, mark : BOOLEAN,
   before : Deriving!Present \cup {"absent"}, to : Deriving!Present]
    \cup [stage : {"undoing"}, found : Nat]

RowsTyped ==
  /\ handler \in DerivingHandlers
  /\ source \in Deriving!Present \cup {"absent", "gone"}
  /\ derived \in Nat /\ reversed \in Nat
  /\ deriving \in [Requests -> SUBSET SaveOrUndo]

LatchTyped == marked \in BOOLEAN

\* As long as no requests have overlapped there is one at most.
Alone == ~crossed => \A q, r \in Requests : Deriving!Idle(q) \/ Deriving!Idle(r) \/ q = r

\* What a request has read is still so.
Current(v) ==
  /\ v.stage # "undoing" /\ "latch" \in handler.ways => (v.mark <=> marked)
  /\ v.stage = "clear" => /\ "looks" \in handler.ways => derived = 0
                          /\ "latch" \in handler.ways => ~v.mark
  /\ v.stage = "undoing" => v.found = Deriving!Found

Informed == ~crossed => \A r \in Requests : \A v \in deriving[r] : Current(v)

Single ==
  /\ "unique" \in handler.ways => derived <= 1
  /\ ~crossed /\ handler.ways # {} => derived <= 1
  /\ ~crossed /\ "latch" \in handler.ways /\ derived > 0 => marked

Undone == handler.undo # "none" =>
            IF handler.undo = "delete" THEN derived = 0 ELSE derived = reversed

Lifetime ==
  /\ source = "absent" => derived = 0 /\ ~marked /\ \A r \in Requests : Deriving!Idle(r)
  /\ source # "gone" => reversed = 0
  /\ source = "gone" /\ ~crossed => Undone /\ \A r \in Requests : Deriving!Idle(r)

DerivedIInv == RowsTyped /\ LatchTyped /\ Alone /\ Informed /\ Single /\ Lifetime

LEMMA DerivedInit == Deriving!Init => DerivedIInv
  <1>1. Deriving!Init => LatchTyped
    BY Zenon DEF Deriving!Init, LatchTyped
  <1>2. QED
    BY <1>1
       DEF Deriving!Init, DerivedIInv, RowsTyped, Alone, Informed, Single, Lifetime,
         Deriving!Idle

\* Who is at work is alone, as long as no requests have overlapped.
LEMMA AtWorkAlone ==
    ASSUME DerivedIInv, NEW r \in Requests, ~crossed, ~Deriving!Idle(r)
    PROVE  \A q \in Requests \ {r} : Deriving!Idle(q)
  BY DEF DerivedIInv, Alone

LEMMA RequestSteps ==
    ASSUME DerivedIInv, NEW r \in Requests, NEW s \in SUBSET SaveOrUndo,
           deriving' = [deriving EXCEPT ![r] = s], handler' = handler,
           source' \in Deriving!Present \cup {"gone"}, LatchTyped',
           derived' \in Nat, reversed' \in Nat,
           ~crossed' => ~crossed /\ \A q \in Requests \ {r} : Deriving!Idle(q),
           ~crossed' => \A v \in s : Current(v)',
           Single', source' # "gone" => reversed' = 0,
           source' = "gone" /\ ~crossed' => s = {} /\ Undone'
    PROVE  DerivedIInv'
  <1>1. /\ deriving \in [Requests -> SUBSET SaveOrUndo] /\ handler \in DerivingHandlers
        /\ \A q \in Requests : deriving'[q] = IF q = r THEN s ELSE deriving[q]
    BY DEF DerivedIInv, RowsTyped
  <1>2. RowsTyped'
    BY <1>1 DEF RowsTyped
  <1>3. ~crossed' => \A q \in Requests \ {r} : deriving'[q] = {}
    BY <1>1 DEF Deriving!Idle
  <1>4. Alone'
    BY <1>3 DEF Alone, Deriving!Idle
  <1>5. Informed'
    BY <1>1, <1>3 DEF Informed
  <1>6. Lifetime'
    BY <1>1, <1>3 DEF Lifetime, Deriving!Idle, Deriving!Present
  <1>7. QED
    BY <1>2, <1>4, <1>5, <1>6 DEF DerivedIInv

LEMMA DerivedNextIInv ==
    ASSUME Deriving!HandlersAssumption, DerivedIInv, Deriving!Next
    PROVE  DerivedIInv'
  <1>1. RowsTyped /\ LatchTyped /\ Alone /\ Informed /\ Single /\ Lifetime
    BY DEF DerivedIInv
  <1>2. \A r \in Requests : deriving[r] \in SUBSET SaveOrUndo
    BY <1>1 DEF RowsTyped
  <1>18. marked' = marked => LatchTyped'
    BY <1>1, Zenon DEF LatchTyped
  <1>3. ASSUME NEW r \in Requests, ~Deriving!Idle(r)
        PROVE  source \in Deriving!Present \cup {"gone"}
    BY <1>1, <1>3 DEF RowsTyped, Lifetime
  <1>19. derived \in Nat /\ reversed \in Nat
    BY <1>1 DEF RowsTyped
  <1>4. ASSUME NEW r \in Requests, ~Deriving!Idle(r), Deriving!Ends(r),
               UNCHANGED <<handler, source, marked, derived, reversed, crossed>>
        PROVE  DerivedIInv'
    <2>1. Single' /\ (source' # "gone" => reversed' = 0)
      BY <1>1, <1>4 DEF Single, Lifetime
    <2>2. ~crossed' => source' # "gone"
      BY <1>1, <1>4 DEF Lifetime
    <2>3. ~crossed' => ~crossed /\ \A q \in Requests \ {r} : Deriving!Idle(q)
      BY <1>4, AtWorkAlone
    <2>4. deriving' = [deriving EXCEPT ![r] = {}]
      BY <1>4 DEF Deriving!Ends
    <2>5. QED
      BY <1>3, <1>4, <1>18, <1>19, <2>1, <2>2, <2>3, <2>4, RequestSteps
  <1>5. ASSUME NEW r \in Requests, NEW to \in Deriving!Present, Deriving!Create(r, to)
        PROVE  DerivedIInv'
    <2> DEFINE v == Deriving!Save("saved", FALSE, "absent", to)
    <2>1. v \in SaveOrUndo /\ v.stage = "saved" /\ v.mark = FALSE
      BY DEF Deriving!Save, SaveOrUndo, Deriving!Present
    <2>2. ~marked /\ reversed = 0 /\ \A q \in Requests : Deriving!Idle(q)
      BY <1>1, <1>5 DEF Deriving!Create, Lifetime
    <2>3. Single'
      BY <1>1, <1>5 DEF Deriving!Create, Single
    <2> HIDE DEF v
    <2>4. Current(v)'
      BY <1>5, <2>1, <2>2 DEF Deriving!Create, Current
    <2>5. deriving' = [deriving EXCEPT ![r] = {v}]
      BY <1>5 DEF Deriving!Create, v
    <2>6. source' = to /\ to # "gone"
      BY <1>5 DEF Deriving!Create, Deriving!Present
    <2>7. QED
      <3>1. /\ ~crossed' => ~crossed
            /\ UNCHANGED <<handler, marked, derived, reversed>>
        BY <1>5 DEF Deriving!Create
      <3>2. source' \in Deriving!Present \cup {"gone"} /\ {v} \in SUBSET SaveOrUndo
        BY <2>1, <2>6
      <3>3. \A w \in {v} : Current(w)'
        BY <2>4
      <3>4. QED
        BY <1>18, <1>19, <2>2, <2>3, <2>5, <2>6, <3>1, <3>2, <3>3, RequestSteps
  <1>6. ASSUME NEW r \in Requests, crossed' = Deriving!Overlaps(r),
               source \in Deriving!Present, NEW v \in SaveOrUndo,
               deriving' = [deriving EXCEPT ![r] = {v}], Deriving!Idle(r), Current(v)',
               UNCHANGED <<handler, source, marked, derived, reversed>>
        PROVE  DerivedIInv'
    <2>1. (~crossed' => ~crossed /\ \A q \in Requests \ {r} : Deriving!Idle(q))
      BY <1>1, <1>6 DEF Deriving!Overlaps, RowsTyped
    <2>2. Single' /\ (source' # "gone" => reversed' = 0)
      BY <1>1, <1>6, <2>1 DEF Single, Lifetime
    <2>3. source' # "gone"
      BY <1>6 DEF Deriving!Present
    <2>4. QED
      <3>1. source' \in Deriving!Present \cup {"gone"} /\ {v} \in SUBSET SaveOrUndo
        BY <1>6
      <3>2. \A w \in {v} : Current(w)'
        BY <1>6
      <3>3. QED
        BY <1>6, <1>18, <1>19, <2>1, <2>2, <2>3, <3>1, <3>2, RequestSteps
  <1>7. ASSUME NEW r \in Requests, NEW to \in Deriving!Present, Deriving!Load(r, to)
        PROVE  DerivedIInv'
    <2> DEFINE u == Deriving!Save("loaded", marked, source, to)
    <2>5. u \in SaveOrUndo /\ u.stage = "loaded" /\ u.mark = marked
      BY <1>1, <1>7
         DEF Deriving!Load, Deriving!Save, SaveOrUndo, Deriving!Present, LatchTyped
    <2>1. PICK v \in SaveOrUndo : v = u /\ v.stage = "loaded" /\ v.mark = marked
      BY <2>5
    <2>2. Current(v)'
      BY <1>7, <2>1 DEF Deriving!Load, Current
    <2>3. deriving' = [deriving EXCEPT ![r] = {v}]
      BY <1>7, <2>1 DEF Deriving!Load
    <2>4. QED
      BY <1>6, <1>7, <2>1, <2>2, <2>3 DEF Deriving!Load
  <1>8. ASSUME NEW r \in Requests, Deriving!BeginDelete(r) PROVE DerivedIInv'
    <2>1. Deriving!Found \in Nat /\ Deriving!Found' = Deriving!Found
      BY <1>1, <1>8 DEF Deriving!BeginDelete, Deriving!Found, RowsTyped
    <2> DEFINE u == Deriving!Undo(Deriving!Found)
    <2>6. u \in SaveOrUndo /\ u.stage = "undoing" /\ u.found = Deriving!Found
      BY <2>1 DEF Deriving!Undo, SaveOrUndo
    <2>2. PICK v \in SaveOrUndo : v = u /\ v.stage = "undoing" /\ v.found = Deriving!Found
      BY <2>6
    <2>3. Current(v)'
      BY <2>1, <2>2, Zenon DEF Current
    <2>4. deriving' = [deriving EXCEPT ![r] = {v}]
      BY <1>8, <2>2 DEF Deriving!BeginDelete
    <2>5. QED
      BY <1>6, <1>8, <2>2, <2>3, <2>4 DEF Deriving!BeginDelete
  <1>9. ASSUME NEW r \in Requests, NEW v \in deriving[r], NEW s \in SUBSET SaveOrUndo,
               deriving' = [deriving EXCEPT ![r] = s], ~crossed =>
                 \A w \in s : Current(w)',
               source' \in {source} \cup Deriving!Present, source' = source \/
                 source \in Deriving!Present,
               UNCHANGED <<handler, marked, derived, reversed, crossed>>
        PROVE  DerivedIInv'
    <2>1. ~Deriving!Idle(r)
      BY <1>9 DEF Deriving!Idle
    <2>2. Single' /\ (source' # "gone" => reversed' = 0)
      BY <1>1, <1>9 DEF Single, Lifetime, Deriving!Present
    <2>3. ~crossed => source # "gone"
      BY <1>1, <2>1 DEF Lifetime
    <2>4. source' \in Deriving!Present \cup {"gone"} /\ (~crossed => source' # "gone")
      BY <1>3, <1>9, <2>1, <2>3 DEF Deriving!Present
    <2>5. QED
      <3>1. ~crossed' => ~crossed /\ \A q \in Requests \ {r} : Deriving!Idle(q)
        BY <1>9, <2>1, AtWorkAlone
      <3>2. QED
        BY <1>9, <1>18, <1>19, <2>2, <2>4, <3>1, RequestSteps
  <1>10. ASSUME NEW r \in Requests, Deriving!Store(r) PROVE DerivedIInv'
    <2>1. PICK v \in deriving[r] :
            /\ v.stage = "loaded"
            /\ IF source \in Deriving!Present
               THEN /\ source' = v.to
                    /\ deriving' = [deriving EXCEPT ![r] = {[v EXCEPT !.stage = "saved"]}]
               ELSE Deriving!Ends(r) /\ source' = source
            /\ UNCHANGED <<handler, marked, derived, reversed, crossed>>
      BY <1>10 DEF Deriving!Store, Deriving!Stage
    <2>2. v \in SaveOrUndo
      BY <1>2
    <2>3. CASE source \in Deriving!Present
      <3> DEFINE w == [v EXCEPT !.stage = "saved"]
      <3>1. w \in SaveOrUndo /\ w.stage = "saved" /\ w.mark = v.mark /\
              v.to \in Deriving!Present
        BY <2>1, <2>2 DEF SaveOrUndo
      <3>2. ~crossed => Current(v)
        BY <1>1 DEF Informed
      <3> HIDE DEF w
      <3>3. ~crossed => Current(w)'
        BY <2>1, <3>1, <3>2 DEF Current
      <3>4. deriving' = [deriving EXCEPT ![r] = {w}]
        BY <2>1, <2>3 DEF w
      <3>5. QED
        BY <1>9, <2>1, <2>3, <3>1, <3>3, <3>4
    <2>4. CASE source \notin Deriving!Present
      BY <1>4, <2>1, <2>4 DEF Deriving!Idle
    <2>5. QED
      BY <2>3, <2>4
  <1>11. ASSUME NEW r \in Requests, Deriving!Look(r) PROVE DerivedIInv'
    <2>1. PICK v \in deriving[r] :
            /\ v.stage = "saved"
            /\ deriving' = [deriving EXCEPT ![r] =
                 IF Deriving!Fires(v) /\ ("looks" \in handler.ways => derived = 0)
                 THEN {[v EXCEPT !.stage = "clear"]} ELSE {}]
            /\ UNCHANGED <<handler, source, marked, derived, reversed, crossed>>
      BY <1>11 DEF Deriving!Look, Deriving!Stage
    <2>2. v \in SaveOrUndo
      BY <1>2
    <2>3. CASE Deriving!Fires(v) /\ ("looks" \in handler.ways => derived = 0)
      <3> DEFINE w == [v EXCEPT !.stage = "clear"]
      <3>1. w \in SaveOrUndo /\ w.stage = "clear" /\ w.mark = v.mark
        BY <2>1, <2>2 DEF SaveOrUndo
      <3>2. ~crossed => Current(v)
        BY <1>1 DEF Informed
      <3> HIDE DEF w
      <3>3. ~crossed => Current(w)'
        BY <2>1, <2>3, <3>1, <3>2 DEF Current, Deriving!Fires
      <3>4. deriving' = [deriving EXCEPT ![r] = {w}]
        BY <2>1, <2>3 DEF w
      <3>5. {w} \in SUBSET SaveOrUndo /\ (~crossed => \A x \in {w} : Current(x)')
        BY <3>1, <3>3
      <3>6. QED
        BY <1>9, <2>1, <3>4, <3>5
    <2>4. CASE ~(Deriving!Fires(v) /\ ("looks" \in handler.ways => derived = 0))
      BY <1>4, <2>1, <2>4 DEF Deriving!Idle, Deriving!Ends
    <2>5. QED
      BY <2>3, <2>4
  <1>12. ASSUME NEW r \in Requests, Deriving!Derive(r) PROVE DerivedIInv'
    <2>1. PICK v \in deriving[r] : v.stage = "clear"
      BY <1>12 DEF Deriving!Derive, Deriving!Stage
    <2>2. ~Deriving!Idle(r)
      BY <2>1 DEF Deriving!Idle
    <2>3. ~crossed => Current(v)
      BY <1>1 DEF Informed
    <2>4. ~crossed => source # "gone"
      BY <1>1, <2>2 DEF Lifetime
    <2>5. derived' = derived + 1 /\ marked' = (marked \/ "latch" \in handler.ways)
      BY <1>12 DEF Deriving!Derive
    <2>6. /\ handler' = handler /\ crossed' = crossed /\ source' = source
          /\ "unique" \in handler.ways => derived = 0
      BY <1>12 DEF Deriving!Derive, Deriving!Insertable
    <2>7. derived \in Nat
      BY <1>1 DEF RowsTyped
    <2>13. LatchTyped'
      BY <1>1, <2>5, Zenon DEF LatchTyped
    <2>8. ~crossed /\ "looks" \in handler.ways => derived = 0
      BY <2>1, <2>3 DEF Current
    <2>9. ~crossed /\ "latch" \in handler.ways => derived = 0
      BY <1>1, <2>1, <2>3, <2>7 DEF Current, Single
    <2>10. Single'
      <3>1. handler.ways \subseteq {"looks", "latch", "unique"}
        BY <1>1 DEF Deriving!HandlersAssumption, RowsTyped
      <3>2. QED
        <4>1. "unique" \in handler'.ways => derived' <= 1
          BY <2>5, <2>6, <2>7
        <4>2. ~crossed' /\ handler'.ways # {} => derived' <= 1
          BY <2>5, <2>6, <2>7, <2>8, <2>9, <3>1
        <4>3. "latch" \in handler'.ways => marked'
          BY <2>5, <2>6
        <4>4. QED
          BY <4>1, <4>2, <4>3 DEF Single
    <2>11. source' # "gone" => reversed' = 0
      BY <1>1, <1>12 DEF Deriving!Derive, Lifetime
    <2>12. QED
      <3>1. ~crossed' => ~crossed /\ \A q \in Requests \ {r} : Deriving!Idle(q)
        BY <2>2, <2>6, AtWorkAlone
      <3>2. deriving' = [deriving EXCEPT ![r] = {}] /\ reversed' = reversed
        BY <1>12 DEF Deriving!Derive, Deriving!Ends
      <3>3. source' \in Deriving!Present \cup {"gone"} /\ derived' \in Nat /\
              reversed' \in Nat
        BY <1>3, <1>19, <2>2, <2>5, <2>6, <3>2
      <3>4. ~crossed' => source' # "gone"
        BY <2>4, <2>6
      <3>5. QED
        BY <2>6, <2>10, <2>11, <2>13, <3>1, <3>2, <3>3, <3>4, RequestSteps
  <1>13. ASSUME NEW r \in Requests, NEW v \in deriving[r], v.stage = "undoing",
                Deriving!DeletesSource(r),
                derived' \in {derived, 0}, reversed' \in Nat,
                crossed => crossed', ~crossed' => Undone'
         PROVE  DerivedIInv'
    <2>1. ~Deriving!Idle(r)
      BY <1>13 DEF Deriving!Idle
    <2>2. source \in Deriving!Present \cup {"gone"} /\ source' = "gone"
      BY <1>3, <1>13, <2>1 DEF Deriving!DeletesSource
    <2>3. derived' \in Nat /\ derived' <= derived
      BY <1>1, <1>13 DEF RowsTyped
    <2>4. handler' = handler /\ marked' = marked /\
            deriving' = [deriving EXCEPT ![r] = {}]
      BY <1>13 DEF Deriving!DeletesSource, Deriving!Ends
    <2>5. Single'
      BY <1>1, <1>13, <2>3, <2>4 DEF Single, RowsTyped
    <2>6. QED
      <3>1. ~crossed' => ~crossed /\ \A q \in Requests \ {r} : Deriving!Idle(q)
        BY <1>13, <2>1, AtWorkAlone
      <3>2. QED
        BY <1>13, <1>18, <2>2, <2>3, <2>4, <2>5, <3>1, RequestSteps
  <1>14. ASSUME NEW r \in Requests, Deriving!Delete(r) PROVE DerivedIInv'
    <2>1. PICK v \in deriving[r] :
            /\ v.stage = "undoing"
            /\ IF handler.undo = "delete"
               THEN derived' = 0 /\ UNCHANGED reversed
               ELSE reversed' = reversed + v.found /\ UNCHANGED derived
            /\ Deriving!DeletesSource(r) /\ UNCHANGED crossed
      BY <1>14 DEF Deriving!Delete, Deriving!Stage
    <2>2. v.found \in Nat /\ derived \in Nat /\ reversed \in Nat
      BY <1>1, <1>2, <2>1 DEF SaveOrUndo, RowsTyped
    <2>3. ASSUME ~crossed PROVE Undone'
      <3>1. v.found = Deriving!Found
        BY <1>1, <2>1, <2>3 DEF Informed, Current
      <3>2. ~Deriving!Idle(r)
        BY DEF Deriving!Idle
      <3>3. reversed = 0
        BY <1>1, <2>3, <3>2 DEF Lifetime
      <3>4. handler.undo # "none" => derived <= 1
        BY <1>1, <2>3 DEF Single, Deriving!HandlersAssumption, RowsTyped
      <3>5. handler' = handler
        BY <2>1 DEF Deriving!DeletesSource
      <3>6. QED
        BY <2>1, <2>2, <3>1, <3>3, <3>4, <3>5 DEF Undone, Deriving!Found
    <2>4. derived' \in {derived, 0} /\ reversed' \in Nat 
      BY <1>1, <2>1, <2>2 DEF RowsTyped
    <2>5. QED
      BY <1>13, <2>1, <2>3, <2>4
  <1>15. ASSUME NEW r \in Requests, Deriving!DeleteAlone(r) PROVE DerivedIInv'
    <2>1. PICK v \in deriving[r] : v.stage = "undoing"
      BY <1>15 DEF Deriving!DeleteAlone, Deriving!Stage
    <2>2. Deriving!DeletesSource(r) /\ crossed' = TRUE /\ derived' = derived /\
            reversed' = reversed
      BY <1>15 DEF Deriving!DeleteAlone
    <2>3. reversed' \in Nat
      BY <1>1, <2>2 DEF RowsTyped
    <2>4. QED
      BY <1>13, <2>1, <2>2, <2>3
  <1>16. ASSUME NEW r \in Requests, Deriving!DeriveNot(r) \/ Deriving!Die(r)
         PROVE  DerivedIInv'
    BY <1>4, <1>16 DEF Deriving!DeriveNot, Deriving!Die, Deriving!Stage, Deriving!Idle
  <1>17. QED
    BY <1>5, <1>7, <1>8, <1>10, <1>11, <1>12, <1>14, <1>15, <1>16 DEF Deriving!Next

LEMMA DerivedSpecIInv ==
    ASSUME Deriving!HandlersAssumption
    PROVE  Deriving!Spec => []DerivedIInv
  <1>1. DerivedIInv /\ [Deriving!Next]_(Deriving!vars) => DerivedIInv'
    <2>1. ASSUME DerivedIInv, UNCHANGED Deriving!vars PROVE DerivedIInv'
      BY <2>1
         DEF Deriving!vars, DerivedIInv, RowsTyped, LatchTyped, Alone, Informed, Current,
           Deriving!Found, Single,
                  Lifetime, Undone, Deriving!Idle
    <2>2. QED
      BY <2>1, DerivedNextIInv
  <1>2. QED
    BY <1>1, DerivedInit, PTL DEF Deriving!Spec

LEMMA DerivedOnceHolds ==
    ASSUME Deriving!HandlersAssumption
    PROVE  Deriving!Spec => []Deriving!DerivedOnce
  <1>1. DerivedIInv => Deriving!DerivedOnce
    BY DEF DerivedIInv, RowsTyped, Single, Deriving!DerivedOnce
  <1>2. QED
    BY <1>1, DerivedSpecIInv, PTL

LEMMA UndoneHolds ==
    ASSUME Deriving!HandlersAssumption
    PROVE  Deriving!Spec => []Deriving!UndoneWithSource
  <1>1. DerivedIInv => Deriving!UndoneWithSource
    BY DEF DerivedIInv, Lifetime, Undone, Deriving!UndoneWithSource
  <1>2. QED
    BY <1>1, DerivedSpecIInv, PTL

----------------------------------------------------------------------------

ChainNames == Users \cup {Chaining!NoUser}

Digests == Seq(ChainNames \X Int)

ChainEntry == [user : ChainNames, time : Int, before : Digests, hash : Digests]

Addition == [stage : {"stamped", "chained"}, user : ChainNames, time : Int,
  before : Digests]

ChainHash(es, k) == IF k = 0 THEN <<>> ELSE es[k].hash

\* The log is in the order of its keys.
InTurn(es) == \A j, k \in 1..Len(es) : j < k => es[j].time <= es[k].time

\* Every entry continues the one before it.
Linked(es) ==
  \A k \in 1..Len(es) : /\ es[k].before = ChainHash(es, k - 1)
                        /\ es[k].hash = Chaining!Hash(es[k].before, es[k])

Past == \A k \in 1..Len(chain) : chain[k].time <= now

\* The entry a request is about to insert is the next one.
Upcoming(v) ==
  /\ v.time <= now
  /\ \A k \in 1..Len(chain) : chain[k].time <= v.time
  /\ v.stage = "chained" => v.before = ChainHash(chain, Len(chain))

ChainTyped ==
  /\ now \in Int
  /\ users \subseteq Users
  /\ chain \in Seq(ChainEntry)
  /\ adding \in [Requests -> SUBSET Addition]

OneAppends == \A q, r \in Requests : adding[q] # {} /\ adding[r] # {} => q = r

Honest ==
  /\ ChainTyped /\ InTurn(chain) /\ Linked(chain) /\ Past /\ OneAppends
  /\ \A r \in Requests : \A v \in adding[r] : Upcoming(v)

ChainIInv == raced \/ redacted \/ Honest

LEMMA ChainEntryAt ==
    ASSUME NEW es \in Seq(ChainEntry), NEW k \in 1..Len(es)
    PROVE  es[k] \in ChainEntry /\ es[k].time \in Int /\ es[k].hash \in Digests
  <1>1. es[k] \in ChainEntry
    BY ElementOfSeq
  <1>2. QED
    BY <1>1 DEF ChainEntry

\* In an ordered log the latest of the first n entries is the n-th.
LEMMA LatestIsLast ==
    ASSUME NEW es \in Seq(ChainEntry), InTurn(es), NEW n \in 1..Len(es)
    PROVE  Chaining!LatestOf(es, 1..n) = n
  <1>1. \A k \in 1..n : es[k].time \in Int
    BY ChainEntryAt
  <1>2. \A j \in (1..n) \ {n} : Chaining!Earlier(es, j, n)
    BY <1>1 DEF Chaining!Earlier, InTurn
  <1>3. ASSUME NEW k \in 1..n, \A j \in (1..n) \ {k} : Chaining!Earlier(es, j, k)
        PROVE  k = n
    BY <1>1, <1>3 DEF Chaining!Earlier, InTurn
  <1>4. QED
    BY <1>2, <1>3 DEF Chaining!LatestOf

LEMMA EarlierAreBefore ==
    ASSUME NEW es \in Seq(ChainEntry), InTurn(es), NEW k \in 1..Len(es)
    PROVE  {j \in DOMAIN es : Chaining!Earlier(es, j, k)} = 1..(k - 1)
  <1>1. DOMAIN es = 1..Len(es) /\ \A j \in 1..Len(es) : es[j].time \in Int
    BY ChainEntryAt, LenProperties
  <1>2. QED
    BY <1>1 DEF Chaining!Earlier, InTurn

LEMMA LatestHashIs ==
    ASSUME NEW es \in Seq(ChainEntry), InTurn(es)
    PROVE  Chaining!LatestHash(es) = ChainHash(es, Len(es)) /\
           Chaining!LatestHash(es) \in Digests
  <1>1. CASE es = <<>>
    BY <1>1 DEF Chaining!LatestHash, ChainHash, Digests
  <1>2. CASE es # <<>>
    <2>1. Len(es) \in 1..Len(es) /\ DOMAIN es = 1..Len(es)
      BY <1>2
    <2>2. Chaining!LatestHash(es) = es[Len(es)].hash
      BY <1>2, <2>1, LatestIsLast DEF Chaining!LatestHash
    <2>3. es[Len(es)] \in ChainEntry
      BY <2>1
    <2>4. QED
      BY <2>1, <2>2, <2>3 DEF ChainHash, ChainEntry
  <1>3. QED
    BY <1>1, <1>2

LEMMA LinkedVerifies ==
    ASSUME NEW es \in Seq(ChainEntry), InTurn(es), Linked(es)
    PROVE  Chaining!Verifies(es)
  <1> DEFINE earlier(k) == {j \in DOMAIN es : Chaining!Earlier(es, j, k)}
  <1>1. ASSUME NEW k \in 1..Len(es)
        PROVE  es[k].before = IF earlier(k) = {} THEN <<>>
                              ELSE es[Chaining!LatestOf(es, earlier(k))].hash
    <2>1. earlier(k) = 1..(k - 1) /\ es[k].before = ChainHash(es, k - 1)
      BY EarlierAreBefore DEF Linked
    <2> HIDE DEF earlier
    <2>2. CASE k = 1
      <3>1. earlier(k) = {}
        BY <2>1, <2>2
      <3>2. QED
        BY <2>1, <2>2, <3>1 DEF ChainHash
    <2>3. CASE k # 1
      <3>1. k - 1 \in 1..Len(es) /\ k - 1 \in 1..(k - 1) /\ k - 1 # 0
        BY <2>3
      <3>2. Chaining!LatestOf(es, earlier(k)) = k - 1 /\ earlier(k) # {}
        BY <2>1, <3>1, LatestIsLast
      <3>3. QED
        BY <2>1, <3>1, <3>2 DEF ChainHash
    <2>4. QED
      BY <2>2, <2>3
  <1>2. DOMAIN es = 1..Len(es)
    BY LenProperties
  <1>3. QED
    BY <1>1, <1>2 DEF Chaining!Verifies, Linked

LEMMA ChainInit == Chaining!Init => ChainIInv
  <1>1. <<>> \in Seq(ChainEntry) /\ Len(<<>>) = 0
    OBVIOUS
  <1>2. QED
    BY <1>1
       DEF Chaining!Init, ChainIInv, ChainTyped, Honest, InTurn, Linked, Past, OneAppends

LEMMA ChainTick == ASSUME Honest, Chaining!Tick PROVE Honest'
  <1>1. \A k \in 1..Len(chain) : chain[k].time \in Int
    BY ChainEntryAt DEF Honest, ChainTyped
  <1>2. \A r \in Requests : \A v \in adding[r] : v.time \in Int
    BY DEF Honest, ChainTyped, Addition
  <1>3. ChainTyped'
    BY DEF Honest, ChainTyped, Chaining!Tick
  <1>4. Past'
    BY <1>1 DEF Past, Chaining!Tick, Honest, ChainTyped
  <1>5. \A r \in Requests : \A v \in adding[r] : Upcoming(v)'
    BY <1>2 DEF Upcoming, Chaining!Tick, Honest, ChainTyped
  <1>6. QED
    BY <1>3, <1>4, <1>5 DEF Honest, Chaining!Tick, OneAppends, InTurn, Linked

LEMMA ChainStamp ==
    ASSUME Honest, NEW r \in Requests, NEW u, Chaining!Stamp(r, u), ~raced'
    PROVE  Honest'
  <1>0. PICK v : v = [stage |-> "stamped", user |-> u, time |-> now, before |-> <<>>]
    OBVIOUS
  <1>1. v \in Addition
    BY <1>0 DEF Chaining!Stamp, Honest, ChainTyped, Addition, ChainNames, Digests
  <1>2. /\ adding' = [adding EXCEPT ![r] = {v}]
        /\ UNCHANGED <<now, users, chain, redacted>>
        /\ raced' = (raced \/ Chaining!Appending # {}) /\ adding[r] = {}
    BY <1>0 DEF Chaining!Stamp
  <1>3. ChainTyped'
    BY <1>1, <1>2 DEF Honest, ChainTyped
  <1>4. \A q \in Requests : adding[q] = {}
    BY <1>2 DEF Chaining!Appending
  <1>5. Upcoming(v)'
    BY <1>0, <1>2, <1>4 DEF Upcoming, Honest, Past, ChainTyped
  <1>6. \A q \in Requests : adding'[q] = IF q = r THEN {v} ELSE {}
    BY <1>2, <1>4 DEF Honest, ChainTyped
  <1>7. \A q \in Requests : \A x \in adding'[q] : Upcoming(x)'
    BY <1>5, <1>6
  <1>8. OneAppends'
    BY <1>6 DEF OneAppends
  <1>9. QED
    BY <1>2, <1>3, <1>7, <1>8 DEF Honest, Past, InTurn, Linked

LEMMA ChainHashed ==
    ASSUME Honest, NEW r \in Requests, Chaining!Chain(r)
    PROVE  Honest'
  <1>1. PICK v \in Chaining!Stage(r, "stamped") :
          /\ adding' = [adding EXCEPT ![r] =
               {[v EXCEPT !.stage = "chained", !.before = Chaining!LatestHash(chain)]}]
          /\ UNCHANGED <<now, users, chain, raced, redacted>>
    BY DEF Chaining!Chain
  <1>2. v \in Addition /\ v \in adding[r]
    BY DEF Chaining!Stage, Honest, ChainTyped
  <1>3. PICK n : n = Chaining!LatestHash(chain)
    OBVIOUS
  <1>4. n \in Digests /\ n = ChainHash(chain, Len(chain))
    BY <1>3, LatestHashIs DEF Honest, ChainTyped
  <1>w. PICK w : w = [v EXCEPT !.stage = "chained", !.before = n]
    OBVIOUS
  <1>e. w \in Addition /\ w.stage = "chained" /\ w.before = n /\ w.time = v.time
    BY <1>2, <1>4, <1>w DEF Addition
  <1>5. adding' = [adding EXCEPT ![r] = {w}]
    BY <1>1, <1>3, <1>w
  <1>6. ChainTyped'
    BY <1>1, <1>5, <1>e DEF Honest, ChainTyped
  <1>7. Upcoming(w)'
    BY <1>1, <1>2, <1>4, <1>e DEF Upcoming, Honest
  <1>8. \A q \in Requests : adding'[q] = IF q = r THEN {w} ELSE adding[q]
    BY <1>5 DEF Honest, ChainTyped
  <1>9. \A q \in Requests : \A x \in adding'[q] : Upcoming(x)'
    <2>1. ASSUME NEW x, Upcoming(x) PROVE Upcoming(x)'
      BY <1>1, <2>1 DEF Upcoming
    <2>2. QED
      BY <1>7, <1>8, <2>1 DEF Honest
  <1>10. OneAppends'
    BY <1>2, <1>8 DEF Honest, OneAppends
  <1>11. QED
    BY <1>1, <1>6, <1>9, <1>10 DEF Honest, Past, InTurn, Linked

LEMMA ChainInsert ==
    ASSUME Honest, NEW r \in Requests, Chaining!Insert(r)
    PROVE  Honest'
  <1>1. PICK v \in Chaining!Stage(r, "chained") :
          /\ v.user \in users \cup {Chaining!NoUser}
          /\ chain' = Append(chain,
               [user |-> v.user, time |-> v.time, before |-> v.before,
                hash |-> Chaining!Hash(v.before, v)])
          /\ adding' = [adding EXCEPT ![r] = {}]
          /\ UNCHANGED <<now, users, raced, redacted>>
    BY DEF Chaining!Insert
  <1>2. v \in Addition /\ v \in adding[r] /\ v.stage = "chained" /\ Upcoming(v)
    BY DEF Chaining!Stage, Honest, ChainTyped
  <1>3. PICK h : h = Chaining!Hash(v.before, v)
    OBVIOUS
  <1> DEFINE e == [user |-> v.user, time |-> v.time, before |-> v.before, hash |-> h]
             n == Len(chain)
  <1>4. Chaining!Payload(v) \in ChainNames \X Int /\
          Chaining!Payload(e) = Chaining!Payload(v)
    BY <1>2 DEF Chaining!Payload, Addition
  <1>5. h \in Digests /\ Chaining!Hash(e.before, e) = h
    BY <1>2, <1>3, <1>4 DEF Chaining!Hash, Addition, Digests
  <1>6. e \in ChainEntry
    BY <1>2, <1>5 DEF ChainEntry, Addition
  <1>7. chain \in Seq(ChainEntry) /\ n \in Nat
    BY DEF Honest, ChainTyped
  <1>8. e.time = v.time /\ e.before = v.before /\ e.hash = h
    OBVIOUS
  <1>9. chain' = Append(chain, e)
    BY <1>1, <1>3
  <1> HIDE DEF e
  <1>10. /\ Len(chain') = n + 1 /\ chain'[n + 1] = e
         /\ \A k \in 1..n : chain'[k] = chain[k]
         /\ chain' \in Seq(ChainEntry)
    BY <1>6, <1>7, <1>9
  <1> HIDE DEF n
  <1>11. n = Len(chain)
    BY DEF n
  <1>12. /\ adding' \in [Requests -> SUBSET Addition]
         /\ \A q \in Requests : adding'[q] = {}
    BY <1>1, <1>2 DEF Honest, ChainTyped, OneAppends
  <1>13. InTurn(chain)'
    <2>1. \A k \in 1..n : chain[k].time <= v.time
      BY <1>2, <1>11 DEF Upcoming
    <2>2. \A j, k \in 1..n : j < k => chain[j].time <= chain[k].time
      BY <1>11 DEF Honest, InTurn
    <2>3. QED
      BY <1>7, <1>8, <1>10, <2>1, <2>2 DEF InTurn
  <1>14. Linked(chain)'
    <2>1. e.before = ChainHash(chain, n) /\ e.hash = Chaining!Hash(e.before, e)
      BY <1>2, <1>5, <1>8, <1>11 DEF Upcoming
    <2>2. \A k \in 1..n : /\ chain[k].before = ChainHash(chain, k - 1)
                          /\ chain[k].hash = Chaining!Hash(chain[k].before, chain[k])
      BY <1>11 DEF Honest, Linked
    <2>3. \A k \in 0..n : ChainHash(chain', k) = ChainHash(chain, k)
      BY <1>7, <1>10 DEF ChainHash
    <2>4. \A k \in 1..(n + 1) :
            /\ chain'[k].before = ChainHash(chain', k - 1)
            /\ chain'[k].hash = Chaining!Hash(chain'[k].before, chain'[k])
      <3>1. SUFFICES ASSUME NEW k \in 1..(n + 1)
                     PROVE  /\ chain'[k].before = ChainHash(chain', k - 1)
                            /\ chain'[k].hash = Chaining!Hash(chain'[k].before, chain'[k])
        OBVIOUS
      <3>2. k - 1 \in 0..n
        BY <1>7
      <3>3. CASE k \in 1..n
        BY <1>10, <2>2, <2>3, <3>2, <3>3
      <3>4. CASE k = n + 1
        BY <1>7, <1>10, <2>1, <2>3, <3>4
      <3>5. QED
        BY <1>7, <3>3, <3>4
    <2>5. QED
      BY <1>10, <2>4 DEF Linked
  <1>15. Past'
    <2>1. \A k \in 1..n : chain[k].time <= now
      BY <1>11 DEF Honest, Past
    <2>2. v.time <= now
      BY <1>2 DEF Upcoming
    <2>3. QED
      BY <1>1, <1>7, <1>8, <1>10, <2>1, <2>2 DEF Past
  <1>16. OneAppends' /\ \A q \in Requests : \A x \in adding'[q] : Upcoming(x)'
    BY <1>12 DEF OneAppends
  <1>17. ChainTyped'
    BY <1>1, <1>10, <1>12 DEF Honest, ChainTyped
  <1>18. QED
    BY <1>13, <1>14, <1>15, <1>16, <1>17 DEF Honest

\* A user whom no entry names leaves the log as it is.
LEMMA ChainDeleteUser ==
    ASSUME Honest, NEW u \in Users, Chaining!DeleteUser(u), ~redacted'
    PROVE  Honest'
  <1>1. /\ \A k \in DOMAIN chain : chain[k].user # u
        /\ users' \subseteq users /\ UNCHANGED <<now, adding, raced>>
    BY DEF Chaining!DeleteUser
  <1>2. chain \in Seq(ChainEntry) /\ DOMAIN chain = 1..Len(chain)
    BY DEF Honest, ChainTyped
  <1>3. \A k \in DOMAIN chain :
          [chain[k] EXCEPT !.user = IF @ = u THEN Chaining!NoUser ELSE @] = chain[k]
    <2>1. SUFFICES ASSUME NEW k \in DOMAIN chain
                   PROVE  [chain[k] EXCEPT !.user = IF @ =
                          u THEN Chaining!NoUser ELSE @] = chain[k]
      OBVIOUS
    <2>2. chain[k] \in ChainEntry /\ chain[k].user # u
      BY <1>1, <1>2, ChainEntryAt
    <2>3. QED
      BY <2>2 DEF ChainEntry
  <1>4. chain' = [k \in DOMAIN chain |-> chain[k]]
    BY <1>3 DEF Chaining!DeleteUser
  <1>5. chain' = chain
    BY <1>2, <1>4
  <1>6. QED
    BY <1>1, <1>5 DEF Honest, ChainTyped, InTurn, Linked, Past, OneAppends, Upcoming

LEMMA ChainDie ==
    ASSUME Honest, NEW r \in Requests, Chaining!Die(r)
    PROVE  Honest'
  <1>1. /\ UNCHANGED <<now, users, chain>>
        /\ \A q \in Requests : adding'[q] \subseteq adding[q]
        /\ adding' \in [Requests -> SUBSET Addition]
    BY DEF Chaining!Die, Honest, ChainTyped
  <1>2. OneAppends'
    BY <1>1 DEF Honest, OneAppends
  <1>3. \A q \in Requests : \A v \in adding'[q] : Upcoming(v)'
    BY <1>1 DEF Honest, Upcoming
  <1>4. QED
    BY <1>1, <1>2, <1>3 DEF Honest, ChainTyped, InTurn, Linked, Past

LEMMA ChainStep == ASSUME ChainIInv, [Chaining!Next]_(Chaining!vars) PROVE ChainIInv'
  <1>1. SUFFICES ASSUME ~raced', ~redacted' PROVE Honest'
    BY DEF ChainIInv
  <1>2. CASE UNCHANGED Chaining!vars
    BY <1>1, <1>2
       DEF Chaining!vars, ChainIInv, Honest, ChainTyped, InTurn, Linked, Past, OneAppends,
      Upcoming
  <1>3. CASE Chaining!Next
    <2>1. ~raced /\ ~redacted
      <3>1. ASSUME NEW r \in Requests, Chaining!Chain(r) \/ Chaining!Insert(r)
            PROVE  raced' = raced /\ redacted' = redacted
        BY <3>1 DEF Chaining!Chain, Chaining!Insert
      <3>2. ASSUME NEW r \in Requests, Chaining!Die(r)
            PROVE  raced' = raced /\ redacted' = redacted
        BY <3>2 DEF Chaining!Die
      <3>3. ASSUME Chaining!Tick PROVE raced' = raced /\ redacted' = redacted
        BY <3>3 DEF Chaining!Tick
      <3>4. ASSUME NEW r \in Requests, NEW u, Chaining!Stamp(r, u)
            PROVE  ~raced /\ ~redacted
        BY <1>1, <3>4 DEF Chaining!Stamp
      <3>5. ASSUME NEW u \in Users, Chaining!DeleteUser(u) PROVE ~raced /\ ~redacted
        BY <1>1, <3>5 DEF Chaining!DeleteUser
      <3>6. QED
        BY <1>1, <1>3, <3>1, <3>2, <3>3, <3>4, <3>5 DEF Chaining!Next
    <2>2. Honest
      BY <2>1 DEF ChainIInv
    <2>3. QED
      BY <1>1, <1>3, <2>2, ChainTick, ChainStamp, ChainHashed, ChainInsert, ChainDie,
         ChainDeleteUser DEF Chaining!Next
  <1>4. QED
    BY <1>2, <1>3

LEMMA ChainSpecIInv == Chaining!Spec => []ChainIInv
  <1>1. ChainIInv /\ [Chaining!Next]_(Chaining!vars) => ChainIInv'
    BY ChainStep
  <1>2. QED
    BY <1>1, ChainInit, PTL DEF Chaining!Spec

LEMMA ChainHolds == Chaining!Spec => []Chaining!ChainVerifies
  <1>1. ChainIInv => Chaining!ChainVerifies
    BY LinkedVerifies DEF ChainIInv, Chaining!ChainVerifies, Honest, ChainTyped
  <1>2. QED
    BY <1>1, ChainSpecIInv, PTL

----------------------------------------------------------------------------

LastDigest(n) == IF n = 0 THEN Archiving!NoDigest ELSE archives[n].digest

\* Every archive begins after the ones before it have ended.
InDays ==
  /\ \A k \in 1..Len(archives) :
       /\ archives[k].first \in Int /\ archives[k].last \in Int
       /\ archives[k].first <= archives[k].last
  /\ \A j, k \in 1..Len(archives) : j < k => archives[j].last < archives[k].first

Digested ==
  \A k \in 1..Len(archives) :
    archives[k].digest =
      Archiving!Digest(LastDigest(k - 1),
        Archiving!Rows(archives[k].first, archives[k].last))

\* The archive a request is about to file is the next one.
NextArchive(v) ==
  /\ v.first \in Int /\ v.last \in Int /\ v.first <= v.last
  /\ \A k \in 1..Len(archives) : archives[k].last < v.first
  /\ v.digest =
       Archiving!Digest(LastDigest(Len(archives)), Archiving!Rows(v.first, v.last))

OneFiles ==
  \A q, r \in Requests : Archiving!Stage(q, "digested") # {} /\
    Archiving!Stage(r, "digested") # {} => q = r

ArchivesTyped ==
  /\ \E S : archives \in Seq(S)
  /\ filing = [r \in Requests |-> filing[r]]

Timely ==
  /\ ArchivesTyped /\ InDays /\ Digested /\ OneFiles
  /\ \A r \in Requests : \A v \in Archiving!Stage(r, "digested") : NextArchive(v)

ArchiveIInv == untimely \/ Timely

LEMMA DaysOf ==
    ASSUME Timely
    PROVE  /\ Len(archives) \in Nat /\ DOMAIN archives = 1..Len(archives)
           /\ \A j, k \in 1..Len(archives) : j < k =>
                archives[j].first < archives[k].first /\
                  archives[j].last < archives[k].last
  <1>1. Len(archives) \in Nat /\ DOMAIN archives = 1..Len(archives)
    BY LenProperties DEF Timely, ArchivesTyped
  <1>2. ASSUME NEW j \in 1..Len(archives), NEW k \in 1..Len(archives), j < k
        PROVE  archives[j].first < archives[k].first /\
               archives[j].last < archives[k].last
    <2>1. /\ archives[j].first \in Int /\ archives[j].last \in Int
          /\ archives[k].first \in Int /\ archives[k].last \in Int
          /\ archives[j].first <= archives[j].last
          /\ archives[k].first <= archives[k].last
          /\ archives[j].last < archives[k].first
      BY <1>2 DEF Timely, InDays
    <2>2. QED
      BY <2>1
  <1>3. QED
    BY <1>1, <1>2

\* The archive with the latest end is the latest one.
LEMMA PrecedingIsLast ==
    ASSUME Timely, NEW first \in Int, NEW last \in Int, first <= last,
           \A k \in DOMAIN archives : archives[k].last < first
    PROVE  Archiving!Preceding(last) = LastDigest(Len(archives))
  <1>1. PICK n : n = Len(archives)
    OBVIOUS
  <1>2. n \in Nat /\ DOMAIN archives = 1..n
    BY <1>1, DaysOf
  <1>3. \A k \in 1..n : archives[k].last \in Int
    BY <1>1 DEF Timely, InDays
  <1>4. \A j, k \in 1..n : j < k => archives[j].last < archives[k].last
    BY <1>1, DaysOf
  <1> DEFINE E == {k \in DOMAIN archives : archives[k].last <= last}
  <1>5. E = 1..n
    BY <1>2, <1>3
  <1>d. Archiving!Preceding(last) =
          IF E = {} THEN Archiving!NoDigest
          ELSE archives[CHOOSE k \in E :
                          \A j \in E : archives[j].last <= archives[k].last].digest
    BY DEF Archiving!Preceding
  <1> HIDE DEF E
  <1>6. CASE n = 0
    <2>1. 1..n = {}
      BY <1>6
    <2>2. QED
      BY <1>1, <1>5, <1>6, <1>d, <2>1 DEF LastDigest
  <1>7. CASE n # 0
    <2>1. n \in 1..n
      BY <1>2, <1>7
    <2>2. \A j \in 1..n : archives[j].last <= archives[n].last
      BY <1>2, <1>3, <1>4, <2>1
    <2>3. ASSUME NEW k \in 1..n, \A j \in 1..n : archives[j].last <= archives[k].last
          PROVE  k = n
      BY <1>2, <1>3, <1>4, <2>1, <2>3
    <2>4. (CHOOSE k \in 1..n : \A j \in 1..n : archives[j].last <= archives[k].last) = n
      BY <2>1, <2>2, <2>3
    <2>5. QED
      BY <1>1, <1>5, <1>7, <1>d, <2>1, <2>4 DEF LastDigest
  <1>8. QED
    BY <1>6, <1>7

LEMMA DigestBeforeIs ==
    ASSUME Timely, NEW k \in 1..Len(archives)
    PROVE  Archiving!DigestBefore(k) = LastDigest(k - 1)
  <1>1. DOMAIN archives = 1..Len(archives) /\ Len(archives) \in Nat
    BY DaysOf
  <1>2. \A j \in 1..Len(archives) : archives[j].first \in Int
    BY DEF Timely, InDays
  <1>3. \A i, j \in 1..Len(archives) : Archiving!Before(i, j) <=> i < j
    BY <1>1, <1>2, DaysOf DEF Archiving!Before
  <1> DEFINE E == {j \in DOMAIN archives : Archiving!Before(j, k)}
  <1>4. E = 1..(k - 1)
    BY <1>1, <1>3
  <1>d. Archiving!DigestBefore(k) =
          IF E = {} THEN Archiving!NoDigest
          ELSE archives[CHOOSE j \in E : \A i \in E \ {j} : Archiving!Before(i, j)].digest
    BY DEF Archiving!DigestBefore
  <1> HIDE DEF E
  <1>5. CASE k = 1
    <2>1. 1..(k - 1) = {} /\ k - 1 = 0
      BY <1>5
    <2>2. QED
      BY <1>4, <1>d, <2>1 DEF LastDigest
  <1>6. CASE k # 1
    <2>1. k - 1 \in 1..(k - 1) /\ k - 1 # 0 /\ 1..(k - 1) \subseteq 1..Len(archives)
      BY <1>1, <1>6
    <2>2. \A i \in (1..(k - 1)) \ {k - 1} : Archiving!Before(i, k - 1)
      BY <1>3, <2>1
    <2>3. ASSUME NEW j \in 1..(k - 1), \A i \in (1..(k - 1)) \ {j} :
                 Archiving!Before(i, j)
          PROVE  j = k - 1
      BY <1>3, <2>1, <2>3
    <2>4. (CHOOSE j \in 1..(k - 1) : \A i \in (1..(k - 1)) \ {j} : Archiving!Before(i,
            j)) = k - 1
      BY <2>1, <2>2, <2>3
    <2>5. 1..(k - 1) # {}
      BY <2>1
    <2>6. QED
      BY <1>4, <1>d, <2>1, <2>4, <2>5 DEF LastDigest
  <1>7. QED
    BY <1>5, <1>6

LEMMA TimelyHolds == ASSUME Timely PROVE Archiving!ArchivesHold
  BY DigestBeforeIs, DaysOf DEF Archiving!ArchivesHold, Timely, Digested

LEMMA ArchiveInit == Archiving!Init => ArchiveIInv
  <1>1. <<>> \in Seq({}) /\ Len(<<>>) = 0
    OBVIOUS
  <1>2. QED
    BY <1>1
       DEF Archiving!Init, ArchiveIInv, Timely, ArchivesTyped, InDays, Digested,
         OneFiles, Archiving!Stage

\* A step that leaves the archives and their rows, and gathers nothing new.
LEMMA ArchivesKept ==
    ASSUME Timely, archives' = archives, filing' = [r \in Requests |-> filing'[r]],
           \A r \in Requests :
             Archiving!Stage(r, "digested")' \subseteq Archiving!Stage(r, "digested"),
           logged' = logged
    PROVE  Timely'
  <1>1. ArchivesTyped' /\ InDays' /\ Digested' /\ OneFiles'
    BY DEF Timely, ArchivesTyped, InDays, Digested, OneFiles, LastDigest, Archiving!Rows
  <1>2. ASSUME NEW v, NextArchive(v) PROVE NextArchive(v)'
    BY <1>2 DEF NextArchive, LastDigest, Archiving!Rows
  <1>3. QED
    BY <1>1, <1>2 DEF Timely

LEMMA ArchiveStamp == ASSUME Timely, NEW r \in Requests, Archiving!Stamp(r) PROVE Timely'
  <1>1. /\ UNCHANGED <<archives, logged>>
        /\ filing' = [filing EXCEPT ![r] = {[stage |-> "stamped", day |-> today]}]
    BY DEF Archiving!Stamp
  <1>2. filing' = [q \in Requests |-> filing'[q]]
    BY <1>1 DEF Timely, ArchivesTyped
  <1>3. \A q \in Requests :
          Archiving!Stage(q, "digested")' \subseteq Archiving!Stage(q, "digested")
    BY <1>1 DEF Archiving!Stage, Timely, ArchivesTyped
  <1>4. QED
    BY <1>1, <1>2, <1>3, ArchivesKept

LEMMA ArchiveDie == ASSUME Timely, NEW r \in Requests, Archiving!Die(r) PROVE Timely'
  <1>1. /\ UNCHANGED <<archives, logged>> /\ filing' = [filing EXCEPT ![r] = {}]
    BY DEF Archiving!Die
  <1>2. filing' = [q \in Requests |-> filing'[q]]
    BY <1>1 DEF Timely, ArchivesTyped
  <1>3. \A q \in Requests :
          Archiving!Stage(q, "digested")' \subseteq Archiving!Stage(q, "digested")
    BY <1>1 DEF Archiving!Stage, Timely, ArchivesTyped
  <1>4. QED
    BY <1>1, <1>2, <1>3, ArchivesKept

LEMMA ArchiveTomorrow == ASSUME Timely, Archiving!Tomorrow PROVE Timely'
  <1>1. /\ UNCHANGED <<archives, logged, filing>>
    BY DEF Archiving!Tomorrow
  <1>2. QED
    BY <1>1, ArchivesKept DEF Archiving!Stage, Timely, ArchivesTyped

\* An entry of a day that no archive covers.
LEMMA ArchiveInsert ==
    ASSUME Timely, NEW r \in Requests, Archiving!Insert(r), ~untimely'
    PROVE  Timely'
  <1>1. PICK v \in Archiving!Stage(r, "stamped") :
          /\ logged' =
               logged \cup {[day |-> v.day, key |-> Archiving!Cardinality(logged) + 1]}
          /\ filing' = [filing EXCEPT ![r] = {}]
          /\ \A k \in DOMAIN archives : ~(v.day <= archives[k].last)
          /\ \A q \in Requests : Archiving!Stage(q, "digested") = {}
          /\ archives' = archives
    BY DEF Archiving!Insert
  <1>2. PICK e : e = [day |-> v.day, key |-> Archiving!Cardinality(logged) + 1]
    OBVIOUS
  <1>3. e.day = v.day /\ logged' = logged \cup {e}
    BY <1>1, <1>2
  <1>4. \A k \in 1..Len(archives) : Archiving!Rows(archives[k].first, archives[k].last)'
                                      = Archiving!Rows(archives[k].first,
                                        archives[k].last)
    BY <1>1, <1>3, DaysOf DEF Archiving!Rows
  <1>5. ArchivesTyped'
    BY <1>1 DEF Timely, ArchivesTyped
  <1>6. \A q \in Requests : Archiving!Stage(q, "digested")' = {}
    BY <1>1 DEF Archiving!Stage, Timely, ArchivesTyped
  <1>7. InDays'
    BY <1>1 DEF Timely, InDays
  <1>8. Digested'
    BY <1>1, <1>4 DEF Timely, Digested, LastDigest
  <1>9. QED
    BY <1>5, <1>6, <1>7, <1>8 DEF Timely, OneFiles

LEMMA ArchiveGather ==
    ASSUME Timely, NEW r \in Requests, NEW first \in 1..LastDay, NEW last \in 1..LastDay,
           Archiving!Gather(r, first, last), ~untimely'
    PROVE  Timely'
  <1>1. PICK v : v = [stage |-> "digested", first |-> first, last |-> last,
                      digest |-> Archiving!Digest(Archiving!Preceding(last),
                        Archiving!Rows(first, last))]
    OBVIOUS
  <1>2. /\ filing' = [filing EXCEPT ![r] = {v}] /\ first <= last
        /\ \A q \in Requests : filing[q] = {}
        /\ \A k \in DOMAIN archives : ~(archives[k].last >= first)
        /\ UNCHANGED <<logged, archives>>
    BY <1>1 DEF Archiving!Gather
  <1>3. first \in Int /\ last \in Int
    OBVIOUS
  <1>4. \A k \in DOMAIN archives : archives[k].last < first
    BY <1>2, <1>3, DaysOf DEF Timely, InDays
  <1>5. /\ v.first = first /\ v.last = last /\ v.stage = "digested"
        /\ v.digest =
             Archiving!Digest(LastDigest(Len(archives)), Archiving!Rows(first, last))
    BY <1>1, <1>2, <1>3, <1>4, PrecedingIsLast
  <1>6. NextArchive(v)
    BY <1>2, <1>3, <1>4, <1>5, DaysOf DEF NextArchive
  <1>7. NextArchive(v)'
    BY <1>2, <1>6 DEF NextArchive, LastDigest, Archiving!Rows
  <1>8. ArchivesTyped'
    BY <1>2 DEF Timely, ArchivesTyped
  <1>9. \A q \in Requests : filing'[q] = IF q = r THEN {v} ELSE {}
    BY <1>2 DEF Timely, ArchivesTyped
  <1>10. \A q \in Requests : \A w \in Archiving!Stage(q, "digested")' : NextArchive(w)'
    BY <1>7, <1>9 DEF Archiving!Stage
  <1>11. OneFiles'
    BY <1>9 DEF OneFiles, Archiving!Stage
  <1>12. InDays' /\ Digested'
    BY <1>2 DEF Timely, InDays, Digested, LastDigest, Archiving!Rows
  <1>13. QED
    BY <1>8, <1>10, <1>11, <1>12 DEF Timely

LEMMA ArchiveFile == ASSUME Timely, NEW r \in Requests, Archiving!File(r) PROVE Timely'
  <1>1. PICK v \in Archiving!Stage(r, "digested") :
          /\ archives' = IF \E k \in DOMAIN archives :
                              archives[k].first = v.first /\ archives[k].last = v.last
                         THEN archives
                         ELSE Append(archives,
                                [first |-> v.first, last |-> v.last, digest |-> v.digest])
          /\ filing' = [filing EXCEPT ![r] = {}]
          /\ logged' = logged
    BY DEF Archiving!File
  <1>2. filing' = [q \in Requests |-> filing'[q]]
    BY <1>1 DEF Timely, ArchivesTyped
  <1>3. \A q \in Requests : Archiving!Stage(q, "digested")' = {}
    BY <1>1 DEF Archiving!Stage, Timely, ArchivesTyped, OneFiles
  <1>4. CASE archives' = archives
    BY <1>1, <1>2, <1>3, <1>4, ArchivesKept
  <1>5. CASE archives' # archives
    <2>1. PICK a : a = [first |-> v.first, last |-> v.last, digest |-> v.digest]
      OBVIOUS
    <2>2. /\ archives' = Append(archives, a)
          /\ a.first = v.first /\ a.last = v.last /\ a.digest = v.digest
      BY <1>1, <1>5, <2>1
    <2>3. PICK S : archives \in Seq(S)
      BY DEF Timely, ArchivesTyped
    <2>4. PICK n : n = Len(archives)
      OBVIOUS
    <2>5. archives \in Seq(S \cup {a}) /\ n \in Nat
      BY <2>3, <2>4
    <2>6. /\ archives' \in Seq(S \cup {a}) /\ Len(archives') = n + 1
          /\ archives'[n + 1] = a /\ \A k \in 1..n : archives'[k] = archives[k]
      BY <2>2, <2>4, <2>5, AppendProperties
    <2>7. NextArchive(v)
      BY DEF Timely
    <2>8. InDays'
      <3>1. \A k \in 1..n : archives[k].last < v.first
        BY <2>4, <2>7 DEF NextArchive
      <3>2. /\ v.first \in Int /\ v.last \in Int /\ v.first <= v.last
        BY <2>7 DEF NextArchive
      <3>3. /\ \A k \in 1..n : /\ archives[k].first \in Int /\ archives[k].last \in Int
                               /\ archives[k].first <= archives[k].last
            /\ \A j, k \in 1..n : j < k => archives[j].last < archives[k].first
        BY <2>4 DEF Timely, InDays
      <3>4. QED
        BY <2>2, <2>5, <2>6, <3>1, <3>2, <3>3 DEF InDays
    <2>9. Digested'
      <3>1. \A x, y : Archiving!Rows(x, y)' = Archiving!Rows(x, y)
        BY <1>1 DEF Archiving!Rows
      <3>2. \A k \in 0..n : LastDigest(k)' = LastDigest(k)
        BY <2>5, <2>6 DEF LastDigest
      <3>3. a.digest = Archiving!Digest(LastDigest(n), Archiving!Rows(a.first, a.last))
        BY <2>2, <2>4, <2>7 DEF NextArchive
      <3>4. ASSUME NEW k \in 1..(n + 1)
            PROVE  (archives[k].digest =
                      Archiving!Digest(LastDigest(k - 1),
                        Archiving!Rows(archives[k].first, archives[k].last)))'
        <4>1. k - 1 \in 0..n
          BY <2>5
        <4>2. CASE k \in 1..n
          BY <2>4, <2>6, <3>1, <3>2, <4>1, <4>2 DEF Timely, Digested
        <4>3. CASE k = n + 1
          BY <2>5, <2>6, <3>1, <3>2, <3>3, <4>1, <4>3
        <4>4. QED
          BY <2>5, <4>2, <4>3
      <3>5. QED
        BY <2>6, <3>4 DEF Digested, Archiving!Digest
    <2>10. QED
      BY <1>2, <1>3, <2>6, <2>8, <2>9 DEF Timely, ArchivesTyped, OneFiles
  <1>6. QED
    BY <1>4, <1>5

LEMMA ArchiveStep ==
    ASSUME ArchiveIInv, [Archiving!Next]_(Archiving!vars)
    PROVE  ArchiveIInv'
  <1>1. SUFFICES ASSUME ~untimely' PROVE Timely'
    BY DEF ArchiveIInv
  <1>2. CASE UNCHANGED Archiving!vars
    <2>1. Timely /\ UNCHANGED <<archives, logged, filing>>
      BY <1>1, <1>2 DEF Archiving!vars, ArchiveIInv
    <2>2. QED
      BY <2>1, ArchivesKept DEF Archiving!Stage, Timely, ArchivesTyped
  <1>3. CASE Archiving!Next
    <2>1. Timely
      <3>1. ASSUME NEW r \in Requests, Archiving!Stamp(r) \/ Archiving!File(r)
            PROVE  untimely' = untimely
        BY <3>1 DEF Archiving!Stamp, Archiving!File
      <3>2. ASSUME NEW r \in Requests, Archiving!Insert(r) PROVE ~untimely
        BY <1>1, <3>2 DEF Archiving!Insert
      <3>3. ASSUME NEW r \in Requests, Archiving!Die(r) PROVE untimely' = untimely
        BY <3>3 DEF Archiving!Die
      <3>4. ASSUME NEW r \in Requests, NEW first, NEW last,
                   Archiving!Gather(r, first, last)
            PROVE ~untimely
        BY <1>1, <3>4 DEF Archiving!Gather
      <3>5. ASSUME Archiving!Tomorrow PROVE untimely' = untimely
        BY <3>5 DEF Archiving!Tomorrow
      <3>6. ~untimely
        BY <1>1, <1>3, <3>1, <3>2, <3>3, <3>4, <3>5 DEF Archiving!Next
      <3>7. QED
        BY <3>6 DEF ArchiveIInv
    <2>2. QED
      BY <1>1, <1>3, <2>1, ArchiveStamp, ArchiveDie, ArchiveTomorrow, ArchiveInsert,
         ArchiveGather, ArchiveFile DEF Archiving!Next
  <1>4. QED
    BY <1>2, <1>3

LEMMA ArchiveSpecIInv == Archiving!Spec => []ArchiveIInv
  <1>1. ArchiveIInv /\ [Archiving!Next]_(Archiving!vars) => ArchiveIInv'
    BY ArchiveStep
  <1>2. QED
    BY <1>1, ArchiveInit, PTL DEF Archiving!Spec

LEMMA ArchivesHoldUp == Archiving!Spec => []Archiving!ArchivesVerify
  <1>1. ArchiveIInv => Archiving!ArchivesVerify
    BY TimelyHolds DEF ArchiveIInv, Archiving!ArchivesVerify
  <1>2. QED
    BY <1>1, ArchiveSpecIInv, PTL

----------------------------------------------------------------------------
\* A behaviour of them together is, of each of them, a behaviour.

LEMMA ScenesApprovals == ScenesSpec => Spec
  <1>1. ScenesInit => Init
    BY DEF ScenesInit
  <1>2. [ScenesNext]_sceneVars => [Next]_vars
    BY DEF ScenesNext, DocumentNext, SignalNext, sceneVars, documentVars, signalVars, vars
  <1>3. QED
    BY <1>1, <1>2, PTL DEF ScenesSpec, Spec

LEMMA ScenesReleasing == ScenesSpec => Releasing!Spec
  <1>1. ScenesInit => Releasing!Init
    BY DEF ScenesInit
  <1>2. [ScenesNext]_sceneVars => [Releasing!Next]_(Releasing!vars)
    BY DEF ScenesNext, DocumentNext, SignalNext, sceneVars, documentVars, signalVars,
           releaseVars, Releasing!vars
  <1>3. QED
    BY <1>1, <1>2, PTL DEF ScenesSpec, Releasing!Spec

LEMMA ScenesHolding == ScenesSpec => Holding!Spec
  <1>1. ScenesInit => Holding!Init
    BY DEF ScenesInit
  <1>2. [ScenesNext]_sceneVars => [Holding!Next]_(Holding!vars)
    BY DEF ScenesNext, DocumentNext, SignalNext, sceneVars, documentVars, signalVars,
           holdVars, Holding!vars
  <1>3. QED
    BY <1>1, <1>2, PTL DEF ScenesSpec, Holding!Spec

LEMMA ScenesCosting == ScenesSpec => Costing!Spec
  <1>1. ScenesInit => Costing!Init
    BY DEF ScenesInit
  <1>2. [ScenesNext]_sceneVars => [Costing!Next]_(Costing!vars)
    BY DEF ScenesNext, DocumentNext, SignalNext, sceneVars, documentVars, signalVars,
           jobVars, Costing!vars
  <1>3. QED
    BY <1>1, <1>2, PTL DEF ScenesSpec, Costing!Spec

LEMMA ScenesCounting == ScenesSpec => Counting!Spec
  <1>1. ScenesInit => Counting!Init
    BY DEF ScenesInit
  <1>2. [ScenesNext]_sceneVars => [Counting!Next]_(Counting!vars)
    BY DEF ScenesNext, DocumentNext, SignalNext, sceneVars, documentVars, signalVars,
           countVars, Counting!vars
  <1>3. QED
    BY <1>1, <1>2, PTL DEF ScenesSpec, Counting!Spec

LEMMA ScenesDispatching == ScenesSpec => Dispatching!Spec
  <1>1. ScenesInit => Dispatching!Init
    BY DEF ScenesInit
  <1>2. [ScenesNext]_sceneVars => [Dispatching!Next]_(Dispatching!vars)
    BY DEF ScenesNext, DocumentNext, SignalNext, sceneVars, documentVars, signalVars,
           dispatchVars, Dispatching!vars
  <1>3. QED
    BY <1>1, <1>2, PTL DEF ScenesSpec, Dispatching!Spec

LEMMA ScenesAuditing == ScenesSpec => Auditing!Spec
  <1>1. ScenesInit => Auditing!Init
    BY DEF ScenesInit
  <1>2. [ScenesNext]_sceneVars => [Auditing!Next]_(Auditing!vars)
    BY DEF ScenesNext, DocumentNext, SignalNext, sceneVars, documentVars, signalVars,
           trailVars, Auditing!vars
  <1>3. QED
    BY <1>1, <1>2, PTL DEF ScenesSpec, Auditing!Spec

LEMMA ScenesDeriving == ScenesSpec => Deriving!Spec
  <1>1. ScenesInit => Deriving!Init
    BY DEF ScenesInit
  <1>2. [ScenesNext]_sceneVars => [Deriving!Next]_(Deriving!vars)
    BY DEF ScenesNext, DocumentNext, SignalNext, sceneVars, documentVars, signalVars,
           derivedVars, Deriving!vars
  <1>3. QED
    BY <1>1, <1>2, PTL DEF ScenesSpec, Deriving!Spec

LEMMA ScenesChaining == ScenesSpec => Chaining!Spec
  <1>1. ScenesInit => Chaining!Init
    BY DEF ScenesInit
  <1>2. [ScenesNext]_sceneVars => [Chaining!Next]_(Chaining!vars)
    BY DEF ScenesNext, DocumentNext, SignalNext, sceneVars, documentVars, signalVars,
           chainVars, Chaining!vars
  <1>3. QED
    BY <1>1, <1>2, PTL DEF ScenesSpec, Chaining!Spec

LEMMA ScenesArchiving == ScenesSpec => Archiving!Spec
  <1>1. ScenesInit => Archiving!Init
    BY DEF ScenesInit
  <1>2. [ScenesNext]_sceneVars => [Archiving!Next]_(Archiving!vars)
    BY DEF ScenesNext, DocumentNext, SignalNext, sceneVars, documentVars, signalVars,
           archiveVars, Archiving!vars
  <1>3. QED
    BY <1>1, <1>2, PTL DEF ScenesSpec, Archiving!Spec

\* However many approvals race, and whichever of them set the level back, a
\* request reaches approved only with an approval logged at every level of its
\* policy, if the policy was not edited meanwhile and it was not the signal of its
\* document request that approved it.
THEOREM EveryLevelApproves == ScenesSpec => []ApprovedThroughEveryLevel
  BY ScenesApprovals, ApprovalsComplete, PTL

\* Every step moves consumed_quantity by what the releases in force take or give
\* back, but for a cancellation or a line written by a request that had loaded
\* the release as a draft and lands after consume_release.
THEOREM ConsumptionKept == ScenesSpec => ConsumptionFollowsReleases
  BY ScenesReleasing, ReleaseFollows, ServicesAssumption, PTL
     DEF ConsumptionFollowsReleases

\* A document under an active hold loses its lock only to the release or edit of
\* another hold that had looked at the holds before this one was there, or to a
\* document form that had loaded it unlocked.
THEOREM HeldDocumentsStayLocked == ScenesSpec => LockedWhileHeld
  BY ScenesHolding, HoldKeepsLocks, PTL DEF LockedWhileHeld

\* The total of a job moves with the sum of its entries in every step but a
\* deletion that had loaded another total, or an entry that is no longer there.
THEOREM TotalMovesWithEntries == ScenesSpec => TotalFollowsEntries
  BY ScenesCosting, JobFollows, ServicesAssumption, PTL DEF TotalFollowsEntries

\* The bin moves by the variance of a document in the step that ends it, and by
\* nothing else, but for a shortage cut off at zero and for the line or the
\* deletion of a document that was a draft when loaded and is posted by then.
THEOREM VarianceMovesOnce == ScenesSpec => VariancePostedOnce
  BY ScenesCounting, CountPostsOnce, ServicesAssumption, PTL DEF VariancePostedOnce

\* A second live work order of a production order comes only from a dispatch that
\* had looked before the first one was there, or from the form of a work order
\* that was cancelled or deleted after the form had loaded it.
THEOREM OrderDispatchedOnce == ScenesSpec => OneWorkOrder
  BY ScenesDispatching, DispatchOnce, PTL DEF OneWorkOrder

\* The latest entry of the audit log tells the status of the row, whichever way
\* the handlers remember it, unless a change has escaped them.
THEOREM TrailTellsStatus == ScenesSpec => []TrailFollowsStatus
  BY ScenesAuditing, TrailFollows, ServicesAssumption, PTL DEF TrailFollowsStatus

\* A handler that looks, or marks the source, derives one row of a source row
\* unless requests on it have overlapped; one with a unique key, whatever they do.
\* Handlers with none of the three ways are exempt.
THEOREM OneRowDerived == ScenesSpec => []DerivedOnce
  BY ScenesDeriving, DerivedOnceHolds, ServicesAssumption, PTL DEF DerivedOnce

\* A deleted source row leaves no derived row in force if its handler undoes what
\* it derived, unless requests on the source overlapped or the undo failed.
THEOREM DeletionUndone == ScenesSpec => []UndoneWithSource
  BY ScenesDeriving, UndoneHolds, ServicesAssumption, PTL DEF UndoneWithSource

\* A log to which requests have appended one at a time, and of which no user has
\* been deleted, passes verify_chain.
THEOREM HonestLogVerifies == ScenesSpec => []ChainVerifies
  BY ScenesChaining, ChainHolds, PTL DEF ChainVerifies

\* Archives that were filed in turn, after their days were over and with no entry
\* still under way, verify.
THEOREM TimelyArchivesVerify == ScenesSpec => []ArchivesVerify
  BY ScenesArchiving, ArchivesHoldUp, PTL DEF ArchivesVerify

=============================================================================
