------------------------ MODULE ModelDeploymentProofs ------------------------
(***************************************************************************)
(* Theorems about ModelDeployment for any number of callers, models, runs,  *)
(* assets and calls, and any interleaving of their statements.              *)
(***************************************************************************)
EXTENDS ModelDeployment, WellFoundedInduction, TLAPS

\* Where a call can be.
Places ==
    {"idle", "p_run", "p_appr", "p_see", "p_parent",
     "a_appr", "a_rev", "a_cand", "a_see", "a_models", "a_flush", "a_revs", "a_run",
     "j_appr", "j_rev", "j_run",
     "r_see_cur", "r_cur", "r_rev", "r_cand", "r_see", "r_models", "r_flush",
     "s_see", "s_off", "s_on", "d_del"}

Approving == {"a_rev", "a_cand", "a_see", "a_models", "a_flush", "a_revs", "a_run"}
Rejecting == {"j_rev", "j_run"}
\* The call has a revision that is known to exist.
HasRevision == (Approving \ {"a_rev"}) \cup {"j_run", "r_rev", "r_cand", "r_see", "r_models", "r_flush"}
\* The call has locked its candidate.
HasCandidate == {"a_see", "a_models", "a_flush", "a_revs", "a_run", "r_see", "r_models", "r_flush"}

RevRow == [run : Runs, parent : Nat, status : RevStates]
ApprRow == [run : Runs, target : Nat, action : {"ACTIVATE", "ROLLBACK"}, status : ApprStates]
Lock == ({"run", "appr", "rev", "model"} \X Nat) \cup ({"slot"} \X Assets)
TxRow == [pc : Places, arg : Nat, saw : SUBSET Nat, rev : Nat, old : SUBSET Nat,
          prev : SUBSET Nat, held : SUBSET Lock, seen : RunStates \cup {"none"}]

Typed ==
    /\ assetOf \in [Models -> Assets]
    /\ exists \subseteq Models /\ active \subseteq exists
    /\ run \in [Runs -> RunStates]
    /\ revs \in Seq(RevRow) /\ apprs \in Seq(ApprRow)
    /\ tx \in [Callers -> TxRow]

ParentsExist == \A i \in 1..Len(revs) : revs[i].parent \in 0..Len(revs)

\* Row locks and the index entry exclude each other.
LocksExclude == \A c, d \in Callers : c # d => tx[c].held \cap tx[d].held = {}

\* No two versions serve one asset: the unique index keeps a second one out.
OneActiveModel == \A m, k \in active : assetOf[m] = assetOf[k] => m = k

\* A human approved revision i.
Approved(i) == \E k \in 1..Len(apprs) : apprs[k].target = i /\ apprs[k].status = "APPROVED"

\* The ids a call works with are ids of rows.
ArgsExist(t) ==
    /\ t.pc \in {"p_run", "p_appr", "p_see", "p_parent"} => t.arg \in Runs
    /\ t.pc \in {"a_appr", "j_appr"} \cup Approving \cup Rejecting => t.arg \in 1..Len(apprs)
    /\ t.pc \in {"r_see_cur", "r_cur"} => t.arg \in 0..Len(revs)
    /\ t.pc \in HasRevision => t.rev \in 1..Len(revs)
    /\ t.pc \in {"s_see", "s_off", "s_on", "d_del"} => t.arg \in Models

\* A request under decision is locked and still open; an approval's is for the
\* revision that the call works on.
RequestOpen(t) ==
    t.pc \in Approving \cup Rejecting =>
        /\ <<"appr", t.arg>> \in t.held /\ apprs[t.arg].status = "PENDING"
        /\ t.pc \in Approving => apprs[t.arg].target = t.rev

\* The candidate's row is locked, so it is still there.
CandidateLocked(t) ==
    t.pc \in HasCandidate =>
        <<"model", CandOf(t.rev)>> \in t.held /\ CandOf(t.rev) \in exists

\* Only versions of the candidate's asset are switched off.
SwitchesOwnAsset(t) ==
    /\ t.pc \in {"a_models", "r_models"} =>
         \A k \in t.saw : assetOf[k] = assetOf[CandOf(t.rev)]
    /\ t.pc \in {"a_flush", "r_flush", "a_revs", "a_run"} =>
         \A k \in t.old : assetOf[k] = assetOf[CandOf(t.rev)]

\* Once the flags are flushed, the index entry of the asset is this call's and
\* every other version that serves the asset is one it switches off.
SlotTaken(t) ==
    t.pc \in {"a_revs", "a_run"} =>
        /\ Slot(CandOf(t.rev)) \in t.held
        /\ \A k \in active : k # CandOf(t.rev) /\ assetOf[k] = assetOf[CandOf(t.rev)] => k \in t.old

\* What a call will supersede, roll back or make live again was approved once.
ApprovedBefore(t) ==
    /\ t.pc \in {"a_run", "r_rev", "r_cand", "r_see", "r_models", "r_flush"} =>
         \A i \in t.prev : Approved(i)
    /\ t.pc \in {"r_cand", "r_see", "r_models", "r_flush"} => Approved(t.rev)

TxOK(t) ==
    /\ ArgsExist(t)
    /\ RequestOpen(t)
    /\ CandidateLocked(t)
    /\ SwitchesOwnAsset(t)
    /\ SlotTaken(t)
    /\ ApprovedBefore(t)

MInv ==
    /\ Typed
    /\ ParentsExist
    /\ LocksExclude
    /\ \A c \in Callers : TxOK(tx[c])
    /\ OneActiveModel
    /\ LiveWasApproved

-----------------------------------------------------------------------------
(* Facts about the operators.                                               *)

\* ORDER BY id DESC LIMIT 1: a bounded set of ids has a highest one.
LEMMA HighestExists ==
    ASSUME NEW n \in Nat, NEW S, S \subseteq 1..n, S # {}
    PROVE  Highest(S) \in S
<1> DEFINE T == {n - i : i \in S}
<1>1. T \subseteq Nat
  <2> SUFFICES ASSUME NEW i \in S PROVE n - i \in Nat
    OBVIOUS
  <2>1. i \in 1..n
    OBVIOUS
  <2> QED
    BY <2>1
<1>2. T # {}
  OBVIOUS
<1> HIDE DEF T
<1>3. \E R : IsWellFoundedOn(R, Nat) /\ \A x, y \in Nat : y < x => <<y, x>> \in R
  <2>1. \A x, y \in Nat : y < x => <<y, x>> \in OpToRel(<, Nat)
    BY DEF OpToRel
  <2> QED
    BY <2>1, NatLessThanWellFounded, Zenon
<1>4. PICK R : IsWellFoundedOn(R, Nat) /\ \A x, y \in Nat : y < x => <<y, x>> \in R
  BY <1>3
<1>5. PICK x \in T : \A y \in T : ~(<<y, x>> \in R)
  BY <1>1, <1>2, <1>4, WFMin
<1>6. \A y \in T : x <= y
  <2> SUFFICES ASSUME NEW y \in T PROVE x <= y
    OBVIOUS
  <2>1. x \in Nat /\ y \in Nat
    BY <1>1
  <2>2. ~(y < x)
    BY <1>4, <1>5, <2>1, Zenon
  <2> QED
    BY <2>1, <2>2
<1>7. PICK i \in S : x = n - i
  BY <1>5 DEF T
<1>8. \A j \in S : j <= i
  <2> SUFFICES ASSUME NEW j \in S PROVE j <= i
    OBVIOUS
  <2>1. n - j \in T
    BY DEF T
  <2>2. n - i <= n - j
    BY <1>6, <1>7, <2>1
  <2> QED
    BY <2>2
<1> QED
  BY <1>8 DEF Highest

\* A call between two transactions.
LEMMA IdleTyped == Idle \in TxRow /\ Idle.held = {} /\ Idle.pc = "idle"
BY DEF Idle, TxRow, Places

\* An idle caller owes nothing.
LEMMA IdleOK == TxOK(Idle)
BY IdleTyped DEF TxOK, ArgsExist, RequestOpen, CandidateLocked, SwitchesOwnAsset, SlotTaken,
     ApprovedBefore, Approving, Rejecting, HasRevision, HasCandidate

-----------------------------------------------------------------------------
(* Two ways a step can go: it moves a call, or it ends one.                 *)

\* What a call d relies on survives a step of c that keeps the identity of the
\* rows, decides only requests c has locked, deletes only versions nobody has
\* locked and switches on only versions of an asset whose index entry d lacks.
LEMMA OthersRely ==
    ASSUME MInv, NEW c \in Callers, NEW d \in Callers, c # d, tx'[d] = tx[d],
           assetOf' = assetOf, Len(revs') \in Nat, Len(apprs') \in Nat,
           Len(revs) <= Len(revs'), \A i \in 1..Len(revs) : revs'[i].run = revs[i].run,
           Len(apprs) <= Len(apprs'),
           \A i \in 1..Len(apprs) :
               /\ apprs'[i].target = apprs[i].target
               /\ \/ apprs'[i].status = apprs[i].status
                  \/ apprs[i].status = "PENDING" /\ <<"appr", i>> \in tx[c].held,
           \A k \in exists \ exists' : Free(c, Row("model", {k})),
           \A k \in active' \ active : Slot(k) \notin tx[d].held
    PROVE  TxOK(tx[d])'
<1> DEFINE t == tx[d]
<1>1. /\ TxOK(t) /\ t \in TxRow
      /\ revs \in Seq(RevRow) /\ apprs \in Seq(ApprRow)
      /\ t.held \cap tx[c].held = {}
  BY DEF MInv, Typed, LocksExclude
<1>2. Len(revs) \in Nat /\ Len(apprs) \in Nat
  BY <1>1
<1>3. /\ 1..Len(revs) \subseteq 1..Len(revs') /\ 0..Len(revs) \subseteq 0..Len(revs')
      /\ 1..Len(apprs) \subseteq 1..Len(apprs')
  BY <1>2
<1>4. \A i \in 1..Len(revs) : CandOf(i)' = CandOf(i)
  BY DEF CandOf, Cand
<1>5. \A i : Approved(i) =>
        \E k \in 1..Len(apprs') : apprs'[k].target = i /\ apprs'[k].status = "APPROVED"
  BY <1>3 DEF Approved
<1>6. ArgsExist(t)
  BY <1>1 DEF TxOK
<1>7. ArgsExist(tx[d])'
  BY <1>3, <1>6 DEF ArgsExist
<1>8. RequestOpen(tx[d])'
  <2>1. RequestOpen(t)
    BY <1>1 DEF TxOK
  <2> SUFFICES ASSUME t.pc \in Approving \cup Rejecting
               PROVE  /\ <<"appr", t.arg>> \in t.held /\ apprs'[t.arg].status = "PENDING"
                      /\ t.pc \in Approving => apprs'[t.arg].target = t.rev
    BY DEF RequestOpen
  <2>2. /\ t.arg \in 1..Len(apprs)
        /\ <<"appr", t.arg>> \in t.held /\ apprs[t.arg].status = "PENDING"
        /\ t.pc \in Approving => apprs[t.arg].target = t.rev
    BY <1>6, <2>1 DEF ArgsExist, RequestOpen
  <2>3. <<"appr", t.arg>> \notin tx[c].held
    BY <1>1, <2>2
  <2> QED
    BY <2>2, <2>3
<1>9. t.pc \in HasRevision => t.rev \in 1..Len(revs) /\ CandOf(t.rev)' = CandOf(t.rev)
  BY <1>4, <1>6 DEF ArgsExist
<1>10. /\ HasCandidate \subseteq HasRevision
       /\ {"a_models", "r_models", "a_flush", "r_flush", "a_revs", "a_run"} \subseteq HasRevision
  BY DEF HasCandidate, HasRevision, Approving
<1>11. CandidateLocked(tx[d])'
  <2>1. CandidateLocked(t)
    BY <1>1 DEF TxOK
  <2> SUFFICES ASSUME t.pc \in HasCandidate
               PROVE  <<"model", CandOf(t.rev)'>> \in t.held /\ CandOf(t.rev)' \in exists'
    BY DEF CandidateLocked, CandOf
  <2>2. /\ CandOf(t.rev)' = CandOf(t.rev)
        /\ <<"model", CandOf(t.rev)>> \in t.held /\ CandOf(t.rev) \in exists
    BY <1>9, <1>10, <2>1 DEF CandidateLocked
  <2>3. ~Free(c, Row("model", {CandOf(t.rev)}))
    BY <2>2 DEF Free, Row
  <2> QED
    BY <2>2, <2>3
<1>12. SwitchesOwnAsset(tx[d])'
  <2>1. SwitchesOwnAsset(t)
    BY <1>1 DEF TxOK
  <2> QED
    BY <1>9, <1>10, <2>1 DEF SwitchesOwnAsset
<1>13. SlotTaken(tx[d])'
  <2>1. SlotTaken(t)
    BY <1>1 DEF TxOK
  <2> SUFFICES ASSUME t.pc \in {"a_revs", "a_run"}
               PROVE  /\ Slot(CandOf(t.rev))' \in t.held
                      /\ \A k \in active' : k # CandOf(t.rev)' /\ assetOf[k] = assetOf[CandOf(t.rev)'] => k \in t.old
    BY DEF SlotTaken, Slot
  <2>2. /\ CandOf(t.rev)' = CandOf(t.rev) /\ Slot(CandOf(t.rev)) \in t.held
        /\ \A k \in active : k # CandOf(t.rev) /\ assetOf[k] = assetOf[CandOf(t.rev)] => k \in t.old
    BY <1>9, <1>10, <2>1 DEF SlotTaken
  <2>3. Slot(CandOf(t.rev))' = Slot(CandOf(t.rev))
    BY <2>2 DEF Slot
  <2>4. ASSUME NEW k \in active' \ active PROVE assetOf[k] # assetOf[CandOf(t.rev)]
    BY <2>2 DEF Slot
  <2> QED
    BY <2>2, <2>3, <2>4
<1>14. ApprovedBefore(tx[d])'
  <2>1. ApprovedBefore(t)
    BY <1>1 DEF TxOK
  <2>2. /\ t.pc \in {"a_run", "r_rev", "r_cand", "r_see", "r_models", "r_flush"} =>
             \A i \in t.prev : \E k \in 1..Len(apprs') :
                 apprs'[k].target = i /\ apprs'[k].status = "APPROVED"
        /\ t.pc \in {"r_cand", "r_see", "r_models", "r_flush"} =>
             \E k \in 1..Len(apprs') :
                 apprs'[k].target = t.rev /\ apprs'[k].status = "APPROVED"
    BY <1>5, <2>1 DEF ApprovedBefore
  <2> HIDE DEF t
  <2>3. tx'[d] = t
    BY DEF t
  <2> QED
    BY <2>2, <2>3 DEF ApprovedBefore, Approved
<1> QED
  BY <1>7, <1>8, <1>11, <1>12, <1>13, <1>14 DEF TxOK

tablesSame == UNCHANGED <<assetOf, exists, active, run, revs, apprs>>

\* A statement that writes nothing visible: the call has a new row, and the
\* locks L it may have gained were free.
LEMMA TxStep ==
    ASSUME MInv, NEW c \in Callers, NEW t \in TxRow, Moves(c, t), tablesSame, TxOK(t),
           NEW L, Free(c, L), t.held \subseteq tx[c].held \cup L
    PROVE  MInv'
<1>1. tx \in [Callers -> TxRow] /\ revs \in Seq(RevRow) /\ apprs \in Seq(ApprRow)
  BY DEF MInv, Typed
<1>2. tx' \in [Callers -> TxRow] /\ tx'[c] = t /\ \A d \in Callers \ {c} : tx'[d] = tx[d]
  BY <1>1 DEF Moves
<1>3. UNCHANGED <<assetOf, exists, active, run, revs, apprs>>
  BY DEF tablesSame
<1>4. Typed' /\ ParentsExist' /\ OneActiveModel' /\ LiveWasApproved'
  BY <1>2, <1>3 DEF MInv, Typed, ParentsExist, OneActiveModel, LiveWasApproved
<1>5. LocksExclude'
  BY <1>2 DEF MInv, LocksExclude, Free
<1>6. TxOK(tx[c])'
  <2>1. TxOK(t)
    OBVIOUS
  <2>2. \A i : Approved(i)' <=> Approved(i)
    BY <1>3 DEF Approved
  <2>3. CandOf(t.rev)' = CandOf(t.rev) /\ \A k : Slot(k)' = Slot(k)
    BY <1>3 DEF CandOf, Slot
  <2>4. ArgsExist(tx[c])' /\ RequestOpen(tx[c])'
    BY <1>2, <1>3, <2>1 DEF TxOK, ArgsExist, RequestOpen
  <2>5. CandidateLocked(tx[c])' /\ SwitchesOwnAsset(tx[c])'
    BY <1>2, <1>3, <2>1 DEF TxOK, CandidateLocked, SwitchesOwnAsset, CandOf
  <2>6. SlotTaken(tx[c])'
    BY <1>2, <1>3, <2>1 DEF TxOK, SlotTaken, CandOf, Slot
  <2>7. ApprovedBefore(tx[c])'
    BY <1>2, <2>1, <2>2 DEF TxOK, ApprovedBefore
  <2> QED
    BY <2>4, <2>5, <2>6, <2>7 DEF TxOK
<1>7. Len(revs') \in Nat /\ Len(apprs') \in Nat /\ Len(revs) <= Len(revs') /\ Len(apprs) <= Len(apprs')
  BY <1>1, <1>3
<1>8. ASSUME NEW d \in Callers \ {c} PROVE TxOK(tx[d])'
  BY <1>2, <1>3, <1>7, OthersRely
<1> QED
  BY <1>4, <1>5, <1>6, <1>8 DEF MInv

\* The end of a transaction, with whatever it wrote.
LEMMA EndStep ==
    ASSUME MInv, NEW c \in Callers, Ends(c),
           assetOf' = assetOf, exists' \subseteq Models, active' \subseteq exists',
           run' \in [Runs -> RunStates], revs' \in Seq(RevRow), apprs' \in Seq(ApprRow),
           Len(revs) <= Len(revs'), \A i \in 1..Len(revs) : revs'[i].run = revs[i].run,
           Len(apprs) <= Len(apprs'),
           \A i \in 1..Len(apprs) :
               /\ apprs'[i].target = apprs[i].target
               /\ \/ apprs'[i].status = apprs[i].status
                  \/ apprs[i].status = "PENDING" /\ <<"appr", i>> \in tx[c].held,
           \A k \in exists \ exists' : Free(c, Row("model", {k})),
           \A k \in active' \ active : Free(c, {Slot(k)}) \/ Slot(k) \in tx[c].held,
           ParentsExist', OneActiveModel', LiveWasApproved'
    PROVE  MInv'
<1>1. tx \in [Callers -> TxRow]
  BY DEF MInv, Typed
<1>2. tx' \in [Callers -> TxRow] /\ tx'[c] = Idle /\ \A d \in Callers \ {c} : tx'[d] = tx[d]
  BY <1>1, IdleTyped DEF Ends
<1>3. Typed'
  BY <1>2 DEF MInv, Typed
<1>4. LocksExclude'
  BY <1>2, IdleTyped DEF MInv, LocksExclude
<1>5. TxOK(tx[c])'
  BY <1>2, IdleTyped DEF TxOK, ArgsExist, RequestOpen, CandidateLocked, SwitchesOwnAsset,
     SlotTaken, ApprovedBefore, Approving, Rejecting, HasRevision, HasCandidate
<1>6. ASSUME NEW d \in Callers \ {c} PROVE TxOK(tx[d])'
  <2>1. tx[c].held \cap tx[d].held = {}
    BY DEF MInv, LocksExclude
  <2>2. \A k \in active' \ active : Slot(k) \notin tx[d].held
    BY <2>1 DEF Free
  <2>3. Len(revs') \in Nat /\ Len(apprs') \in Nat
    OBVIOUS
  <2> QED
    BY <1>2, <2>2, <2>3, OthersRely
<1> QED
  BY <1>3, <1>4, <1>5, <1>6 DEF MInv

\* A call that fails leaves no trace.
LEMMA FailStep ==
    ASSUME MInv, NEW c \in Callers, Fails(c), assetOf' = assetOf
    PROVE  MInv'
<1>1. Ends(c) /\ UNCHANGED <<exists, active, run, revs, apprs>>
  BY DEF Fails, tables
<1>2. /\ revs \in Seq(RevRow) /\ apprs \in Seq(ApprRow) /\ run \in [Runs -> RunStates]
      /\ exists \subseteq Models /\ active \subseteq exists
  BY DEF MInv, Typed
<1>3. Len(revs) <= Len(revs') /\ Len(apprs) <= Len(apprs')
  BY <1>1, <1>2
<1>4. ParentsExist' /\ OneActiveModel' /\ LiveWasApproved'
  BY <1>1 DEF MInv, ParentsExist, OneActiveModel, LiveWasApproved
<1> QED
  BY <1>1, <1>2, <1>3, <1>4, EndStep

-----------------------------------------------------------------------------
(* The statements that only read and lock.                                  *)

\* A call whose transaction is open.
LEMMA OpenCall ==
    ASSUME MInv, NEW c \in Callers
    PROVE  /\ tx[c] \in TxRow
           /\ ArgsExist(tx[c]) /\ RequestOpen(tx[c]) /\ CandidateLocked(tx[c])
           /\ SwitchesOwnAsset(tx[c]) /\ SlotTaken(tx[c]) /\ ApprovedBefore(tx[c])
BY DEF MInv, Typed, TxOK

\* Locks of rows are locks.
LEMMA RowLocks ==
    ASSUME NEW kind \in {"run", "appr", "rev", "model"}, NEW S \in SUBSET Nat
    PROVE  Row(kind, S) \in SUBSET Lock
BY DEF Row, Lock

\* Taking locks changes the place and the locks, nothing else.
LEMMA LocksRow ==
    ASSUME MInv, NEW c \in Callers, NEW L \in SUBSET Lock, NEW pc \in Places
    PROVE  /\ Locks(c, L, pc) \in TxRow
           /\ Locks(c, L, pc).pc = pc /\ Locks(c, L, pc).held = tx[c].held \cup L
           /\ Locks(c, L, pc).arg = tx[c].arg /\ Locks(c, L, pc).saw = tx[c].saw
           /\ Locks(c, L, pc).rev = tx[c].rev /\ Locks(c, L, pc).old = tx[c].old
           /\ Locks(c, L, pc).prev = tx[c].prev
<1>1. tx[c] \in TxRow
  BY OpenCall
<1>2. tx[c].held \cup L \in SUBSET Lock
  BY <1>1 DEF TxRow
<1> QED
  BY <1>1, <1>2 DEF Locks, TxRow

\* The sequences of rows have lengths, and their ids are numbers.
LEMMA Ids ==
    ASSUME MInv
    PROVE  /\ Len(revs) \in Nat /\ Len(apprs) \in Nat
           /\ 1..Len(revs) \subseteq Nat /\ 1..Len(apprs) \subseteq Nat
           /\ Runs \subseteq Nat /\ Models \subseteq Nat
           /\ \A i \in 1..Len(revs) : revs[i] \in RevRow /\ CandOf(i) \in Models
           /\ \A i \in 1..Len(apprs) : apprs[i] \in ApprRow
<1>1. revs \in Seq(RevRow) /\ apprs \in Seq(ApprRow)
  BY DEF MInv, Typed
<1>2. Runs \subseteq Nat /\ Models \subseteq Nat /\ \A r \in Runs : r + 1 \in Models
  BY DeploymentAssumption DEF Models
<1>3. \A i \in 1..Len(revs) : revs[i] \in RevRow
  BY <1>1
<1>4. \A i \in 1..Len(revs) : CandOf(i) \in Models
  BY <1>2, <1>3 DEF CandOf, Cand, RevRow
<1> QED
  BY <1>1, <1>2, <1>3, <1>4

\* A new call: any of the six, with the id of a row or none.
LEMMA BeginsInv ==
    ASSUME MInv, NEW c \in Callers, NEW pc, NEW arg \in Nat, Begins(c, pc, arg),
           \/ pc = "p_run" /\ arg \in Runs
           \/ pc \in {"a_appr", "j_appr"} /\ arg \in 1..Len(apprs)
           \/ pc = "r_see_cur" /\ arg \in 0..Len(revs)
           \/ pc \in {"s_see", "d_del"} /\ arg \in Models
    PROVE  MInv'
<1> DEFINE t == [Idle EXCEPT !.pc = pc, !.arg = arg]
<1>1. Moves(c, t) /\ tablesSame /\ Free(c, {})
  BY DEF Begins, tablesSame, tables, Free
<1>2. pc \in Places
  BY DEF Places
<1>3. t \in TxRow /\ t.pc = pc /\ t.arg = arg /\ t.held = {}
  BY <1>2 DEF Idle, TxRow
<1> HIDE DEF t
<1>4. TxOK(t)
  BY <1>3 DEF TxOK, ArgsExist, RequestOpen, CandidateLocked, SwitchesOwnAsset, SlotTaken,
         ApprovedBefore, Approving, Rejecting, HasRevision, HasCandidate
<1> QED
  BY <1>1, <1>3, <1>4, TxStep

\* Starting a call.
LEMMA StartsInv ==
    ASSUME NEW c \in Callers
    PROVE  MInv /\ Starts(c) => MInv'
<1> SUFFICES ASSUME MInv, Starts(c) PROVE MInv'
  OBVIOUS
<1>1. ASSUME NEW r \in Runs, Begins(c, "p_run", r) PROVE MInv'
  BY <1>1, Ids, BeginsInv
<1>2. ASSUME NEW i \in 1..Len(apprs), Begins(c, "a_appr", i) \/ Begins(c, "j_appr", i) PROVE MInv'
  BY <1>2, Ids, BeginsInv
<1>3. ASSUME NEW i \in 0..Len(revs), Begins(c, "r_see_cur", i) PROVE MInv'
  <2>1. i \in Nat
    BY Ids
  <2> QED
    BY <1>3, <2>1, BeginsInv
<1>4. ASSUME NEW m \in exists \cup {NumModels}, Begins(c, "s_see", m) PROVE MInv'
  <2>1. m \in Models /\ m \in Nat
    BY Ids, DeploymentAssumption DEF MInv, Typed, Models
  <2> QED
    BY <1>4, <2>1, BeginsInv
<1>5. ASSUME NEW m \in exists \ active, Begins(c, "d_del", m) PROVE MInv'
  <2>1. m \in Models /\ m \in Nat
    BY Ids DEF MInv, Typed
  <2> QED
    BY <1>5, <2>1, BeginsInv
<1> QED
  BY <1>1, <1>2, <1>3, <1>4, <1>5 DEF Starts

\* The run is locked and the pending requests are read.
LEMMA ProposeLocksRunInv ==
    ASSUME NEW c \in Callers
    PROVE  MInv /\ ProposeLocksRun(c) => MInv'
<1> SUFFICES ASSUME MInv, ProposeLocksRun(c) PROVE MInv'
  OBVIOUS
<1>1. CASE Fails(c)
  BY <1>1, FailStep DEF ProposeLocksRun
<1>2. CASE /\ Moves(c, [Locks(c, Row("run", {tx[c].arg}), "p_appr") EXCEPT !.saw = PendingOf(tx[c].arg)])
           /\ UNCHANGED <<tables, meddled>>
  <2> DEFINE L == Row("run", {tx[c].arg})
             u == Locks(c, L, "p_appr")
             t == [u EXCEPT !.saw = PendingOf(tx[c].arg)]
  <2>1. tx[c].arg \in Runs /\ tx[c].arg \in Nat
    BY OpenCall, Ids DEF ArgsExist, ProposeLocksRun
  <2>2. L \in SUBSET Lock
    BY <2>1, RowLocks
  <2>3. "p_appr" \in Places
    BY DEF Places
  <2>4. Moves(c, t) /\ tablesSame /\ Free(c, L)
    BY <1>2 DEF ProposeLocksRun, tablesSame, tables
  <2> HIDE DEF L
  <2>5. u \in TxRow /\ u.pc = "p_appr" /\ u.held = tx[c].held \cup L /\ u.arg = tx[c].arg
    BY <2>2, <2>3, LocksRow
  <2> HIDE DEF u
  <2>6. PendingOf(tx[c].arg) \in SUBSET Nat
    BY Ids DEF PendingOf
  <2>7. t \in TxRow /\ t.pc = "p_appr" /\ t.held = tx[c].held \cup L /\ t.arg = tx[c].arg
    BY <2>5, <2>6 DEF TxRow
  <2> HIDE DEF t
  <2>8. TxOK(t)
    BY <2>1, <2>7 DEF TxOK, ArgsExist, RequestOpen, CandidateLocked, SwitchesOwnAsset, SlotTaken,
         ApprovedBefore, Approving, Rejecting, HasRevision, HasCandidate
  <2> QED
    BY <2>4, <2>7, <2>8, TxStep
<1> QED
  BY <1>1, <1>2 DEF ProposeLocksRun

\* A pending request is handed back, or locked and passed over.
LEMMA ProposeFindsPendingInv ==
    ASSUME NEW c \in Callers
    PROVE  MInv /\ ProposeFindsPending(c) => MInv'
<1> SUFFICES ASSUME MInv, ProposeFindsPending(c) PROVE MInv'
  OBVIOUS
<1>1. CASE Ends(c)
  BY <1>1, FailStep DEF ProposeFindsPending, Fails
<1>2. ASSUME NEW i \in tx[c].saw, Free(c, Row("appr", {i})),
             Moves(c, [Locks(c, Row("appr", {i}), "p_see") EXCEPT !.saw = {}])
      PROVE  MInv'
  <2> DEFINE L == Row("appr", {i})
             u == Locks(c, L, "p_see")
             t == [u EXCEPT !.saw = {}]
  <2>1. tx[c].arg \in Runs /\ i \in Nat
    BY OpenCall DEF ArgsExist, ProposeFindsPending, TxRow
  <2>2. L \in SUBSET Lock
    BY <2>1, RowLocks
  <2>3. "p_see" \in Places
    BY DEF Places
  <2>4. Moves(c, t) /\ tablesSame /\ Free(c, L)
    BY <1>2 DEF ProposeFindsPending, tablesSame, tables
  <2> HIDE DEF L
  <2>5. u \in TxRow /\ u.pc = "p_see" /\ u.held = tx[c].held \cup L /\ u.arg = tx[c].arg
    BY <2>2, <2>3, LocksRow
  <2> HIDE DEF u
  <2>7. t \in TxRow /\ t.pc = "p_see" /\ t.held = tx[c].held \cup L /\ t.arg = tx[c].arg
    BY <2>5 DEF TxRow
  <2> HIDE DEF t
  <2>8. TxOK(t)
    BY <2>1, <2>7 DEF TxOK, ArgsExist, RequestOpen, CandidateLocked, SwitchesOwnAsset, SlotTaken,
         ApprovedBefore, Approving, Rejecting, HasRevision, HasCandidate
  <2> QED
    BY <2>4, <2>7, <2>8, TxStep
<1> QED
  BY <1>1, <1>2 DEF ProposeFindsPending

\* The revisions of a snapshot are revisions.
LEMMA ActiveRevsExist ==
    ASSUME MInv
    PROVE  ActiveRevs \in SUBSET Nat /\ ActiveRevs \subseteq 1..Len(revs)
BY Ids DEF ActiveRevs

\* The snapshots of propose and rollback.
LEMMA SeesRevisionsInv ==
    ASSUME NEW c \in Callers
    PROVE  MInv /\ (ProposeSeesParent(c) \/ RollbackSeesCurrent(c)) => MInv'
<1> SUFFICES ASSUME MInv, ProposeSeesParent(c) \/ RollbackSeesCurrent(c) PROVE MInv'
  OBVIOUS
<1>1. tx[c] \in TxRow /\ ArgsExist(tx[c])
  BY OpenCall
<1>2. PICK pc \in {"p_parent", "r_cur"} :
        /\ Moves(c, [tx[c] EXCEPT !.pc = pc, !.saw = ActiveRevs])
        /\ pc = "p_parent" => tx[c].pc \in {"p_see", "p_appr"}
        /\ pc = "r_cur" => tx[c].pc = "r_see_cur"
  BY DEF ProposeSeesParent, RollbackSeesCurrent
<1> DEFINE t == [tx[c] EXCEPT !.pc = pc, !.saw = ActiveRevs]
<1>3. tablesSame /\ Free(c, {})
  BY DEF ProposeSeesParent, RollbackSeesCurrent, tablesSame, tables, Free
<1>4. pc \in Places
  BY DEF Places
<1>5. t \in TxRow /\ t.pc = pc /\ t.held = tx[c].held /\ t.arg = tx[c].arg
  BY <1>1, <1>4, ActiveRevsExist DEF TxRow
<1>6. Moves(c, t)
  BY <1>2
<1> HIDE DEF t
<1>7. TxOK(t)
  BY <1>1, <1>2, <1>5 DEF TxOK, ArgsExist, RequestOpen, CandidateLocked, SwitchesOwnAsset, SlotTaken,
         ApprovedBefore, Approving, Rejecting, HasRevision, HasCandidate
<1> QED
  BY <1>3, <1>5, <1>6, <1>7, TxStep

\* A row that stopped matching is passed over.
LEMMA SkipsInv ==
    ASSUME NEW c \in Callers
    PROVE  MInv /\ Skips(c) => MInv'
<1> SUFFICES ASSUME MInv, Skips(c) PROVE MInv'
  OBVIOUS
<1>1. tx[c] \in TxRow /\ ArgsExist(tx[c])
  BY OpenCall
<1> DEFINE S == tx[c].saw \ {Highest(tx[c].saw)}
           t == [tx[c] EXCEPT !.saw = S]
<1>2. Moves(c, t) /\ tablesSame /\ Free(c, {}) /\ tx[c].pc \in {"p_parent", "r_cur"}
  BY DEF Skips, tablesSame, tables, Free
<1>3. S \in SUBSET Nat
  BY <1>1 DEF TxRow
<1> HIDE DEF S
<1>4. t \in TxRow /\ t.pc = tx[c].pc /\ t.held = tx[c].held /\ t.arg = tx[c].arg
  BY <1>1, <1>3 DEF TxRow
<1> HIDE DEF t
<1>5. TxOK(t)
  BY <1>1, <1>2, <1>4 DEF TxOK, ArgsExist, RequestOpen, CandidateLocked, SwitchesOwnAsset, SlotTaken,
         ApprovedBefore, Approving, Rejecting, HasRevision, HasCandidate
<1> QED
  BY <1>2, <1>4, <1>5, TxStep

\* An approval or a rejection locks its request while it is open.
LEMMA LocksRequestInv ==
    ASSUME NEW c \in Callers
    PROVE  MInv /\ (ApproveLocksRequest(c) \/ RejectLocksRequest(c)) => MInv'
<1> SUFFICES ASSUME MInv, ApproveLocksRequest(c) \/ RejectLocksRequest(c) PROVE MInv'
  OBVIOUS
<1> DEFINE i == tx[c].arg
           L == Row("appr", {i})
<1>1. CASE Fails(c)
  BY <1>1, FailStep DEF ApproveLocksRequest, RejectLocksRequest
<1>2. ASSUME NEW pc \in {"a_rev", "j_rev"}, Free(c, L), ApprOpen(i),
             tx[c].pc \in {"a_appr", "j_appr"}, NEW seen,
             seen \in RunStates \/ seen = tx[c].seen,
             Moves(c, [Locks(c, L, pc) EXCEPT !.rev = apprs[i].target, !.seen = seen]), tablesSame
      PROVE  MInv'
  <2> DEFINE u == Locks(c, L, pc)
             t == [u EXCEPT !.rev = apprs[i].target, !.seen = seen]
  <2>1. i \in 1..Len(apprs) /\ i \in Nat /\ apprs[i].target \in Nat
    BY <1>2, OpenCall, Ids DEF ArgsExist, ApprRow
  <2>2. L \in SUBSET Lock
    BY <2>1, RowLocks
  <2>3. pc \in Places
    BY DEF Places
  <2>4. Moves(c, t)
    BY <1>2
  <2>5. u \in TxRow /\ u.pc = pc /\ u.held = tx[c].held \cup L /\ u.arg = i
    BY <2>2, <2>3, LocksRow
  <2> HIDE DEF u
  <2>6. /\ t \in TxRow /\ t.pc = pc /\ t.held = tx[c].held \cup L /\ t.arg = i
        /\ t.rev = apprs[i].target
    <3>1. seen \in RunStates \cup {"none"}
      BY <1>2, OpenCall DEF TxRow
    <3> QED
      BY <2>1, <2>5, <3>1 DEF TxRow
  <2> HIDE DEF t
  <2>7. <<"appr", i>> \in t.held
    BY <2>6 DEF Row
  <2> HIDE DEF L, i
  <2>8. TxOK(t)
    BY <1>2, <2>1, <2>6, <2>7 DEF TxOK, ArgsExist, RequestOpen, CandidateLocked, SwitchesOwnAsset, SlotTaken,
         ApprovedBefore, Approving, Rejecting, HasRevision, HasCandidate, ApprOpen
  <2> QED
    BY <1>2, <2>4, <2>6, <2>8, TxStep
<1>3. CASE ApproveLocksRequest(c) /\ ~Fails(c)
  <2>1. /\ Free(c, L) /\ ApprOpen(i) /\ tx[c].pc = "a_appr"
        /\ Moves(c, [Locks(c, L, "a_rev") EXCEPT !.rev = apprs[i].target, !.seen = run[apprs[i].run]])
        /\ tablesSame
    BY <1>3 DEF ApproveLocksRequest, tablesSame, tables
  <2>2. i \in 1..Len(apprs)
    BY <2>1, OpenCall DEF ArgsExist
  <2>3. run[apprs[i].run] \in RunStates
    BY <2>2, Ids DEF MInv, Typed, ApprRow
  <2> HIDE DEF L, i
  <2> QED
    BY <1>2, <2>1, <2>3
<1>4. CASE RejectLocksRequest(c) /\ ~Fails(c)
  <2>1. /\ Free(c, L) /\ ApprOpen(i) /\ tx[c].pc = "j_appr"
        /\ Moves(c, [Locks(c, L, "j_rev") EXCEPT !.rev = apprs[i].target]) /\ tablesSame
    BY <1>4 DEF RejectLocksRequest, tablesSame, tables
  <2>2. /\ Locks(c, L, "j_rev") \in TxRow /\ Locks(c, L, "j_rev").seen = tx[c].seen
    <3>1. i \in Nat /\ tx[c] \in TxRow
      BY <2>1, OpenCall, Ids DEF ArgsExist
    <3>2. L \in SUBSET Lock
      BY <3>1, RowLocks
    <3>3. "j_rev" \in Places
      BY DEF Places
    <3> QED
      BY <3>1, <3>2, <3>3, LocksRow DEF Locks, TxRow
  <2>3. [Locks(c, L, "j_rev") EXCEPT !.rev = apprs[i].target]
          = [Locks(c, L, "j_rev") EXCEPT !.rev = apprs[i].target, !.seen = tx[c].seen]
    BY <2>2 DEF TxRow
  <2> HIDE DEF L, i
  <2> QED
    BY <1>2, <2>1, <2>3
<1> QED
  BY <1>1, <1>3, <1>4

\* The rejection's revision exists and is locked.
LEMMA RejectLocksRevisionInv ==
    ASSUME NEW c \in Callers
    PROVE  MInv /\ RejectLocksRevision(c) => MInv'
<1> SUFFICES ASSUME MInv, RejectLocksRevision(c) PROVE MInv'
  OBVIOUS
<1> DEFINE i == tx[c].rev
           L == Row("rev", {i})
           t == Locks(c, L, "j_run")
<1>1. CASE Fails(c)
  BY <1>1, FailStep DEF RejectLocksRevision
<1>2. CASE ~Fails(c)
  <2>1. /\ Free(c, L) /\ tx[c].pc = "j_rev" /\ i \in 1..Len(revs)
        /\ Moves(c, t) /\ tablesSame
    BY <1>2 DEF RejectLocksRevision, tablesSame, tables
  <2>2. L \in SUBSET Lock
    BY <2>1, Ids, RowLocks
  <2>3. "j_run" \in Places
    BY DEF Places
  <2> HIDE DEF L
  <2>4. /\ t \in TxRow /\ t.pc = "j_run" /\ t.held = tx[c].held \cup L
        /\ t.arg = tx[c].arg /\ t.rev = i
    BY <2>2, <2>3, LocksRow
  <2> HIDE DEF t, i
  <2>5. ArgsExist(tx[c]) /\ RequestOpen(tx[c])
    BY OpenCall
  <2>6. TxOK(t)
    BY <2>1, <2>4, <2>5 DEF TxOK, ArgsExist, RequestOpen, CandidateLocked, SwitchesOwnAsset, SlotTaken,
         ApprovedBefore, Approving, Rejecting, HasRevision, HasCandidate
  <2> QED
    BY <2>1, <2>4, <2>6, TxStep
<1> QED
  BY <1>1, <1>2

\* What is or was live has an approval.
LEMMA LiveApproved ==
    ASSUME MInv, NEW i \in 1..Len(revs), revs[i].status \in {"ACTIVE", "SUPERSEDED", "ROLLED_BACK"}
    PROVE  Approved(i)
BY DEF MInv, LiveWasApproved, Approved

\* An approval locks an open revision, a rollback a superseded one.
LEMMA LocksRevisionInv ==
    ASSUME NEW c \in Callers
    PROVE  MInv /\ LocksRevision(c) => MInv'
<1> SUFFICES ASSUME MInv, LocksRevision(c) PROVE MInv'
  OBVIOUS
<1> DEFINE i == tx[c].rev
           L == Row("rev", {i})
           pc == IF tx[c].pc = "a_rev" THEN "a_cand" ELSE "r_cand"
           t == Locks(c, L, pc)
<1>1. CASE Fails(c)
  BY <1>1, FailStep DEF LocksRevision
<1>2. CASE ~Fails(c)
  <2>1. /\ Free(c, L) /\ tx[c].pc \in {"a_rev", "r_rev"} /\ RevOpen(c)
        /\ i \in 1..Len(revs) /\ Moves(c, t) /\ tablesSame
    BY <1>2 DEF LocksRevision, tablesSame, tables
  <2>2. ArgsExist(tx[c]) /\ RequestOpen(tx[c]) /\ ApprovedBefore(tx[c])
    BY OpenCall
  <2>3. i \in 1..Len(revs) /\ i \in Nat
    BY <2>1, Ids
  <2>4. tx[c].pc = "r_rev" => Approved(i)
    BY <2>1, <2>3, LiveApproved DEF RevOpen
  <2>5. L \in SUBSET Lock
    BY <2>3, RowLocks
  <2>6. /\ pc \in Places /\ pc \in {"a_cand", "r_cand"}
        /\ (pc = "a_cand" <=> tx[c].pc = "a_rev") /\ (pc = "r_cand" <=> tx[c].pc = "r_rev")
    BY <2>1 DEF Places
  <2> HIDE DEF L, pc
  <2>7. /\ t \in TxRow /\ t.pc = pc /\ t.held = tx[c].held \cup L
        /\ t.arg = tx[c].arg /\ t.rev = i /\ t.prev = tx[c].prev
    BY <2>5, <2>6, LocksRow
  <2> HIDE DEF t, i
  <2>8. ArgsExist(t) /\ RequestOpen(t)
    BY <2>2, <2>3, <2>6, <2>7 DEF TxOK, ArgsExist, RequestOpen, CandidateLocked, SwitchesOwnAsset, SlotTaken,
         ApprovedBefore, Approving, Rejecting, HasRevision, HasCandidate, i
  <2>9. CandidateLocked(t) /\ SwitchesOwnAsset(t) /\ SlotTaken(t)
    BY <2>6, <2>7 DEF CandidateLocked, SwitchesOwnAsset, SlotTaken, HasCandidate
  <2>10. ApprovedBefore(t)
    BY <2>1, <2>2, <2>4, <2>6, <2>7 DEF ApprovedBefore
  <2> QED
    BY <2>1, <2>7, <2>8, <2>9, <2>10, TxStep DEF TxOK
<1> QED
  BY <1>1, <1>2

\* The candidate's row is locked while it exists.
LEMMA LocksCandidateInv ==
    ASSUME NEW c \in Callers
    PROVE  MInv /\ LocksCandidate(c) => MInv'
<1> SUFFICES ASSUME MInv, LocksCandidate(c) PROVE MInv'
  OBVIOUS
<1> DEFINE m == CandOf(tx[c].rev)
           L == Row("model", {m})
           pc == IF tx[c].pc = "a_cand" THEN "a_see" ELSE "r_see"
           t == Locks(c, L, pc)
<1>1. CASE Fails(c)
  BY <1>1, FailStep DEF LocksCandidate
<1>2. CASE ~Fails(c)
  <2>1. /\ Free(c, L) /\ tx[c].pc \in {"a_cand", "r_cand"} /\ m \in exists
        /\ Moves(c, t) /\ tablesSame
    BY <1>2 DEF LocksCandidate, HasModel, tablesSame, tables
  <2>2. ArgsExist(tx[c]) /\ RequestOpen(tx[c]) /\ ApprovedBefore(tx[c])
    BY OpenCall
  <2>3. m \in Nat
    BY <2>1, Ids DEF MInv, Typed
  <2>4. L \in SUBSET Lock /\ <<"model", m>> \in L
    <3>1. L \in SUBSET Lock
      BY <2>3, RowLocks
    <3>2. <<"model", m>> \in L
      BY DEF Row
    <3> QED
      BY <3>1, <3>2
  <2>5. /\ pc \in Places /\ pc \in {"a_see", "r_see"}
        /\ (pc = "a_see" <=> tx[c].pc = "a_cand") /\ (pc = "r_see" <=> tx[c].pc = "r_cand")
    BY <2>1 DEF Places
  <2> HIDE DEF L, pc
  <2>6. /\ t \in TxRow /\ t.pc = pc /\ t.held = tx[c].held \cup L
        /\ t.arg = tx[c].arg /\ t.rev = tx[c].rev /\ t.prev = tx[c].prev
    BY <2>4, <2>5, LocksRow
  <2> HIDE DEF t
  <2>7. ArgsExist(t) /\ RequestOpen(t)
    BY <2>1, <2>2, <2>5, <2>6 DEF TxOK, ArgsExist, RequestOpen, CandidateLocked, SwitchesOwnAsset, SlotTaken,
         ApprovedBefore, Approving, Rejecting, HasRevision, HasCandidate
  <2>8. CandidateLocked(t)
    BY <2>1, <2>4, <2>6 DEF CandidateLocked
  <2>9. SwitchesOwnAsset(t) /\ SlotTaken(t)
    BY <2>5, <2>6 DEF SwitchesOwnAsset, SlotTaken
  <2>10. ApprovedBefore(t)
    BY <2>1, <2>2, <2>5, <2>6 DEF ApprovedBefore
  <2> QED
    BY <2>1, <2>6, <2>7, <2>8, <2>9, <2>10, TxStep DEF TxOK
<1> QED
  BY <1>1, <1>2

\* The versions that serve the candidate's asset are read.
LEMMA SeesActiveModelsInv ==
    ASSUME NEW c \in Callers
    PROVE  MInv /\ SeesActiveModels(c) => MInv'
<1> SUFFICES ASSUME MInv, SeesActiveModels(c) PROVE MInv'
  OBVIOUS
<1> DEFINE pc == IF tx[c].pc = "a_see" THEN "a_models" ELSE "r_models"
           S == Same(CandOf(tx[c].rev)) \cap active
           t == [tx[c] EXCEPT !.pc = pc, !.saw = S]
<1>1. /\ tx[c] \in TxRow /\ ArgsExist(tx[c]) /\ RequestOpen(tx[c]) /\ ApprovedBefore(tx[c])
      /\ CandidateLocked(tx[c])
  BY OpenCall
<1>2. Moves(c, t) /\ tablesSame /\ Free(c, {}) /\ tx[c].pc \in {"a_see", "r_see"}
  BY <1>1 DEF SeesActiveModels, tablesSame, tables, Free, TxRow
<1>3. S \in SUBSET Nat /\ \A k \in S : assetOf[k] = assetOf[CandOf(tx[c].rev)]
  BY Ids DEF Same, MInv, Typed
<1>4. /\ pc \in Places /\ pc \in {"a_models", "r_models"}
      /\ (pc = "a_models" <=> tx[c].pc = "a_see") /\ (pc = "r_models" <=> tx[c].pc = "r_see")
  BY <1>2 DEF Places
<1> HIDE DEF pc, S
<1>5. /\ t \in TxRow /\ t.pc = pc /\ t.held = tx[c].held /\ t.saw = S
      /\ t.arg = tx[c].arg /\ t.rev = tx[c].rev /\ t.prev = tx[c].prev
  BY <1>1, <1>3, <1>4 DEF TxRow
<1> HIDE DEF t
<1>6. ArgsExist(t) /\ RequestOpen(t) /\ CandidateLocked(t)
  BY <1>1, <1>2, <1>4, <1>5 DEF TxOK, ArgsExist, RequestOpen, CandidateLocked, SwitchesOwnAsset, SlotTaken,
         ApprovedBefore, Approving, Rejecting, HasRevision, HasCandidate
<1>7. SwitchesOwnAsset(t) /\ SlotTaken(t)
  BY <1>3, <1>4, <1>5 DEF SwitchesOwnAsset, SlotTaken
<1>8. ApprovedBefore(t)
  BY <1>1, <1>2, <1>4, <1>5 DEF ApprovedBefore
<1> QED
  BY <1>2, <1>5, <1>6, <1>7, <1>8, TxStep DEF TxOK

\* Those of them that still serve it are locked.
LEMMA LocksActiveModelsInv ==
    ASSUME NEW c \in Callers
    PROVE  MInv /\ LocksActiveModels(c) => MInv'
<1> SUFFICES ASSUME MInv, LocksActiveModels(c) PROVE MInv'
  OBVIOUS
<1> DEFINE pc == IF tx[c].pc = "a_models" THEN "a_flush" ELSE "r_flush"
           S == tx[c].saw \cap active
           L == Row("model", S)
           u == Locks(c, L, pc)
           t == [u EXCEPT !.saw = {}, !.old = S]
<1>1. /\ tx[c] \in TxRow /\ ArgsExist(tx[c]) /\ RequestOpen(tx[c]) /\ ApprovedBefore(tx[c])
      /\ CandidateLocked(tx[c]) /\ SwitchesOwnAsset(tx[c])
  BY OpenCall
<1>2. /\ Moves(c, t) /\ tablesSame /\ Free(c, Row("model", tx[c].saw))
      /\ tx[c].pc \in {"a_models", "r_models"}
  BY DEF LocksActiveModels, tablesSame, tables
<1>3. Free(c, L)
  BY <1>2 DEF Free, Row
<1>4. S \in SUBSET Nat /\ \A k \in S : assetOf[k] = assetOf[CandOf(tx[c].rev)]
  BY <1>1, <1>2 DEF TxRow, SwitchesOwnAsset
<1> HIDE DEF S
<1>5. L \in SUBSET Lock
  BY <1>4, RowLocks
<1>6. /\ pc \in Places /\ pc \in {"a_flush", "r_flush"}
      /\ (pc = "a_flush" <=> tx[c].pc = "a_models") /\ (pc = "r_flush" <=> tx[c].pc = "r_models")
  BY <1>2 DEF Places
<1> HIDE DEF pc, L
<1>7. /\ u \in TxRow /\ u.pc = pc /\ u.held = tx[c].held \cup L
      /\ u.arg = tx[c].arg /\ u.rev = tx[c].rev /\ u.prev = tx[c].prev
  BY <1>5, <1>6, LocksRow
<1> HIDE DEF u
<1>8. /\ t \in TxRow /\ t.pc = pc /\ t.held = tx[c].held \cup L /\ t.old = S
      /\ t.arg = tx[c].arg /\ t.rev = tx[c].rev /\ t.prev = tx[c].prev
  BY <1>4, <1>7 DEF TxRow
<1> HIDE DEF t
<1>9. ArgsExist(t) /\ RequestOpen(t) /\ CandidateLocked(t)
  BY <1>1, <1>2, <1>6, <1>8 DEF TxOK, ArgsExist, RequestOpen, CandidateLocked, SwitchesOwnAsset, SlotTaken,
         ApprovedBefore, Approving, Rejecting, HasRevision, HasCandidate
<1>10. SwitchesOwnAsset(t) /\ SlotTaken(t)
  BY <1>4, <1>6, <1>8 DEF SwitchesOwnAsset, SlotTaken
<1>11. ApprovedBefore(t)
  BY <1>1, <1>2, <1>6, <1>8 DEF ApprovedBefore
<1> QED
  BY <1>2, <1>3, <1>8, <1>9, <1>10, <1>11, TxStep DEF TxOK

\* The flags are flushed: the index admits them, and its entry is taken.
LEMMA ApproveFlushesInv ==
    ASSUME NEW c \in Callers
    PROVE  MInv /\ ApproveFlushes(c) => MInv'
<1> SUFFICES ASSUME MInv, ApproveFlushes(c) PROVE MInv'
  OBVIOUS
<1> DEFINE m == CandOf(tx[c].rev)
           L == {Slot(m)}
           S == ActiveRevs \ {tx[c].rev}
           u == Locks(c, L, "a_revs")
           t == [u EXCEPT !.saw = S]
<1>1. CASE Fails(c)
  BY <1>1, FailStep DEF ApproveFlushes
<1>2. CASE ~Fails(c)
  <2>1. /\ Free(c, L) /\ tx[c].pc = "a_flush" /\ ~IndexRefuses(m, tx[c].old)
        /\ Moves(c, t) /\ tablesSame
    BY <1>2 DEF ApproveFlushes, tablesSame, tables
  <2>2. /\ tx[c] \in TxRow /\ ArgsExist(tx[c]) /\ RequestOpen(tx[c])
        /\ CandidateLocked(tx[c]) /\ SwitchesOwnAsset(tx[c])
    BY OpenCall
  <2>3. m \in Models
    BY <2>1, <2>2, Ids DEF ArgsExist, HasRevision, Approving
  <2>4. L \in SUBSET Lock
    BY <2>3 DEF Slot, Lock, MInv, Typed
  <2>5. S \in SUBSET Nat /\ "a_revs" \in Places
    BY ActiveRevsExist DEF Places
  <2>6. \A k \in active : k # m /\ assetOf[k] = assetOf[m] => k \in tx[c].old
    BY <2>1 DEF IndexRefuses, Same, MInv, Typed
  <2>7. Slot(m) \in L
    OBVIOUS
  <2> HIDE DEF L, S
  <2>8. /\ u \in TxRow /\ u.pc = "a_revs" /\ u.held = tx[c].held \cup L
        /\ u.arg = tx[c].arg /\ u.rev = tx[c].rev /\ u.old = tx[c].old
    BY <2>4, <2>5, LocksRow
  <2> HIDE DEF u
  <2>9. /\ t \in TxRow /\ t.pc = "a_revs" /\ t.held = tx[c].held \cup L
        /\ t.arg = tx[c].arg /\ t.rev = tx[c].rev /\ t.old = tx[c].old
    BY <2>5, <2>8 DEF TxRow
  <2> HIDE DEF t
  <2>10. ArgsExist(t) /\ RequestOpen(t) /\ CandidateLocked(t)
    BY <2>1, <2>2, <2>9 DEF TxOK, ArgsExist, RequestOpen, CandidateLocked, SwitchesOwnAsset, SlotTaken,
         ApprovedBefore, Approving, Rejecting, HasRevision, HasCandidate
  <2>11. SwitchesOwnAsset(t) /\ ApprovedBefore(t)
    BY <2>1, <2>2, <2>9 DEF SwitchesOwnAsset, ApprovedBefore
  <2>12. SlotTaken(t)
    BY <2>6, <2>7, <2>9 DEF SlotTaken
  <2> QED
    BY <2>1, <2>9, <2>10, <2>11, <2>12, TxStep DEF TxOK
<1> QED
  BY <1>1, <1>2

\* The revisions to supersede are locked.
LEMMA ApproveLocksActiveInv ==
    ASSUME NEW c \in Callers
    PROVE  MInv /\ ApproveLocksActive(c) => MInv'
<1> SUFFICES ASSUME MInv, ApproveLocksActive(c) PROVE MInv'
  OBVIOUS
<1> DEFINE S == tx[c].saw \cap ActiveRevs
           L == Row("rev", S)
           u == Locks(c, L, "a_run")
           t == [u EXCEPT !.saw = {}, !.prev = S]
<1>1. /\ tx[c] \in TxRow /\ ArgsExist(tx[c]) /\ RequestOpen(tx[c])
      /\ CandidateLocked(tx[c]) /\ SwitchesOwnAsset(tx[c]) /\ SlotTaken(tx[c])
  BY OpenCall
<1>2. Moves(c, t) /\ tablesSame /\ Free(c, Row("rev", tx[c].saw)) /\ tx[c].pc = "a_revs"
  BY DEF ApproveLocksActive, tablesSame, tables
<1>3. Free(c, L)
  BY <1>2 DEF Free, Row
<1>4. S \in SUBSET Nat
  BY ActiveRevsExist
<1>5. \A i \in S : Approved(i)
  BY LiveApproved DEF ActiveRevs
<1> HIDE DEF S
<1>6. L \in SUBSET Lock
  BY <1>4, RowLocks
<1>7. "a_run" \in Places
  BY DEF Places
<1> HIDE DEF L
<1>8. /\ u \in TxRow /\ u.pc = "a_run" /\ u.held = tx[c].held \cup L
      /\ u.arg = tx[c].arg /\ u.rev = tx[c].rev /\ u.old = tx[c].old
  BY <1>6, <1>7, LocksRow
<1> HIDE DEF u
<1>9. /\ t \in TxRow /\ t.pc = "a_run" /\ t.held = tx[c].held \cup L /\ t.prev = S
      /\ t.arg = tx[c].arg /\ t.rev = tx[c].rev /\ t.old = tx[c].old
  BY <1>4, <1>8 DEF TxRow
<1> HIDE DEF t
<1>10. ArgsExist(t) /\ RequestOpen(t) /\ CandidateLocked(t)
  BY <1>1, <1>2, <1>9 DEF TxOK, ArgsExist, RequestOpen, CandidateLocked, SwitchesOwnAsset, SlotTaken,
         ApprovedBefore, Approving, Rejecting, HasRevision, HasCandidate
<1>11. SwitchesOwnAsset(t) /\ SlotTaken(t)
  BY <1>1, <1>2, <1>9 DEF SwitchesOwnAsset, SlotTaken
<1>12. ApprovedBefore(t)
  BY <1>5, <1>9 DEF ApprovedBefore
<1> QED
  BY <1>2, <1>3, <1>9, <1>10, <1>11, <1>12, TxStep DEF TxOK

\* A rollback finds its target: the chosen revision or the current one's parent.
LEMMA RollbackLocksCurrentInv ==
    ASSUME NEW c \in Callers
    PROVE  MInv /\ RollbackLocksCurrent(c) => MInv'
<1> SUFFICES ASSUME MInv, RollbackLocksCurrent(c) PROVE MInv'
  OBVIOUS
<1> DEFINE cur == Newest(c)
           parent == IF cur = 0 THEN 0 ELSE revs[cur].parent
           target == IF tx[c].arg # 0 THEN tx[c].arg ELSE parent
           S == {cur} \ {0}
           L == Row("rev", S)
           u == Locks(c, L, "r_rev")
           t == [u EXCEPT !.saw = {}, !.prev = S, !.rev = target]
<1>1. CASE Fails(c)
  BY <1>1, FailStep DEF RollbackLocksCurrent
<1>2. CASE ~Fails(c)
  <2>1. /\ target # 0 /\ tx[c].pc = "r_cur" /\ NewestReady(c)
        /\ Moves(c, t) /\ tablesSame
    BY <1>2 DEF RollbackLocksCurrent, tablesSame, tables
  <2>2. cur # 0 => cur \in ActiveRevs /\ Free(c, Row("rev", {cur}))
    BY <2>1 DEF NewestReady
  <2>3. Free(c, L)
    BY <2>2 DEF Free, Row
  <2>4. tx[c] \in TxRow /\ tx[c].arg \in 0..Len(revs)
    BY <2>1, OpenCall DEF ArgsExist
  <2>5. parent \in 0..Len(revs)
    BY <2>2, ActiveRevsExist, Ids DEF MInv, ParentsExist
  <2>6. target \in 1..Len(revs) /\ target \in Nat
    BY <2>1, <2>4, <2>5, Ids
  <2>7. S \in SUBSET Nat
    BY <2>2, ActiveRevsExist
  <2>8. \A i \in S : Approved(i)
    BY <2>2, LiveApproved DEF ActiveRevs
  <2> HIDE DEF S, target, parent, cur
  <2>9. L \in SUBSET Lock
    BY <2>7, RowLocks
  <2>10. "r_rev" \in Places
    BY DEF Places
  <2> HIDE DEF L
  <2>11. u \in TxRow /\ u.pc = "r_rev" /\ u.held = tx[c].held \cup L /\ u.arg = tx[c].arg
    BY <2>9, <2>10, LocksRow
  <2> HIDE DEF u
  <2>12. /\ t \in TxRow /\ t.pc = "r_rev" /\ t.held = tx[c].held \cup L /\ t.prev = S
         /\ t.rev = target
    BY <2>6, <2>7, <2>11 DEF TxRow
  <2> HIDE DEF t
  <2>13. TxOK(t)
    BY <2>6, <2>8, <2>12 DEF TxOK, ArgsExist, RequestOpen, CandidateLocked, SwitchesOwnAsset, SlotTaken,
         ApprovedBefore, Approving, Rejecting, HasRevision, HasCandidate
  <2> QED
    BY <2>1, <2>3, <2>12, <2>13, TxStep
<1> QED
  BY <1>1, <1>2

\* The dashboards' switch reads the asset's versions and locks them.
LEMMA SwitchMovesInv ==
    ASSUME NEW c \in Callers
    PROVE  MInv /\ (SwitchSees(c) \/ SwitchLocks(c)) => MInv'
<1> SUFFICES ASSUME MInv, SwitchSees(c) \/ SwitchLocks(c) PROVE MInv'
  OBVIOUS
<1>1. tx[c] \in TxRow /\ ArgsExist(tx[c])
  BY OpenCall
<1>2. CASE SwitchSees(c)
  <2> DEFINE S == Same(tx[c].arg)
             t == [tx[c] EXCEPT !.pc = "s_off", !.saw = S]
  <2>1. Moves(c, t) /\ tablesSame /\ Free(c, {}) /\ tx[c].pc = "s_see"
    BY <1>2 DEF SwitchSees, tablesSame, tables, Free
  <2>2. S \in SUBSET Nat /\ "s_off" \in Places
    BY Ids DEF Same, MInv, Typed, Places
  <2> HIDE DEF S
  <2>3. t \in TxRow /\ t.pc = "s_off" /\ t.held = tx[c].held /\ t.arg = tx[c].arg
    BY <1>1, <2>2 DEF TxRow
  <2> HIDE DEF t
  <2>4. TxOK(t)
    BY <1>1, <2>1, <2>3 DEF TxOK, ArgsExist, RequestOpen, CandidateLocked, SwitchesOwnAsset, SlotTaken,
         ApprovedBefore, Approving, Rejecting, HasRevision, HasCandidate
  <2> QED
    BY <2>1, <2>3, <2>4, TxStep
<1>3. CASE SwitchLocks(c)
  <2> DEFINE S == tx[c].saw
             L == Row("model", S)
             u == Locks(c, L, "s_on")
             t == [u EXCEPT !.saw = {}, !.old = S]
  <2>1. Moves(c, t) /\ tablesSame /\ Free(c, L) /\ tx[c].pc = "s_off"
    BY <1>3 DEF SwitchLocks, tablesSame, tables
  <2>2. S \in SUBSET Nat /\ "s_on" \in Places
    BY <1>1 DEF TxRow, Places
  <2> HIDE DEF S
  <2>3. L \in SUBSET Lock
    BY <2>2, RowLocks
  <2> HIDE DEF L
  <2>4. u \in TxRow /\ u.pc = "s_on" /\ u.held = tx[c].held \cup L /\ u.arg = tx[c].arg
    BY <2>2, <2>3, LocksRow
  <2> HIDE DEF u
  <2>5. t \in TxRow /\ t.pc = "s_on" /\ t.held = tx[c].held \cup L /\ t.arg = tx[c].arg
    BY <2>2, <2>4 DEF TxRow
  <2> HIDE DEF t
  <2>6. TxOK(t)
    BY <1>1, <2>1, <2>5 DEF TxOK, ArgsExist, RequestOpen, CandidateLocked, SwitchesOwnAsset, SlotTaken,
         ApprovedBefore, Approving, Rejecting, HasRevision, HasCandidate
  <2> QED
    BY <2>1, <2>5, <2>6, TxStep
<1> QED
  BY <1>2, <1>3

-----------------------------------------------------------------------------
(* The commits.                                                             *)

\* Rewriting statuses row by row keeps the table of revisions.
LEMMA RevsRewritten ==
    ASSUME MInv, NEW f, f = [j \in 1..Len(revs) |-> f[j]],
           \A j \in 1..Len(revs) : /\ f[j] \in RevRow /\ f[j].run = revs[j].run
                                   /\ f[j].parent = revs[j].parent
    PROVE  /\ f \in Seq(RevRow) /\ Len(f) = Len(revs)
           /\ \A i \in 1..Len(f) : f[i].parent \in 0..Len(f)
<1>1. Len(revs) \in Nat
  BY Ids
<1>2. f \in [1..Len(revs) -> RevRow]
  OBVIOUS
<1>3. f \in Seq(RevRow) /\ Len(f) = Len(revs)
  BY <1>1, <1>2
<1> QED
  BY <1>3 DEF MInv, ParentsExist

\* Deciding one request keeps the table of requests.
LEMMA ApprDecided ==
    ASSUME MInv, NEW i \in 1..Len(apprs), apprs[i].status = "PENDING",
           NEW s \in {"APPROVED", "REJECTED"}, apprs' = [apprs EXCEPT ![i].status = s]
    PROVE  /\ apprs' \in Seq(ApprRow) /\ Len(apprs') = Len(apprs)
           /\ apprs'[i].status = s
           /\ \A k \in 1..Len(apprs) :
                /\ apprs'[k].target = apprs[k].target
                /\ k # i => apprs'[k].status = apprs[k].status
           /\ \A j : Approved(j) => Approved(j)'
<1>1. apprs \in Seq(ApprRow) /\ \A k \in 1..Len(apprs) : apprs[k] \in ApprRow
  BY Ids DEF MInv, Typed
<1>2. [apprs[i] EXCEPT !.status = s] \in ApprRow
  BY <1>1 DEF ApprRow, ApprStates
<1>3. apprs' = [apprs EXCEPT ![i] = [apprs[i] EXCEPT !.status = s]]
  BY <1>1
<1>4. apprs' \in Seq(ApprRow) /\ Len(apprs') = Len(apprs)
  BY <1>1, <1>2, <1>3
<1>5. apprs'[i] = [apprs[i] EXCEPT !.status = s] /\ \A k \in 1..Len(apprs) : k # i => apprs'[k] = apprs[k]
  BY <1>1, <1>3
<1>6. apprs'[i].status = s /\ apprs'[i].target = apprs[i].target
  BY <1>1, <1>5 DEF ApprRow
<1>7. ASSUME NEW j, Approved(j) PROVE Approved(j)'
  BY <1>4, <1>5, <1>7 DEF Approved
<1> QED
  BY <1>4, <1>5, <1>6, <1>7

\* A request that is added decides nothing.
LEMMA ApprAdded ==
    ASSUME MInv, NEW a \in ApprRow, apprs' = Append(apprs, a)
    PROVE  /\ apprs' \in Seq(ApprRow) /\ Len(apprs) <= Len(apprs')
           /\ \A k \in 1..Len(apprs) :
                apprs'[k].target = apprs[k].target /\ apprs'[k].status = apprs[k].status
           /\ \A j : Approved(j) => Approved(j)'
<1>1. apprs \in Seq(ApprRow)
  BY DEF MInv, Typed
<1>2. apprs' \in Seq(ApprRow) /\ Len(apprs') = Len(apprs) + 1 /\ Len(apprs) \in Nat
  BY <1>1
<1>3. \A k \in 1..Len(apprs) : apprs'[k] = apprs[k]
  BY <1>1
<1>4. 1..Len(apprs) \subseteq 1..Len(apprs')
  BY <1>2
<1>5. ASSUME NEW j, Approved(j) PROVE Approved(j)'
  BY <1>3, <1>4, <1>5 DEF Approved
<1> QED
  BY <1>2, <1>3, <1>5

\* propose_live_deployment commits its revision and its request.
LEMMA ProposesInv ==
    ASSUME NEW c \in Callers
    PROVE  MInv /\ Proposes(c) => MInv'
<1> SUFFICES ASSUME MInv, Proposes(c) PROVE MInv'
  OBVIOUS
<1> DEFINE r == tx[c].arg
           new == [run |-> r, parent |-> Newest(c), status |-> "PENDING_APPROVAL"]
           i == IF Reusable(r) = {} THEN Len(revs) + 1 ELSE Highest(Reusable(r))
           a == [run |-> r, target |-> i, action |-> "ACTIVATE", status |-> "PENDING"]
<1>1. /\ tx[c].pc = "p_parent" /\ NewestReady(c) /\ Ends(c)
      /\ revs' = IF Reusable(r) = {} THEN Append(revs, new) ELSE revs
      /\ apprs' = Append(apprs, a)
      /\ run' = [run EXCEPT ![r] = "PENDING_APPROVAL"]
      /\ UNCHANGED <<assetOf, exists, active>>
  BY DEF Proposes
<1>2. r \in Runs
  BY <1>1, OpenCall DEF ArgsExist
<1>3. Newest(c) \in 0..Len(revs) /\ Newest(c) \in Nat
  BY <1>1, ActiveRevsExist, Ids DEF NewestReady
<1>4. i \in Nat
  <2>1. CASE Reusable(r) = {}
    BY <2>1, Ids
  <2>2. CASE Reusable(r) # {}
    <3>1. Reusable(r) \subseteq 1..Len(revs)
      BY DEF Reusable
    <3>2. Highest(Reusable(r)) \in Reusable(r)
      BY <2>2, <3>1, Ids, HighestExists
    <3> QED
      BY <2>2, <3>1, <3>2, Ids
  <2> QED
    BY <2>1, <2>2
<1> HIDE DEF i
<1>5. new \in RevRow
  BY <1>2, <1>3 DEF RevRow, RevStates
<1>6. a \in ApprRow
  BY <1>2, <1>4 DEF ApprRow, ApprStates
<1> HIDE DEF a
<1>7. /\ apprs' \in Seq(ApprRow) /\ Len(apprs) <= Len(apprs')
      /\ \A k \in 1..Len(apprs) :
           apprs'[k].target = apprs[k].target /\ apprs'[k].status = apprs[k].status
      /\ \A j : Approved(j) => Approved(j)'
  BY <1>1, <1>6, ApprAdded
<1>8. new.parent = Newest(c) /\ new.status = "PENDING_APPROVAL"
  OBVIOUS
<1> HIDE DEF new
<1>9. revs \in Seq(RevRow) /\ Len(revs) \in Nat
  BY Ids DEF MInv, Typed
<1>10. /\ revs' \in Seq(RevRow) /\ Len(revs) <= Len(revs') /\ Len(revs') \in Nat
       /\ \A j \in 1..Len(revs) : revs'[j] = revs[j]
       /\ \A j \in 1..Len(revs') : j \in 1..Len(revs) \/ revs'[j] = new
  <2>1. CASE Reusable(r) = {}
    <3>1. revs' = Append(revs, new)
      BY <1>1, <2>1
    <3> QED
      BY <1>5, <1>9, <3>1
  <2>2. CASE Reusable(r) # {}
    BY <1>1, <1>9, <2>2
  <2> QED
    BY <2>1, <2>2
<1>11. ParentsExist'
  <2> SUFFICES ASSUME NEW j \in 1..Len(revs') PROVE revs'[j].parent \in 0..Len(revs')
    BY DEF ParentsExist
  <2>1. revs'[j].parent \in 0..Len(revs)
    BY <1>3, <1>8, <1>10 DEF MInv, ParentsExist
  <2> QED
    BY <1>9, <1>10, <2>1
<1>12. LiveWasApproved'
  <2> SUFFICES ASSUME NEW j \in 1..Len(revs'),
                      revs'[j].status \in {"ACTIVE", "SUPERSEDED", "ROLLED_BACK"}
               PROVE  Approved(j)'
    BY DEF LiveWasApproved, Approved
  <2>1. j \in 1..Len(revs) /\ revs'[j] = revs[j]
    BY <1>8, <1>10
  <2> QED
    BY <1>7, <2>1, LiveApproved
<1>13. OneActiveModel'
  BY <1>1 DEF MInv, OneActiveModel
<1>14. run' \in [Runs -> RunStates] /\ exists' \subseteq Models /\ active' \subseteq exists'
  BY <1>1 DEF MInv, Typed, RunStates
<1> QED
  BY <1>1, <1>7, <1>10, <1>11, <1>12, <1>13, <1>14, EndStep

\* request_approval adds a request that nobody has decided.
LEMMA RequestApprovalInv ==
    ASSUME NEW r \in Runs, NEW action \in {"ACTIVATE", "ROLLBACK"}, NEW target \in Targets(r)
    PROVE  MInv /\ RequestApproval(r, action, target) => MInv'
<1> SUFFICES ASSUME MInv, RequestApproval(r, action, target) PROVE MInv'
  OBVIOUS
<1> DEFINE a == [run |-> r, target |-> target, action |-> action, status |-> "PENDING"]
<1>1. apprs' = Append(apprs, a) /\ UNCHANGED <<assetOf, exists, active, run, revs, tx>>
  BY DEF RequestApproval
<1>2. a \in ApprRow
  <2>1. target \in Nat
    BY Ids DEF Targets
  <2> QED
    BY <2>1 DEF ApprRow, ApprStates
<1> HIDE DEF a
<1>3. /\ apprs' \in Seq(ApprRow) /\ Len(apprs) <= Len(apprs')
      /\ \A k \in 1..Len(apprs) :
           apprs'[k].target = apprs[k].target /\ apprs'[k].status = apprs[k].status
      /\ \A j : Approved(j) => Approved(j)'
  BY <1>1, <1>2, ApprAdded
<1>4. Typed' /\ ParentsExist' /\ LocksExclude' /\ OneActiveModel'
  BY <1>1, <1>3 DEF MInv, Typed, ParentsExist, LocksExclude, OneActiveModel
<1>5. LiveWasApproved'
  <2> SUFFICES ASSUME NEW j \in 1..Len(revs'),
                      revs'[j].status \in {"ACTIVE", "SUPERSEDED", "ROLLED_BACK"}
               PROVE  Approved(j)'
    BY DEF LiveWasApproved, Approved
  <2> QED
    BY <1>1, <1>3, LiveApproved
<1>6. ASSUME NEW d \in Callers PROVE TxOK(tx[d])'
  <2>1. Len(apprs) \in Nat /\ Len(apprs') \in Nat /\ 1..Len(apprs) \subseteq 1..Len(apprs')
    BY <1>3, Ids
  <2>2. ArgsExist(tx[d])' /\ RequestOpen(tx[d])'
    BY <1>1, <1>3, <2>1, OpenCall DEF ArgsExist, RequestOpen
  <2>3. CandidateLocked(tx[d])' /\ SwitchesOwnAsset(tx[d])' /\ SlotTaken(tx[d])'
    BY <1>1, OpenCall DEF CandidateLocked, SwitchesOwnAsset, SlotTaken, CandOf, Slot
  <2>4. PICK t : t = tx[d]
    OBVIOUS
  <2>5. /\ t.pc \in {"a_run", "r_rev", "r_cand", "r_see", "r_models", "r_flush"} =>
             \A i \in t.prev : Approved(i)'
        /\ t.pc \in {"r_cand", "r_see", "r_models", "r_flush"} => Approved(t.rev)'
    BY <1>3, <2>4, OpenCall DEF ApprovedBefore
  <2>6. ApprovedBefore(tx[d])'
    BY <1>1, <2>4, <2>5 DEF ApprovedBefore, Approved
  <2> QED
    BY <2>2, <2>3, <2>6 DEF TxOK
<1> QED
  BY <1>4, <1>5, <1>6 DEF MInv

\* Switching to m: the index has seen that every other version of its asset is
\* among those switched off, so one version serves it afterwards.
LEMMA OneAfterSwitch ==
    ASSUME MInv, NEW m, NEW old, active' = (active \ old) \cup {m}, assetOf' = assetOf,
           \A k \in active : k # m /\ assetOf[k] = assetOf[m] => k \in old
    PROVE  OneActiveModel'
BY DEF MInv, OneActiveModel

\* approve_and_activate_deployment commits.
LEMMA ApprovesInv ==
    ASSUME NEW c \in Callers
    PROVE  MInv /\ Approves(c) => MInv'
<1> SUFFICES ASSUME MInv, Approves(c) PROVE MInv'
  OBVIOUS
<1> DEFINE i == tx[c].arg
           v == tx[c].rev
           m == CandOf(v)
           r == apprs[i].run
<1>1. /\ tx[c].pc = "a_run" /\ Ends(c) /\ active' = Switched(c)
      /\ revs' = [j \in 1..Len(revs) |->
                    CASE j = v -> [revs[j] EXCEPT !.status = "ACTIVE"]
                      [] j \in tx[c].prev -> [revs[j] EXCEPT !.status = "SUPERSEDED"]
                      [] OTHER -> revs[j]]
      /\ apprs' = [apprs EXCEPT ![i].status = "APPROVED"]
      /\ run' = [run EXCEPT ![r] = IF tx[c].seen = "PENDING_APPROVAL" THEN "ACTIVE" ELSE run[r]]
      /\ UNCHANGED <<assetOf, exists>>
  BY DEF Approves
<1>2. /\ i \in 1..Len(apprs) /\ v \in 1..Len(revs)
      /\ <<"appr", i>> \in tx[c].held /\ apprs[i].status = "PENDING" /\ apprs[i].target = v
      /\ m \in exists /\ Slot(m) \in tx[c].held
      /\ \A k \in active : k # m /\ assetOf[k] = assetOf[m] => k \in tx[c].old
      /\ \A j \in tx[c].prev : Approved(j)
  BY <1>1, OpenCall DEF ArgsExist, RequestOpen, CandidateLocked, SlotTaken, ApprovedBefore,
         Approving, Rejecting, HasRevision, HasCandidate
<1> HIDE DEF i, v, m
<1>3. ASSUME NEW j \in 1..Len(revs)
      PROVE  /\ revs'[j] \in RevRow /\ revs'[j].run = revs[j].run
             /\ revs'[j].parent = revs[j].parent
             /\ j # v /\ j \notin tx[c].prev => revs'[j] = revs[j]
  <2>1. revs[j] \in RevRow
    BY Ids
  <2>2. \/ revs'[j] = [revs[j] EXCEPT !.status = "ACTIVE"]
        \/ revs'[j] = [revs[j] EXCEPT !.status = "SUPERSEDED"]
        \/ revs'[j] = revs[j]
    BY <1>1
  <2>3. j # v /\ j \notin tx[c].prev => revs'[j] = revs[j]
    BY <1>1
  <2> QED
    BY <2>1, <2>2, <2>3 DEF RevRow, RevStates
<1>4. revs' = [j \in 1..Len(revs) |-> revs'[j]]
  BY <1>1
<1>5. /\ revs' \in Seq(RevRow) /\ Len(revs') = Len(revs)
      /\ \A j \in 1..Len(revs') : revs'[j].parent \in 0..Len(revs')
  <2>1. PICK f : f = revs'
    OBVIOUS
  <2>2. /\ f = [j \in 1..Len(revs) |-> f[j]]
        /\ \A j \in 1..Len(revs) : /\ f[j] \in RevRow /\ f[j].run = revs[j].run
                                   /\ f[j].parent = revs[j].parent
    BY <1>3, <1>4, <2>1
  <2> QED
    BY <2>1, <2>2, RevsRewritten
<1>6. /\ apprs' \in Seq(ApprRow) /\ Len(apprs') = Len(apprs)
      /\ apprs'[i].status = "APPROVED"
      /\ \A k \in 1..Len(apprs) :
           /\ apprs'[k].target = apprs[k].target
           /\ k # i => apprs'[k].status = apprs[k].status
      /\ \A j : Approved(j) => Approved(j)'
  BY <1>1, <1>2, ApprDecided
<1>7. ParentsExist'
  BY <1>5 DEF ParentsExist
<1>8. LiveWasApproved'
  <2> SUFFICES ASSUME NEW j \in 1..Len(revs'),
                      revs'[j].status \in {"ACTIVE", "SUPERSEDED", "ROLLED_BACK"}
               PROVE  Approved(j)'
    BY DEF LiveWasApproved, Approved
  <2>1. CASE j = v
    BY <1>2, <1>6, <2>1 DEF Approved
  <2>2. CASE j \in tx[c].prev
    BY <1>2, <1>6, <2>2
  <2>3. CASE j # v /\ j \notin tx[c].prev
    BY <1>3, <1>5, <1>6, <2>3, LiveApproved
  <2> QED
    BY <2>1, <2>2, <2>3
<1>9. active' = (active \ tx[c].old) \cup {m}
  BY <1>1 DEF Switched, m, v
<1>10. OneActiveModel'
  BY <1>1, <1>2, <1>9, OneAfterSwitch
<1>11. exists' \subseteq Models /\ active' \subseteq exists'
  BY <1>1, <1>2, <1>9 DEF MInv, Typed
<1>12. \A k \in active' \ active : Slot(k) \in tx[c].held
  BY <1>2, <1>9
<1>13. run' \in [Runs -> RunStates]
  <2>1. r \in Runs
    BY <1>2, Ids DEF ApprRow
  <2> QED
    BY <1>1, <2>1 DEF MInv, Typed, RunStates
<1>14. Len(revs) <= Len(revs') /\ Len(apprs) <= Len(apprs')
  BY <1>5, <1>6, Ids
<1>15. \A k \in 1..Len(apprs) :
           /\ apprs'[k].target = apprs[k].target
           /\ \/ apprs'[k].status = apprs[k].status
              \/ apprs[k].status = "PENDING" /\ <<"appr", k>> \in tx[c].held
  BY <1>2, <1>6
<1> QED
  BY <1>1, <1>3, <1>5, <1>6, <1>7, <1>8, <1>10, <1>11, <1>12, <1>13, <1>14, <1>15, EndStep

\* reject_deployment_approval commits.
LEMMA RejectsInv ==
    ASSUME NEW c \in Callers
    PROVE  MInv /\ Rejects(c) => MInv'
<1> SUFFICES ASSUME MInv, Rejects(c) PROVE MInv'
  OBVIOUS
<1> DEFINE i == tx[c].arg
           v == tx[c].rev
           r == apprs[i].run
<1>1. /\ tx[c].pc = "j_run" /\ Ends(c)
      /\ revs' = [revs EXCEPT ![v].status = "REJECTED"]
      /\ apprs' = [apprs EXCEPT ![i].status = "REJECTED"]
      /\ run' = [run EXCEPT ![r] = IF @ = "PENDING_APPROVAL" THEN "REJECTED" ELSE @]
      /\ UNCHANGED <<assetOf, exists, active>>
  BY DEF Rejects
<1>2. /\ i \in 1..Len(apprs) /\ v \in 1..Len(revs)
      /\ <<"appr", i>> \in tx[c].held /\ apprs[i].status = "PENDING"
  BY <1>1, OpenCall DEF ArgsExist, RequestOpen, CandidateLocked, SlotTaken, ApprovedBefore,
         Approving, Rejecting, HasRevision, HasCandidate
<1> HIDE DEF i, v
<1>3. revs \in Seq(RevRow) /\ \A j \in 1..Len(revs) : revs[j] \in RevRow
  BY Ids DEF MInv, Typed
<1> DEFINE x == [revs[v] EXCEPT !.status = "REJECTED"]
<1>4. x \in RevRow /\ x.run = revs[v].run /\ x.parent = revs[v].parent /\ x.status = "REJECTED"
  BY <1>2, <1>3 DEF RevRow, RevStates
<1>5. revs' = [revs EXCEPT ![v] = x]
  BY <1>1
<1> HIDE DEF x
<1>6. revs' \in Seq(RevRow) /\ Len(revs') = Len(revs)
  BY <1>2, <1>3, <1>4, <1>5
<1>7. revs'[v] = x /\ \A j \in 1..Len(revs) : j # v => revs'[j] = revs[j]
  BY <1>2, <1>3, <1>5
<1>8. ASSUME NEW j \in 1..Len(revs)
      PROVE  /\ revs'[j].run = revs[j].run
             /\ revs'[j].parent = revs[j].parent
             /\ revs'[j].status \in {revs[j].status, "REJECTED"}
  BY <1>4, <1>7
<1>9. /\ revs' \in Seq(RevRow) /\ Len(revs') = Len(revs)
      /\ \A j \in 1..Len(revs') : revs'[j].parent \in 0..Len(revs')
  BY <1>6, <1>8 DEF MInv, ParentsExist
<1>10. /\ apprs' \in Seq(ApprRow) /\ Len(apprs') = Len(apprs)
      /\ \A k \in 1..Len(apprs) :
           /\ apprs'[k].target = apprs[k].target
           /\ k # i => apprs'[k].status = apprs[k].status
      /\ \A j : Approved(j) => Approved(j)'
  BY <1>1, <1>2, ApprDecided
<1>11. LiveWasApproved'
  <2> SUFFICES ASSUME NEW j \in 1..Len(revs'),
                      revs'[j].status \in {"ACTIVE", "SUPERSEDED", "ROLLED_BACK"}
               PROVE  Approved(j)'
    BY DEF LiveWasApproved, Approved
  <2>1. j \in 1..Len(revs)
    BY <1>9
  <2>2. revs[j].status \in {"ACTIVE", "SUPERSEDED", "ROLLED_BACK"}
    BY <1>8, <2>1
  <2>3. Approved(j)
    BY <2>1, <2>2, LiveApproved
  <2> QED
    BY <1>10, <2>3 DEF Approved
<1>12. ParentsExist' /\ OneActiveModel'
  BY <1>1, <1>9 DEF ParentsExist, OneActiveModel, MInv
<1>13. run' \in [Runs -> RunStates] /\ exists' \subseteq Models /\ active' \subseteq exists'
  BY <1>1 DEF MInv, Typed, RunStates
<1>14. Len(revs) <= Len(revs') /\ Len(apprs) <= Len(apprs')
  BY <1>9, <1>10, Ids
<1>15. \A k \in 1..Len(apprs) :
           /\ apprs'[k].target = apprs[k].target
           /\ \/ apprs'[k].status = apprs[k].status
              \/ apprs[k].status = "PENDING" /\ <<"appr", k>> \in tx[c].held
  BY <1>2, <1>10
<1> QED
  BY <1>1, <1>8, <1>9, <1>10, <1>11, <1>12, <1>13, <1>14, <1>15, EndStep

\* rollback_deployment flushes and commits.
LEMMA RollsBackInv ==
    ASSUME NEW c \in Callers
    PROVE  MInv /\ RollsBack(c) => MInv'
<1> SUFFICES ASSUME MInv, RollsBack(c) PROVE MInv'
  OBVIOUS
<1> DEFINE v == tx[c].rev
           m == CandOf(v)
<1>1. CASE Fails(c)
  BY <1>1, FailStep DEF RollsBack
<1>2. CASE ~Fails(c)
  <2>1. /\ tx[c].pc = "r_flush" /\ Ends(c) /\ active' = Switched(c)
        /\ Free(c, {Slot(m)}) /\ ~IndexRefuses(m, tx[c].old)
        /\ revs' = [j \in 1..Len(revs) |->
                      CASE j = v -> [revs[j] EXCEPT !.status = "ACTIVE"]
                        [] j \in tx[c].prev -> [revs[j] EXCEPT !.status = "ROLLED_BACK"]
                        [] OTHER -> revs[j]]
        /\ UNCHANGED <<assetOf, exists, run, apprs>>
    BY <1>2 DEF RollsBack
  <2>2. /\ v \in 1..Len(revs) /\ m \in exists /\ Approved(v)
        /\ \A j \in tx[c].prev : Approved(j)
    BY <2>1, OpenCall DEF ArgsExist, RequestOpen, CandidateLocked, SlotTaken, ApprovedBefore,
         Approving, Rejecting, HasRevision, HasCandidate
  <2>3. \A k \in active : k # m /\ assetOf[k] = assetOf[m] => k \in tx[c].old
    BY <2>1 DEF IndexRefuses, Same, MInv, Typed
  <2>4. active' = (active \ tx[c].old) \cup {m}
    BY <2>1 DEF Switched
  <2> HIDE DEF v, m
  <2>5. ASSUME NEW j \in 1..Len(revs)
        PROVE  /\ revs'[j] \in RevRow /\ revs'[j].run = revs[j].run
               /\ revs'[j].parent = revs[j].parent
               /\ j # v /\ j \notin tx[c].prev => revs'[j] = revs[j]
    <3>1. revs[j] \in RevRow
      BY Ids
    <3>2. \/ revs'[j] = [revs[j] EXCEPT !.status = "ACTIVE"]
          \/ revs'[j] = [revs[j] EXCEPT !.status = "ROLLED_BACK"]
          \/ revs'[j] = revs[j]
      BY <2>1
    <3>3. j # v /\ j \notin tx[c].prev => revs'[j] = revs[j]
      BY <2>1
    <3> QED
      BY <3>1, <3>2, <3>3 DEF RevRow, RevStates
  <2>6. revs' = [j \in 1..Len(revs) |-> revs'[j]]
    BY <2>1
  <2>7. /\ revs' \in Seq(RevRow) /\ Len(revs') = Len(revs)
        /\ \A j \in 1..Len(revs') : revs'[j].parent \in 0..Len(revs')
    <3>1. PICK f : f = revs'
      OBVIOUS
    <3>2. /\ f = [j \in 1..Len(revs) |-> f[j]]
          /\ \A j \in 1..Len(revs) : /\ f[j] \in RevRow /\ f[j].run = revs[j].run
                                     /\ f[j].parent = revs[j].parent
      BY <2>5, <2>6, <3>1
    <3> QED
      BY <3>1, <3>2, RevsRewritten
  <2>8. ParentsExist'
    BY <2>7 DEF ParentsExist
  <2>9. LiveWasApproved'
    <3> SUFFICES ASSUME NEW j \in 1..Len(revs'),
                        revs'[j].status \in {"ACTIVE", "SUPERSEDED", "ROLLED_BACK"}
                 PROVE  Approved(j)
      BY <2>1 DEF LiveWasApproved, Approved
    <3>1. CASE j = v \/ j \in tx[c].prev
      BY <2>2, <3>1
    <3>2. CASE j # v /\ j \notin tx[c].prev
      BY <2>5, <2>7, <3>2, LiveApproved
    <3> QED
      BY <3>1, <3>2
  <2>10. OneActiveModel'
    BY <2>1, <2>3, <2>4, OneAfterSwitch
  <2>11. /\ exists' \subseteq Models /\ active' \subseteq exists'
         /\ run' \in [Runs -> RunStates] /\ apprs' \in Seq(ApprRow)
    BY <2>1, <2>2, <2>4 DEF MInv, Typed
  <2>12. \A k \in active' \ active : Free(c, {Slot(k)})
    BY <2>1, <2>4
  <2>13. Len(revs) <= Len(revs') /\ Len(apprs) <= Len(apprs')
    BY <2>1, <2>7, Ids
  <2> QED
    BY <2>1, <2>5, <2>7, <2>8, <2>9, <2>10, <2>11, <2>12, <2>13, EndStep
<1> QED
  BY <1>1, <1>2

\* The other writers touch only the registry.
LEMMA RegistryStep ==
    ASSUME MInv, NEW c \in Callers, Ends(c), UNCHANGED <<assetOf, run, revs, apprs>>,
           exists' \subseteq Models, active' \subseteq exists', OneActiveModel',
           \A k \in exists \ exists' : Free(c, Row("model", {k})),
           \A k \in active' \ active : Free(c, {Slot(k)})
    PROVE  MInv'
<1>1. revs' \in Seq(RevRow) /\ apprs' \in Seq(ApprRow) /\ run' \in [Runs -> RunStates]
  BY DEF MInv, Typed
<1>2. Len(revs) <= Len(revs') /\ Len(apprs) <= Len(apprs')
  BY Ids
<1>3. ParentsExist' /\ LiveWasApproved'
  BY DEF MInv, ParentsExist, LiveWasApproved
<1> QED
  BY <1>1, <1>2, <1>3, EndStep

\* The dashboards' activation and the trainers.
LEMMA SwitchCommitsInv ==
    ASSUME NEW c \in Callers
    PROVE  MInv /\ SwitchCommits(c) => MInv'
<1> SUFFICES ASSUME MInv, SwitchCommits(c) PROVE MInv'
  OBVIOUS
<1> DEFINE m == tx[c].arg
           row == IF m \in exists \/ Trained(m) THEN {m} ELSE {}
<1>1. CASE Fails(c)
  BY <1>1, FailStep DEF SwitchCommits
<1>2. CASE ~Fails(c)
  <2>1. /\ tx[c].pc = "s_on" /\ Free(c, {Slot(m)}) /\ Ends(c)
        /\ row = {} \/ Same(m) \cap active \subseteq tx[c].old
        /\ active' = (active \ tx[c].old) \cup row
        /\ exists' = exists \cup row
        /\ UNCHANGED <<assetOf, run, revs, apprs>>
    BY <1>2 DEF SwitchCommits
  <2>2. m \in Models
    BY <2>1, OpenCall DEF ArgsExist
  <2>3. row \in {{}, {m}}
    OBVIOUS
  <2> HIDE DEF row, m
  <2>4. exists' \subseteq Models /\ active' \subseteq exists'
    BY <2>1, <2>2, <2>3 DEF MInv, Typed
  <2>5. OneActiveModel'
    <3>1. CASE row = {}
      BY <2>1, <3>1 DEF MInv, OneActiveModel
    <3>2. CASE row = {m} /\ Same(m) \cap active \subseteq tx[c].old
      BY <2>1, <3>2, OneAfterSwitch DEF MInv, Typed, Same
    <3> QED
      BY <2>1, <2>3, <3>1, <3>2
  <2>6. \A k \in active' \ active : Free(c, {Slot(k)})
    BY <2>1, <2>3
  <2>7. exists \ exists' = {}
    BY <2>1
  <2> QED
    BY <2>1, <2>4, <2>5, <2>6, <2>7, RegistryStep
<1> QED
  BY <1>1, <1>2

\* The deletion of a version.
LEMMA DeletesInv ==
    ASSUME NEW c \in Callers
    PROVE  MInv /\ Deletes(c) => MInv'
<1> SUFFICES ASSUME MInv, Deletes(c) PROVE MInv'
  OBVIOUS
<1> DEFINE m == tx[c].arg
<1>1. /\ Free(c, Row("model", {m})) /\ Ends(c)
      /\ exists' = exists \ {m} /\ active' = active \ {m}
      /\ UNCHANGED <<assetOf, run, revs, apprs>>
  BY DEF Deletes
<1>2. exists' \subseteq Models /\ active' \subseteq exists' /\ OneActiveModel'
  BY <1>1 DEF MInv, Typed, OneActiveModel
<1>3. \A k \in exists \ exists' : Free(c, Row("model", {k}))
  BY <1>1
<1>4. active' \ active = {}
  BY <1>1
<1> QED
  BY <1>1, <1>2, <1>3, <1>4, RegistryStep
-----------------------------------------------------------------------------
(* The invariant.                                                           *)

\* A fresh registry with one active version satisfies the invariant.
LEMMA MInvInit == Init => MInv
<1> SUFFICES ASSUME Init PROVE MInv
  OBVIOUS
<1>1. exists \subseteq Models /\ active \subseteq exists /\ run \in [Runs -> RunStates]
  BY DeploymentAssumption DEF Init, Models, RunStates
<1>2. revs \in Seq(RevRow) /\ apprs \in Seq(ApprRow) /\ Len(revs) = 0 /\ Len(apprs) = 0
  BY DEF Init
<1>3. tx \in [Callers -> TxRow] /\ \A c \in Callers : tx[c] = Idle
  BY IdleTyped DEF Init
<1>4. Typed
  BY <1>1, <1>2, <1>3 DEF Typed, Init
<1>5. ParentsExist /\ LiveWasApproved
  BY <1>2 DEF ParentsExist, LiveWasApproved
<1>6. LocksExclude
  BY <1>3, IdleTyped DEF LocksExclude
<1>7. \A c \in Callers : TxOK(tx[c])
  BY <1>3, IdleOK
<1>8. OneActiveModel
  BY DEF Init, OneActiveModel
<1> QED
  BY <1>4, <1>5, <1>6, <1>7, <1>8 DEF MInv

\* Every step of every call keeps the invariant.
LEMMA MInvNext == MInv /\ [Next]_vars => MInv'
<1> SUFFICES ASSUME MInv, [Next]_vars PROVE MInv'
  OBVIOUS
<1>1. ASSUME NEW c \in Callers, Step(c) PROVE MInv'
  BY <1>1, ProposeLocksRunInv, ProposeFindsPendingInv, SeesRevisionsInv, ProposesInv, SkipsInv,
     LocksRequestInv, LocksRevisionInv, LocksCandidateInv, SeesActiveModelsInv,
     LocksActiveModelsInv, ApproveFlushesInv, ApproveLocksActiveInv, ApprovesInv,
     RejectLocksRevisionInv, RejectsInv, RollbackLocksCurrentInv, RollsBackInv,
     SwitchMovesInv, SwitchCommitsInv, DeletesInv DEF Step
<1>2. ASSUME NEW c \in Callers, Starts(c) PROVE MInv'
  BY <1>2, StartsInv
<1>3. ASSUME NEW c \in Callers, Aborts(c) PROVE MInv'
  BY <1>3, FailStep DEF Aborts
<1>4. ASSUME NEW r \in Runs, NEW action \in {"ACTIVATE", "ROLLBACK"}, NEW target \in Targets(r),
             RequestApproval(r, action, target)
      PROVE  MInv'
  BY <1>4, RequestApprovalInv
<1>5. CASE UNCHANGED vars
  <2>1. UNCHANGED <<assetOf, exists, active, run, revs, apprs, tx>>
    BY <1>5 DEF vars
  <2>2. Typed' /\ ParentsExist' /\ LocksExclude' /\ OneActiveModel' /\ LiveWasApproved'
    BY <2>1 DEF MInv, Typed, ParentsExist, LocksExclude, OneActiveModel, LiveWasApproved
  <2>3. ASSUME NEW d \in Callers PROVE TxOK(tx[d])'
    <3>1. TxOK(tx[d])
      BY DEF MInv
    <3>2. ArgsExist(tx[d])' /\ RequestOpen(tx[d])' /\ CandidateLocked(tx[d])' /\ SwitchesOwnAsset(tx[d])'
      BY <2>1, <3>1 DEF TxOK, ArgsExist, RequestOpen, CandidateLocked, SwitchesOwnAsset, CandOf
    <3>3. SlotTaken(tx[d])' /\ ApprovedBefore(tx[d])'
      BY <2>1, <3>1 DEF TxOK, SlotTaken, ApprovedBefore, Approved, CandOf, Slot
    <3> QED
      BY <3>2, <3>3 DEF TxOK
  <2> QED
    BY <2>2, <2>3 DEF MInv
<1> QED
  BY <1>1, <1>2, <1>3, <1>4, <1>5 DEF Next

\* The invariant holds in every reachable state.
LEMMA MInvHolds == Spec => []MInv
BY MInvInit, MInvNext, PTL DEF Spec

-----------------------------------------------------------------------------
(* The theorems.                                                            *)

\* A revision that is or was live has an approved request of its own:
\* approve_and_activate_deployment decides the request it has locked, and
\* rollback_deployment restores only revisions that were live before.
THEOREM LiveModelsWereApproved == Spec => []LiveWasApproved
<1>1. MInv => LiveWasApproved
  BY DEF MInv
<1> QED
  BY <1>1, MInvHolds, PTL

-----------------------------------------------------------------------------
(* The registry and the revisions.                                          *)

\* The revisions that an approval made live.
Lived == {apprs[k].target : k \in {k \in 1..Len(apprs) : apprs[k].status = "APPROVED"}}
SameAsset(k, i) == assetOf[k] = assetOf[CandOf(i)]

\* An asset's serving version is never older than one that served it before: a
\* flush that switches back to a lower id is refused by the index.
OnlyForward == \A i \in Lived : \E k \in active : SameAsset(k, i) /\ CandOf(i) <= k

\* An approval that has flushed knows every ACTIVE revision of its asset, and
\* its candidate is the newest version that serves the asset.
Covers(t) ==
    /\ t.pc = "a_revs" => \A i \in ActiveRevs \ {t.rev} : SameAsset(CandOf(t.rev), i) => i \in t.saw
    /\ t.pc = "a_run" => \A i \in ActiveRevs \ {t.rev} : SameAsset(CandOf(t.rev), i) => i \in t.prev
    /\ t.pc \in {"a_revs", "a_run"} => \A k \in active : SameAsset(k, t.rev) => k <= CandOf(t.rev)

RInv ==
    ~meddled =>
      /\ \A i \in ActiveRevs : CandOf(i) \in active
      /\ OnlyForward /\ Lived \subseteq 1..Len(revs)
      /\ \A c \in Callers : Covers(tx[c])

\* What a call has found out survives the commits of others: they make no
\* revision ACTIVE and no version serve in an asset whose index entry it holds.
LEMMA CoversKept ==
    ASSUME MInv, NEW d \in Callers, tx'[d] = tx[d], Covers(tx[d]),
           assetOf' = assetOf, \A i \in 1..Len(revs) : revs'[i].run = revs[i].run,
           \A i \in ActiveRevs' : i \in ActiveRevs \/ Slot(CandOf(i)') \notin tx[d].held,
           \A k \in active' : k \in active \/ Slot(k) \notin tx[d].held
    PROVE  Covers(tx[d])'
<1> DEFINE t == tx[d]
<1>1. ArgsExist(t) /\ SlotTaken(t)
  BY OpenCall
<1>2. CASE t.pc \notin {"a_revs", "a_run"}
  BY <1>2 DEF Covers
<1>3. CASE t.pc \in {"a_revs", "a_run"}
  <2>1. /\ t.rev \in 1..Len(revs) /\ Slot(CandOf(t.rev)) \in t.held
    BY <1>1, <1>3 DEF ArgsExist, SlotTaken, HasRevision, Approving
  <2>2. \A i \in 1..Len(revs) : CandOf(i)' = CandOf(i)
    BY DEF CandOf, Cand
  <2>3. CandOf(t.rev)' = CandOf(t.rev)
    BY <2>1, <2>2
  <2>4. \A i \in ActiveRevs : i \in 1..Len(revs)
    BY DEF ActiveRevs
  <2>5. ASSUME NEW i \in ActiveRevs', assetOf[CandOf(t.rev)] = assetOf[CandOf(i)']
        PROVE  i \in ActiveRevs /\ CandOf(i)' = CandOf(i)
    <3>1. Slot(CandOf(i)') = Slot(CandOf(t.rev))
      BY <2>5 DEF Slot
    <3> QED
      BY <2>1, <2>2, <2>4, <3>1
  <2>6. ASSUME NEW k \in active', assetOf[k] = assetOf[CandOf(t.rev)] PROVE k \in active
    BY <2>1, <2>6 DEF Slot
  <2> QED
    BY <1>3, <2>3, <2>5, <2>6 DEF Covers, SameAsset
<1> QED
  BY <1>2, <1>3

\* A step that writes no revision and no flag, of a call that has not flushed
\* or that has covered its asset.
LEMMA QuietStep ==
    ASSUME MInv, RInv, NEW c \in Callers, NEW t, Moves(c, t), UNCHANGED <<assetOf, revs, apprs, active, meddled>>,
           t.pc \notin {"a_revs", "a_run"} \/ (~meddled => Covers(t))
    PROVE  RInv'
<1> SUFFICES ASSUME ~meddled PROVE RInv'
  BY DEF RInv
<1>1. tx'[c] = t /\ \A d \in Callers \ {c} : tx'[d] = tx[d]
  BY DEF MInv, Typed, Moves
<1>2. ActiveRevs' = ActiveRevs /\ Lived' = Lived /\ \A i : CandOf(i)' = CandOf(i)
  BY DEF ActiveRevs, Lived, CandOf
<1>3. OnlyForward' /\ Lived' \subseteq 1..Len(revs') /\ \A i \in ActiveRevs' : CandOf(i)' \in active'
  BY <1>2 DEF RInv, OnlyForward, SameAsset
<1>4. ASSUME NEW d \in Callers \ {c} PROVE Covers(tx[d])'
  BY <1>1, <1>2, CoversKept DEF RInv
<1>5. Covers(tx[c])'
  <2>1. CASE t.pc \notin {"a_revs", "a_run"}
    BY <1>1, <2>1 DEF Covers
  <2>2. CASE Covers(t)
    BY <1>1, <1>2, <2>2 DEF Covers, SameAsset
  <2> QED
    BY <2>1, <2>2
<1>6. \A d \in Callers : Covers(tx[d])'
  BY <1>4, <1>5
<1> QED
  BY <1>3, <1>6 DEF RInv

\* A call that fails leaves no trace.
LEMMA FailQuiet ==
    ASSUME MInv, RInv, NEW c \in Callers, Fails(c), assetOf' = assetOf
    PROVE  RInv'
<1>1. Moves(c, Idle) /\ UNCHANGED <<assetOf, revs, apprs, active, meddled>> /\ Idle.pc = "idle"
  BY IdleTyped DEF Fails, Ends, Moves, tables
<1> QED
  BY <1>1, QuietStep

\* The statements of propose, reject and the dashboards, and those of approve
\* and rollback up to the flush.
LEMMA ReadsQuiet ==
    ASSUME MInv, RInv, NEW c \in Callers,
           \/ ProposeLocksRun(c) \/ ProposeFindsPending(c) \/ ProposeSeesParent(c) \/ Skips(c)
           \/ ApproveLocksRequest(c) \/ LocksRevision(c) \/ LocksCandidate(c)
           \/ SeesActiveModels(c) \/ LocksActiveModels(c)
           \/ RejectLocksRequest(c) \/ RejectLocksRevision(c)
           \/ RollbackSeesCurrent(c) \/ RollbackLocksCurrent(c) \/ SwitchSees(c) \/ SwitchLocks(c)
    PROVE  RInv'
<1>1. tx[c] \in TxRow
  BY OpenCall
<1>2. CASE Fails(c)
  <2>1. assetOf' = assetOf
    BY DEF ProposeLocksRun, ProposeFindsPending, ProposeSeesParent, Skips, ApproveLocksRequest,
         LocksRevision, LocksCandidate, SeesActiveModels, LocksActiveModels, RejectLocksRequest,
         RejectLocksRevision, RollbackSeesCurrent, RollbackLocksCurrent, SwitchSees, SwitchLocks
  <2> QED
    BY <1>2, <2>1, FailQuiet
<1>3. ASSUME NEW t, Moves(c, t), UNCHANGED <<assetOf, revs, apprs, active, meddled>>,
             t.pc \notin {"a_revs", "a_run"}
      PROVE  RInv'
  BY <1>3, QuietStep
<1>4. CASE ProposeLocksRun(c) /\ ~Fails(c)
  BY <1>1, <1>3, <1>4 DEF ProposeLocksRun, Locks, TxRow, tables
<1>5. CASE ProposeFindsPending(c)
  <2>1. UNCHANGED <<assetOf, revs, apprs, active, meddled>>
    BY <1>5 DEF ProposeFindsPending, tables
  <2>2. CASE Ends(c)
    BY <1>3, <2>1, <2>2, IdleTyped DEF Ends, Moves
  <2>3. CASE ~Ends(c)
    <3>1. PICK i \in tx[c].saw : Moves(c, [Locks(c, Row("appr", {i}), "p_see") EXCEPT !.saw = {}])
      BY <1>5, <2>3 DEF ProposeFindsPending
    <3>2. [Locks(c, Row("appr", {i}), "p_see") EXCEPT !.saw = {}].pc = "p_see"
      BY <1>1 DEF Locks, TxRow
    <3> QED
      BY <1>3, <2>1, <3>1, <3>2
  <2> QED
    BY <2>2, <2>3
<1>6. CASE ProposeSeesParent(c) \/ Skips(c) \/ RollbackSeesCurrent(c)
  <2>1. UNCHANGED <<assetOf, revs, apprs, active, meddled>>
    BY <1>6 DEF ProposeSeesParent, Skips, RollbackSeesCurrent, tables
  <2>2. CASE ProposeSeesParent(c)
    <3>1. Moves(c, [tx[c] EXCEPT !.pc = "p_parent", !.saw = ActiveRevs])
      BY <2>2 DEF ProposeSeesParent
    <3>2. [tx[c] EXCEPT !.pc = "p_parent", !.saw = ActiveRevs].pc = "p_parent"
      BY <1>1 DEF TxRow
    <3> QED
      BY <1>3, <2>1, <3>1, <3>2
  <2>3. CASE Skips(c)
    <3>1. PICK S : Moves(c, [tx[c] EXCEPT !.saw = S]) /\ tx[c].pc \in {"p_parent", "r_cur"}
      BY <2>3 DEF Skips
    <3>2. [tx[c] EXCEPT !.saw = S].pc = tx[c].pc
      BY <1>1 DEF TxRow
    <3> QED
      BY <1>3, <2>1, <3>1, <3>2
  <2>4. CASE RollbackSeesCurrent(c)
    <3>1. Moves(c, [tx[c] EXCEPT !.pc = "r_cur", !.saw = ActiveRevs])
      BY <2>4 DEF RollbackSeesCurrent
    <3>2. [tx[c] EXCEPT !.pc = "r_cur", !.saw = ActiveRevs].pc = "r_cur"
      BY <1>1 DEF TxRow
    <3> QED
      BY <1>3, <2>1, <3>1, <3>2
  <2> QED
    BY <1>6, <2>2, <2>3, <2>4
<1>7. CASE (ApproveLocksRequest(c) \/ RejectLocksRequest(c) \/ RejectLocksRevision(c)) /\ ~Fails(c)
  BY <1>1, <1>3, <1>7 DEF ApproveLocksRequest, RejectLocksRequest, RejectLocksRevision, Locks, TxRow, tables
<1>8. CASE (LocksRevision(c) \/ LocksCandidate(c)) /\ ~Fails(c)
  BY <1>1, <1>3, <1>8 DEF LocksRevision, LocksCandidate, Locks, TxRow, tables
<1>9. CASE SeesActiveModels(c) \/ LocksActiveModels(c)
  BY <1>1, <1>3, <1>9 DEF SeesActiveModels, LocksActiveModels, Locks, TxRow, tables
<1>10. CASE RollbackLocksCurrent(c) /\ ~Fails(c)
  BY <1>1, <1>3, <1>10 DEF RollbackLocksCurrent, Locks, TxRow, tables
<1>11. CASE SwitchSees(c) \/ SwitchLocks(c)
  BY <1>1, <1>3, <1>11 DEF SwitchSees, SwitchLocks, Locks, TxRow, tables
<1> QED
  BY <1>2, <1>4, <1>5, <1>6, <1>7, <1>8, <1>9, <1>10, <1>11

\* The flush: the index compares the candidate with what serves its asset, and
\* the ACTIVE revisions are read while its entry is held.
LEMMA FlushCovers ==
    ASSUME NEW c \in Callers
    PROVE  MInv /\ RInv /\ (ApproveFlushes(c) \/ ApproveLocksActive(c)) => RInv'
<1> SUFFICES ASSUME MInv, RInv, ApproveFlushes(c) \/ ApproveLocksActive(c) PROVE RInv'
  OBVIOUS
<1>1. tx[c] \in TxRow /\ ArgsExist(tx[c])
  BY OpenCall
<1>2. CASE Fails(c)
  BY <1>2, FailQuiet DEF ApproveFlushes, ApproveLocksActive
<1>3. CASE ApproveFlushes(c) /\ ~Fails(c)
  <2> DEFINE m == CandOf(tx[c].rev)
             S == ActiveRevs \ {tx[c].rev}
             t == [Locks(c, {Slot(m)}, "a_revs") EXCEPT !.saw = S]
  <2>1. /\ Moves(c, t) /\ UNCHANGED <<assetOf, revs, apprs, active, meddled>>
        /\ tx[c].pc = "a_flush" /\ ~IndexRefuses(m, tx[c].old)
    BY <1>3 DEF ApproveFlushes, tables
  <2>2. m \in Models /\ Models \subseteq Nat /\ active \subseteq Nat
    BY <1>1, <2>1, Ids DEF ArgsExist, HasRevision, Approving, MInv, Typed
  <2>3. ASSUME NEW k \in active, assetOf[k] = assetOf[m] PROVE k <= m
    <3>1. k \in exists
      BY DEF MInv, Typed
    <3>2. k # m => ~(k > m)
      BY <2>1, <2>3, <3>1, Zenon DEF IndexRefuses, Same
    <3> HIDE DEF m
    <3> QED
      BY <2>2, <3>2
  <2>4. t.pc = "a_revs" /\ t.saw = S /\ t.rev = tx[c].rev
    BY <1>1 DEF Locks, TxRow
  <2> HIDE DEF t
  <2>5. Covers(t)
    BY <2>3, <2>4 DEF Covers, SameAsset
  <2> QED
    BY <2>1, <2>5, QuietStep
<1>4. CASE ApproveLocksActive(c)
  <2> DEFINE S == tx[c].saw \cap ActiveRevs
             t == [Locks(c, Row("rev", S), "a_run") EXCEPT !.saw = {}, !.prev = S]
  <2>1. Moves(c, t) /\ UNCHANGED <<assetOf, revs, apprs, active, meddled>> /\ tx[c].pc = "a_revs"
    BY <1>4 DEF ApproveLocksActive, tables
  <2>2. t.pc = "a_run" /\ t.prev = S /\ t.rev = tx[c].rev
    BY <1>1 DEF Locks, TxRow
  <2> HIDE DEF t
  <2>3. ~meddled => Covers(t)
    BY <2>1, <2>2 DEF RInv, Covers, SameAsset
  <2> QED
    BY <2>1, <2>3, QuietStep
<1> QED
  BY <1>2, <1>3, <1>4

\* A rejection leaves fewer revisions ACTIVE, a proposal adds one that is not.
LEMMA RevisionsQuiet ==
    ASSUME MInv, RInv, NEW c \in Callers, Ends(c), UNCHANGED <<assetOf, active, meddled>>,
           \A i \in 1..Len(revs) : revs'[i].run = revs[i].run,
           Len(revs) <= Len(revs'), Len(revs') \in Nat,
           Lived' \subseteq Lived, ActiveRevs' \subseteq ActiveRevs
    PROVE  RInv'
<1> SUFFICES ASSUME ~meddled PROVE RInv'
  BY DEF RInv
<1>1. tx'[c] = Idle /\ \A d \in Callers \ {c} : tx'[d] = tx[d]
  BY DEF MInv, Typed, Ends
<1>2. \A i \in Lived \cup ActiveRevs : CandOf(i)' = CandOf(i)
  BY DEF RInv, ActiveRevs, CandOf, Cand
<1>3. OnlyForward' /\ \A i \in ActiveRevs' : CandOf(i)' \in active'
  BY <1>2 DEF RInv, OnlyForward, SameAsset
<1>7. Lived' \subseteq 1..Len(revs')
  BY Ids DEF RInv
<1>4. ASSUME NEW d \in Callers \ {c} PROVE Covers(tx[d])'
  BY <1>1, CoversKept DEF RInv
<1>5. Covers(tx[c])'
  BY <1>1, IdleTyped DEF Covers
<1>6. \A d \in Callers : Covers(tx[d])'
  BY <1>4, <1>5
<1> QED
  BY <1>3, <1>6, <1>7 DEF RInv

\* An open request makes nothing live.
LEMMA LivedAppend ==
    ASSUME MInv, NEW a, apprs' = Append(apprs, a), a.status = "PENDING"
    PROVE  Lived' \subseteq Lived
<1>1. apprs \in Seq(ApprRow) /\ Len(apprs) \in Nat
  BY Ids DEF MInv, Typed
<1>2. /\ \A k \in 1..Len(apprs) : apprs'[k] = apprs[k]
      /\ \A k \in 1..Len(apprs') : k \in 1..Len(apprs) \/ apprs'[k] = a
  BY <1>1
<1> QED
  BY <1>2 DEF Lived

\* propose_live_deployment.
LEMMA ProposesQuiet ==
    ASSUME NEW c \in Callers
    PROVE  MInv /\ RInv /\ Proposes(c) => RInv'
<1> SUFFICES ASSUME MInv, RInv, Proposes(c) PROVE RInv'
  OBVIOUS
<1> DEFINE r == tx[c].arg
           new == [run |-> r, parent |-> Newest(c), status |-> "PENDING_APPROVAL"]
<1>5. PICK a : apprs' = Append(apprs, a) /\ a.status = "PENDING"
  BY DEF Proposes
<1>1. /\ Ends(c) /\ UNCHANGED <<assetOf, active, meddled>>
      /\ revs' = IF Reusable(r) = {} THEN Append(revs, new) ELSE revs
  BY DEF Proposes
<1>2. revs \in Seq(RevRow) /\ Len(revs) \in Nat /\ new.status = "PENDING_APPROVAL"
  BY Ids DEF MInv, Typed
<1> HIDE DEF new
<1>3. /\ \A j \in 1..Len(revs) : revs'[j] = revs[j]
      /\ \A j \in 1..Len(revs') : j \in 1..Len(revs) \/ revs'[j] = new
      /\ Len(revs) <= Len(revs') /\ Len(revs') \in Nat
  BY <1>1, <1>2
<1>4. ActiveRevs' \subseteq ActiveRevs
  BY <1>2, <1>3 DEF ActiveRevs
<1>6. Lived' \subseteq Lived
  BY <1>5, LivedAppend
<1> QED
  BY <1>1, <1>3, <1>4, <1>6, RevisionsQuiet

\* reject_deployment_approval.
LEMMA RejectsQuiet ==
    ASSUME NEW c \in Callers
    PROVE  MInv /\ RInv /\ Rejects(c) => RInv'
<1> SUFFICES ASSUME MInv, RInv, Rejects(c) PROVE RInv'
  OBVIOUS
<1> DEFINE v == tx[c].rev
           x == [revs[v] EXCEPT !.status = "REJECTED"]
<1>1. /\ tx[c].pc = "j_run" /\ Ends(c) /\ UNCHANGED <<assetOf, active, meddled>>
      /\ revs' = [revs EXCEPT ![v].status = "REJECTED"]
      /\ apprs' = [apprs EXCEPT ![tx[c].arg].status = "REJECTED"]
  BY DEF Rejects
<1>2. v \in 1..Len(revs) /\ tx[c].arg \in 1..Len(apprs) /\ apprs[tx[c].arg].status = "PENDING"
  BY <1>1, OpenCall DEF ArgsExist, HasRevision, RequestOpen, Rejecting
<1>9. Lived' \subseteq Lived
  <2>1. /\ Len(apprs') = Len(apprs) /\ apprs'[tx[c].arg].status = "REJECTED"
        /\ \A k \in 1..Len(apprs) : /\ apprs'[k].target = apprs[k].target
                                    /\ k # tx[c].arg => apprs'[k].status = apprs[k].status
    BY <1>1, <1>2, ApprDecided
  <2> SUFFICES ASSUME NEW y \in Lived' PROVE y \in Lived
    OBVIOUS
  <2>2. PICK k \in 1..Len(apprs') : apprs'[k].status = "APPROVED" /\ y = apprs'[k].target
    BY DEF Lived
  <2>4. k \in 1..Len(apprs) /\ k # tx[c].arg
    BY <2>1, <2>2
  <2>3. k \in 1..Len(apprs) /\ apprs[k].status = "APPROVED" /\ y = apprs[k].target
    BY <2>1, <2>2, <2>4
  <2> QED
    BY <2>3 DEF Lived
<1> HIDE DEF v
<1>3. revs \in Seq(RevRow) /\ revs[v] \in RevRow
  BY <1>2, Ids DEF MInv, Typed
<1>4. x.run = revs[v].run /\ x.status = "REJECTED"
  BY <1>3 DEF RevRow
<1>5. revs' = [revs EXCEPT ![v] = x]
  BY <1>1
<1> HIDE DEF x
<1>6. Len(revs') = Len(revs) /\ revs'[v] = x /\ \A j \in 1..Len(revs) : j # v => revs'[j] = revs[j]
  BY <1>2, <1>3, <1>5
<1>7. \A j \in 1..Len(revs) : revs'[j].run = revs[j].run
  BY <1>4, <1>6
<1>8. ActiveRevs' \subseteq ActiveRevs
  BY <1>4, <1>6 DEF ActiveRevs
<1>10. Len(revs) <= Len(revs') /\ Len(revs') \in Nat
  BY <1>6, Ids
<1> QED
  BY <1>1, <1>7, <1>8, <1>9, <1>10, RevisionsQuiet

\* A commit that makes revision v ACTIVE and its candidate m serve.  No other
\* revision of the asset stays ACTIVE unless m is its candidate too, and m is
\* not older than what served.
LEMMA SwitchKeeps ==
    ASSUME MInv, RInv, NEW c \in Callers, Ends(c), UNCHANGED <<assetOf, meddled>>, ~meddled,
           tx[c].rev \in 1..Len(revs), CandOf(tx[c].rev) \in Models,
           \A k \in tx[c].old : assetOf[k] = assetOf[CandOf(tx[c].rev)],
           active' = (active \ tx[c].old) \cup {CandOf(tx[c].rev)},
           Len(revs') = Len(revs),
           \A i \in 1..Len(revs) : revs'[i].run = revs[i].run,
           ActiveRevs' \subseteq ActiveRevs \cup {tx[c].rev}, Lived' \subseteq Lived \cup {tx[c].rev},
           \A i \in ActiveRevs' \ {tx[c].rev} :
               assetOf[CandOf(i)] = assetOf[CandOf(tx[c].rev)] => CandOf(i) = CandOf(tx[c].rev),
           \A k \in active : assetOf[k] = assetOf[CandOf(tx[c].rev)] => k <= CandOf(tx[c].rev),
           \A d \in Callers \ {c} : Slot(CandOf(tx[c].rev)) \notin tx[d].held
    PROVE  RInv'
<1> DEFINE v == tx[c].rev
           m == CandOf(v)
           old == tx[c].old
<1>0. /\ v \in 1..Len(revs) /\ m = CandOf(v) /\ m \in Models
      /\ \A k \in old : assetOf[k] = assetOf[m]
      /\ active' = (active \ old) \cup {m}
      /\ ActiveRevs' \subseteq ActiveRevs \cup {v} /\ Lived' \subseteq Lived \cup {v}
      /\ \A i \in ActiveRevs' \ {v} : assetOf[CandOf(i)] = assetOf[m] => CandOf(i) = m
      /\ \A k \in active : assetOf[k] = assetOf[m] => k <= m
      /\ \A d \in Callers \ {c} : Slot(m) \notin tx[d].held
  OBVIOUS
<1> HIDE DEF v, m, old
<1>1. tx'[c] = Idle /\ \A d \in Callers \ {c} : tx'[d] = tx[d]
  BY DEF MInv, Typed, Ends
<1>2. \A i \in 1..Len(revs) : CandOf(i)' = CandOf(i)
  BY DEF CandOf, Cand
<1>3. ActiveRevs' \subseteq 1..Len(revs) /\ Lived' \subseteq 1..Len(revs)
  BY <1>0 DEF ActiveRevs, RInv
<1>4. ASSUME NEW i \in ActiveRevs' PROVE CandOf(i)' \in active'
  <2>1. i \in 1..Len(revs) /\ CandOf(i)' = CandOf(i)
    BY <1>2, <1>3
  <2>2. CASE CandOf(i) = m
    BY <1>0, <2>1, <2>2
  <2>3. CASE CandOf(i) # m
    <3>1. i # v /\ i \in ActiveRevs
      BY <1>0, <2>3
    <3>2. assetOf[CandOf(i)] # assetOf[m]
      BY <1>0, <2>3, <3>1
    <3>3. CandOf(i) \in active
      BY <3>1 DEF RInv
    <3> QED
      BY <1>0, <2>1, <3>2, <3>3
  <2> QED
    BY <2>2, <2>3
<1>5. ASSUME NEW i \in Lived' PROVE \E k \in active' : assetOf[k] = assetOf[CandOf(i)] /\ CandOf(i) <= k
  <2>1. i \in 1..Len(revs) /\ CandOf(i) \in Nat /\ m \in Nat /\ active \subseteq Nat
    BY <1>0, <1>3, Ids DEF MInv, Typed
  <2>2. CASE i = v
    BY <1>0, <2>1, <2>2
  <2>3. CASE i \in Lived
    <3>1. PICK k \in active : assetOf[k] = assetOf[CandOf(i)] /\ CandOf(i) <= k
      BY <2>3 DEF RInv, OnlyForward, SameAsset
    <3>2. CASE k \notin old
      BY <1>0, <3>1, <3>2
    <3>3. CASE k \in old
      <4>1. assetOf[m] = assetOf[CandOf(i)] /\ k <= m
        BY <1>0, <3>1, <3>3
      <4>2. CandOf(i) <= m
        BY <2>1, <3>1, <4>1
      <4> QED
        BY <1>0, <4>1, <4>2
    <3> QED
      BY <3>2, <3>3
  <2> QED
    BY <1>0, <2>2, <2>3
<1>6. OnlyForward'
  BY <1>2, <1>3, <1>5 DEF OnlyForward, SameAsset
<1>7. ASSUME NEW d \in Callers \ {c} PROVE Covers(tx[d])'
  <2>1. \A i \in ActiveRevs' : i \in ActiveRevs \/ Slot(CandOf(i)') \notin tx[d].held
    BY <1>0, <1>2
  <2>2. \A k \in active' : k \in active \/ Slot(k) \notin tx[d].held
    BY <1>0
  <2>3. Covers(tx[d])
    BY DEF RInv
  <2> QED
    BY <1>1, <2>1, <2>2, <2>3, CoversKept
<1>8. Covers(tx[c])'
  BY <1>1, IdleTyped DEF Covers
<1>9. \A d \in Callers : Covers(tx[d])'
  BY <1>7, <1>8
<1> QED
  BY <1>3, <1>4, <1>6, <1>9 DEF RInv

\* approve_and_activate_deployment: the ACTIVE revisions of the asset are the
\* ones it supersedes.
LEMMA ApprovesKeeps ==
    ASSUME NEW c \in Callers
    PROVE  MInv /\ RInv /\ Approves(c) => RInv'
<1> SUFFICES ASSUME MInv, RInv, Approves(c) PROVE RInv'
  OBVIOUS
<1> DEFINE v == tx[c].rev
           m == CandOf(v)
<1>1. /\ tx[c].pc = "a_run" /\ Ends(c) /\ active' = Switched(c)
      /\ revs' = [j \in 1..Len(revs) |->
                    CASE j = v -> [revs[j] EXCEPT !.status = "ACTIVE"]
                      [] j \in tx[c].prev -> [revs[j] EXCEPT !.status = "SUPERSEDED"]
                      [] OTHER -> revs[j]]
      /\ UNCHANGED <<assetOf, meddled>>
  BY DEF Approves
<1> SUFFICES ASSUME ~meddled PROVE RInv'
  BY <1>1 DEF RInv
<1>2. /\ v \in 1..Len(revs) /\ m \in Models /\ Slot(m) \in tx[c].held
      /\ \A k \in tx[c].old : assetOf[k] = assetOf[m]
  BY <1>1, OpenCall, Ids DEF ArgsExist, SlotTaken, SwitchesOwnAsset, HasRevision, Approving
<1>3. Covers(tx[c])
  BY DEF RInv
<1>4. /\ \A i \in ActiveRevs \ {v} : assetOf[m] = assetOf[CandOf(i)] => i \in tx[c].prev
      /\ \A k \in active : assetOf[k] = assetOf[m] => k <= m
  BY <1>1, <1>3 DEF Covers, SameAsset
<1>5. \A d \in Callers \ {c} : Slot(m) \notin tx[d].held
  BY <1>2 DEF MInv, LocksExclude
<1>6. active' = (active \ tx[c].old) \cup {m}
  BY <1>1 DEF Switched
<1> HIDE DEF m, v
<1>7. ASSUME NEW j \in 1..Len(revs)
      PROVE  /\ revs'[j].run = revs[j].run
             /\ j # v /\ j \in tx[c].prev => revs'[j].status = "SUPERSEDED"
             /\ j # v /\ j \notin tx[c].prev => revs'[j].status = revs[j].status
  <2>1. revs[j] \in RevRow
    BY Ids
  <2>2. CASE j = v
    <3>1. \/ revs'[j] = [revs[j] EXCEPT !.status = "ACTIVE"]
          \/ revs'[j] = [revs[j] EXCEPT !.status = "SUPERSEDED"]
      BY <1>1, <2>2
    <3> QED
      BY <2>1, <2>2, <3>1 DEF RevRow
  <2>3. CASE j # v /\ j \in tx[c].prev
    <3>1. revs'[j] = [revs[j] EXCEPT !.status = "SUPERSEDED"]
      BY <1>1, <2>3
    <3> QED
      BY <2>1, <2>3, <3>1 DEF RevRow
  <2>4. CASE j # v /\ j \notin tx[c].prev
    <3>1. revs'[j] = revs[j]
      BY <1>1, <2>4
    <3> QED
      BY <2>4, <3>1
  <2> QED
    BY <2>2, <2>3, <2>4
<1>8. Len(revs') = Len(revs)
  <2>1. Len(revs) \in Nat /\ DOMAIN revs' = 1..Len(revs)
    BY <1>1, Ids
  <2> QED
    BY <1>1, <2>1
<1>9. ActiveRevs' \subseteq ActiveRevs \cup {v}
  BY <1>7, <1>8 DEF ActiveRevs
<1>10. ASSUME NEW i \in ActiveRevs' \ {v}, assetOf[CandOf(i)] = assetOf[m] PROVE CandOf(i) = m
  <2>1. i \in ActiveRevs /\ i \in 1..Len(revs) /\ revs'[i].status = "ACTIVE"
    BY <1>8, <1>9 DEF ActiveRevs
  <2>2. i \notin tx[c].prev
    BY <1>7, <2>1
  <2> QED
    BY <1>4, <1>10, <2>1, <2>2
<1>11. Lived' \subseteq Lived \cup {v}
  <2>1. /\ tx[c].arg \in 1..Len(apprs) /\ apprs[tx[c].arg].status = "PENDING"
        /\ apprs[tx[c].arg].target = v
    BY <1>1, OpenCall DEF ArgsExist, RequestOpen, Approving, v
  <2>2. apprs' = [apprs EXCEPT ![tx[c].arg].status = "APPROVED"]
    BY DEF Approves
  <2>3. /\ Len(apprs') = Len(apprs)
        /\ \A k \in 1..Len(apprs) : /\ apprs'[k].target = apprs[k].target
                                    /\ k # tx[c].arg => apprs'[k].status = apprs[k].status
    BY <2>1, <2>2, ApprDecided
  <2> SUFFICES ASSUME NEW y \in Lived' PROVE y \in Lived \/ y = v
    OBVIOUS
  <2>4. PICK k \in 1..Len(apprs') : apprs'[k].status = "APPROVED" /\ y = apprs'[k].target
    BY DEF Lived
  <2>6. k \in 1..Len(apprs)
    BY <2>3, <2>4
  <2>5. k \in 1..Len(apprs) /\ y = apprs[k].target /\ (k # tx[c].arg => apprs[k].status = "APPROVED")
    BY <2>3, <2>4, <2>6
  <2> QED
    BY <2>1, <2>5 DEF Lived
<1>12. m = CandOf(v)
  BY DEF m
<1>13. \A i \in 1..Len(revs) : revs'[i].run = revs[i].run
  BY <1>7
<1> QED
  BY <1>1, <1>2, <1>4, <1>5, <1>6, <1>8, <1>9, <1>10, <1>11, <1>12, <1>13, SwitchKeeps DEF m, v

\* rollback_deployment: what it restores is not newer than what serves, and the
\* index refuses what is older, so its candidate is the version that serves.
LEMMA RollsBackKeeps ==
    ASSUME NEW c \in Callers
    PROVE  MInv /\ RInv /\ RollsBack(c) => RInv'
<1> SUFFICES ASSUME MInv, RInv, RollsBack(c) PROVE RInv'
  OBVIOUS
<1> DEFINE v == tx[c].rev
           m == CandOf(v)
<1>0. CASE Fails(c)
  BY <1>0, FailQuiet DEF RollsBack
<1> SUFFICES ASSUME ~Fails(c) PROVE RInv'
  BY <1>0
<1>1. /\ tx[c].pc = "r_flush" /\ Ends(c) /\ active' = Switched(c)
      /\ Free(c, {Slot(m)}) /\ ~IndexRefuses(m, tx[c].old)
      /\ revs' = [j \in 1..Len(revs) |->
                    CASE j = v -> [revs[j] EXCEPT !.status = "ACTIVE"]
                      [] j \in tx[c].prev -> [revs[j] EXCEPT !.status = "ROLLED_BACK"]
                      [] OTHER -> revs[j]]
      /\ UNCHANGED <<assetOf, apprs, meddled>>
  BY DEF RollsBack
<1> SUFFICES ASSUME ~meddled PROVE RInv'
  BY <1>1 DEF RInv
<1>2. /\ v \in 1..Len(revs) /\ m \in Models /\ Approved(v)
      /\ \A k \in tx[c].old : assetOf[k] = assetOf[m]
  BY <1>1, OpenCall, Ids DEF ArgsExist, SwitchesOwnAsset, ApprovedBefore, HasRevision
<1>3. PICK k \in active : assetOf[k] = assetOf[m] /\ m <= k
  <2>1. v \in Lived
    BY <1>2 DEF Approved, Lived
  <2> QED
    BY <2>1 DEF RInv, OnlyForward, SameAsset
<1>4. k = m
  <2>1. k \in exists /\ k \in Nat /\ m \in Nat
    BY <1>2, Ids DEF MInv, Typed
  <2>2. k # m => ~(k > m)
    BY <1>1, <1>3, <2>1, Zenon DEF IndexRefuses, Same
  <2> HIDE DEF m
  <2> QED
    BY <1>3, <2>1, <2>2
<1>5. \A j \in active : assetOf[j] = assetOf[m] => j = m
  BY <1>3, <1>4 DEF MInv, OneActiveModel
<1>6. \A d \in Callers \ {c} : Slot(m) \notin tx[d].held
  BY <1>1 DEF Free
<1>7. active' = (active \ tx[c].old) \cup {m}
  BY <1>1 DEF Switched
<1>8. m \in Nat /\ m = CandOf(v)
  BY <1>2, Ids
<1> HIDE DEF m, v
<1>9. ASSUME NEW j \in 1..Len(revs)
      PROVE  /\ revs'[j].run = revs[j].run
             /\ j # v => revs'[j].status \in {revs[j].status, "ROLLED_BACK"}
  <2>1. revs[j] \in RevRow
    BY Ids
  <2>2. CASE j = v
    <3>1. \/ revs'[j] = [revs[j] EXCEPT !.status = "ACTIVE"]
          \/ revs'[j] = [revs[j] EXCEPT !.status = "ROLLED_BACK"]
      BY <1>1, <2>2
    <3> QED
      BY <2>1, <2>2, <3>1 DEF RevRow
  <2>3. CASE j # v /\ j \in tx[c].prev
    <3>1. revs'[j] = [revs[j] EXCEPT !.status = "ROLLED_BACK"]
      BY <1>1, <2>3
    <3> QED
      BY <2>1, <2>3, <3>1 DEF RevRow
  <2>4. CASE j # v /\ j \notin tx[c].prev
    <3>1. revs'[j] = revs[j]
      BY <1>1, <2>4
    <3> QED
      BY <2>4, <3>1
  <2> QED
    BY <2>2, <2>3, <2>4
<1>10. Len(revs') = Len(revs)
  <2>1. Len(revs) \in Nat
    BY Ids
  <2> QED
    BY <1>1, <2>1
<1>11. ActiveRevs' \subseteq ActiveRevs \cup {v}
  BY <1>9, <1>10 DEF ActiveRevs
<1>12. ASSUME NEW i \in ActiveRevs' \ {v}, assetOf[CandOf(i)] = assetOf[m] PROVE CandOf(i) = m
  BY <1>5, <1>11, <1>12 DEF RInv
<1>13. Lived' \subseteq Lived \cup {v}
  BY <1>1 DEF Lived
<1>14. \A j \in active : assetOf[j] = assetOf[m] => j <= m
  BY <1>5, <1>8
<1>15. \A i \in 1..Len(revs) : revs'[i].run = revs[i].run
  BY <1>9
<1> QED
  BY <1>1, <1>2, <1>6, <1>7, <1>8, <1>10, <1>11, <1>12, <1>13, <1>14, <1>15, SwitchKeeps DEF m, v

\* Before any deployment nothing is ACTIVE.
LEMMA RInvInit == Init => RInv
BY IdleTyped DEF Init, RInv, ActiveRevs, OnlyForward, Lived, Covers

\* Every step of every call keeps the registry behind the revisions.
LEMMA RInvNext == MInv /\ RInv /\ [Next]_vars => RInv'
<1> SUFFICES ASSUME MInv, RInv, [Next]_vars PROVE RInv'
  OBVIOUS
<1>1. ASSUME NEW c \in Callers, SwitchCommits(c) \/ Deletes(c) PROVE RInv'
  <2>1. CASE Fails(c)
    BY <1>1, <2>1, FailQuiet DEF SwitchCommits, Deletes
  <2>2. CASE ~Fails(c)
    BY <1>1, <2>2 DEF SwitchCommits, Deletes, RInv
  <2> QED
    BY <2>1, <2>2
<1>2. ASSUME NEW c \in Callers, Step(c) PROVE RInv'
  BY <1>1, <1>2, ReadsQuiet, FlushCovers, ProposesQuiet, RejectsQuiet, ApprovesKeeps,
     RollsBackKeeps DEF Step
<1>3. ASSUME NEW c \in Callers, Starts(c) PROVE RInv'
  <2>1. PICK pc, arg : /\ pc \in {"p_run", "a_appr", "j_appr", "r_see_cur", "s_see", "d_del"}
                       /\ Begins(c, pc, arg)
    BY <1>3 DEF Starts
  <2>2. /\ Moves(c, [Idle EXCEPT !.pc = pc, !.arg = arg])
        /\ UNCHANGED <<assetOf, revs, apprs, active, meddled>>
    BY <2>1 DEF Begins, tables
  <2>3. [Idle EXCEPT !.pc = pc, !.arg = arg].pc = pc
    BY DEF Idle
  <2> QED
    BY <2>1, <2>2, <2>3, QuietStep
<1>4. ASSUME NEW c \in Callers, Aborts(c) PROVE RInv'
  BY <1>4, FailQuiet DEF Aborts
<1>5. ASSUME NEW r \in Runs, NEW action, NEW target, RequestApproval(r, action, target) PROVE RInv'
  <2>1. /\ UNCHANGED <<assetOf, active, revs, tx, meddled>>
        /\ \E a : apprs' = Append(apprs, a) /\ a.status = "PENDING"
    BY <1>5 DEF RequestApproval
  <2>2. Lived' \subseteq Lived
    BY <2>1, LivedAppend
  <2> QED
    BY <2>1, <2>2 DEF RInv, ActiveRevs, OnlyForward, Covers, SameAsset, CandOf
<1>6. CASE UNCHANGED vars
  BY <1>6 DEF vars, RInv, ActiveRevs, OnlyForward, Covers, SameAsset, CandOf, Lived
<1> QED
  BY <1>2, <1>3, <1>4, <1>5, <1>6 DEF Next

\* What a revision calls ACTIVE serves, for any number of callers, revisions and
\* versions: an approval supersedes every ACTIVE revision of the asset it
\* switches, because it reads them while it holds the asset's index entry; and
\* a rollback that the index lets pass restores the version that serves anyway.
THEOREM ActiveRevisionsServe == Spec => []ActiveRevisionServes
<1>1. RInv => ActiveRevisionServes
  BY DEF RInv, ActiveRevisionServes
<1>2. MInv /\ MInv' /\ RInv /\ [Next]_vars => RInv'
  BY RInvNext
<1> QED
  BY <1>1, <1>2, RInvInit, MInvHolds, PTL DEF Spec
=============================================================================
