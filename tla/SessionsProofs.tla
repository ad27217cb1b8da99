--------------------------- MODULE SessionsProofs ---------------------------
(***************************************************************************)
(* Theorems about Sessions: types, and the three properties of which       *)
(* sessions may outlive a revocation or share a predecessor.  All three    *)
(* follow from what a request in flight remembers of the moment it began.  *)
(***************************************************************************)
EXTENDS Sessions, TLAPS

-----------------------------------------------------------------------------
(* The inductive invariant.                                                *)

(* Some session of the chains that start with password o was made by a     *)
(* request that overlapped a revocation.                                   *)
Overlapped(o) ==
  \E t \in Ids : session[t].origin = o /\ session[t].began < session[t].made

(* Rows are numbered without gaps.                                         *)
RowsUpToLast == \A s \in Ids : session[s].status = "none" <=> s > lastId

(* A revocation reaches what exists and moves the epoch on.                *)
EpochsInOrder ==
  /\ \A s \in Ids : session[s].began <= session[s].made /\ session[s].made <= epoch
  /\ \A s \in Ids : session[s].status = "none" => session[s].began = session[s].made
  /\ \A r \in Requests : began[r] <= epoch

(* Who has seen the tenant active has begun before its suspension.         *)
PastTheTenantCheck ==
  \A r \in Requests :
    pc[r] \in {"loginCreate", "refreshCommit"} /\ tenant # "active" => began[r] < epoch

(* A refresh, and no login, knows a session that it is about to replace.   *)
RefreshesReplace ==
  \A r \in Requests :
    /\ pc[r] \in {"refreshUser", "refreshTenant", "refreshCommit"} => from[r] # NoSession
    /\ pc[r] \in {"loginTenant", "loginCreate"} => from[r] = NoSession

(* Who carries an old password overlaps a revocation or continues what did.*)
OldPasswordInFlight ==
  \A r \in Requests :
    pc[r] # "idle" /\ origin[r] # password => began[r] < epoch \/ Overlapped(origin[r])

(* A replaced session is not live; what a request in flight is to replace  *)
(* has only been replaced since it began.                                  *)
ReplacedIsNotLive ==
  \A s \in Ids : session[s].status # "none" /\ session[s].from # NoSession
                   => ~ Live(session[s].from)

ReplacedSinceItBegan ==
  \A r \in Requests :
    from[r] # NoSession =>
      /\ from[r] <= lastId
      /\ knew[r] <= lastId
      /\ \A s \in Ids : session[s].status # "none" /\ session[s].from = from[r] => knew[r] < s

PredecessorsExist ==
  \A s \in Ids : session[s].from \in 0 .. lastId

SessionsInv ==
  /\ TypeOK
  /\ RowsUpToLast
  /\ EpochsInOrder
  /\ PastTheTenantCheck
  /\ RefreshesReplace
  /\ OldPasswordInFlight
  /\ ReplacedIsNotLive
  /\ ReplacedSinceItBegan
  /\ PredecessorsExist
  /\ OldPasswordOnlyByOverlap
  /\ OnlyOverlapsSurvive
  /\ ReplacedTwiceOnlyByOverlap

(* A table in which only statuses differ, and no row is live again.        *)
OnlyEnds(table) ==
  /\ table \in [Ids -> Row]
  /\ \A s \in Ids :
       /\ table[s].origin = session[s].origin /\ table[s].from = session[s].from
       /\ table[s].began = session[s].began /\ table[s].made = session[s].made
       /\ table[s].knew = session[s].knew
       /\ table[s].status = "none" <=> session[s].status = "none"
       /\ table[s].status = "live" => Live(s)

-----------------------------------------------------------------------------
(* One lemma for each kind of step.                                        *)

(* The initial state satisfies the invariant.                              *)
LEMMA InitInv == Init => SessionsInv
<1> SUFFICES ASSUME Init PROVE SessionsInv
  OBVIOUS
<1>1. TypeOK
  BY SessionsAssumption DEF Init, TypeOK, Row, NoRow, Ids, NoSession, Pcs
<1>2. RowsUpToLast /\ EpochsInOrder /\ PredecessorsExist
  BY SessionsAssumption DEF Init, RowsUpToLast, EpochsInOrder, PredecessorsExist, NoRow, Ids, NoSession
<1>3. PastTheTenantCheck /\ RefreshesReplace /\ OldPasswordInFlight
  BY DEF Init, PastTheTenantCheck, RefreshesReplace, OldPasswordInFlight
<1>4. ReplacedIsNotLive /\ ReplacedSinceItBegan
  BY DEF Init, ReplacedIsNotLive, ReplacedSinceItBegan, NoRow, NoSession
<1>5. OldPasswordOnlyByOverlap /\ OnlyOverlapsSurvive /\ ReplacedTwiceOnlyByOverlap
  BY DEF Init, OldPasswordOnlyByOverlap, OnlyOverlapsSurvive, ReplacedTwiceOnlyByOverlap, Live, NoRow
<1> QED  BY <1>1, <1>2, <1>3, <1>4, <1>5 DEF SessionsInv

(* A request that is answered takes nothing with it, and one that goes on  *)
(* keeps what it remembers.                                                *)
LEMMA RequestGoesOn ==
  ASSUME SessionsInv, NEW r \in Requests, NEW step \in Pcs \ {"idle"},
         pc[r] # "idle",
         \/ Return(r)
         \/ /\ Advance(r, step)
            /\ step \in {"loginCreate", "refreshCommit"} => tenant = "active"
            /\ step \in {"refreshTenant", "refreshCommit"} => pc[r] \in {"refreshUser", "refreshTenant"}
            /\ step = "loginCreate" => pc[r] = "loginTenant"
            /\ step \notin {"loginTenant", "refreshUser"},
         UNCHANGED <<dbVars, epoch>>
  PROVE  SessionsInv'
<1> USE DEF SessionsInv, dbVars
<1>1. TypeOK'
  <2>1. CASE Advance(r, step)
    BY <2>1 DEF TypeOK, Advance
  <2>2. CASE Return(r)
    <3>1. 0 \in 0 .. MaxSessions /\ NoSession \in Ids \cup {NoSession} /\ "idle" \in Pcs
      BY SessionsAssumption DEF Pcs
    <3> QED  BY <2>2, <3>1 DEF TypeOK, Return
  <2> QED  BY <2>1, <2>2
<1>2. EpochsInOrder' /\ PastTheTenantCheck' /\ RefreshesReplace'
  BY DEF TypeOK, EpochsInOrder, PastTheTenantCheck, RefreshesReplace, Advance, Return
<1>3. OldPasswordInFlight'
  BY DEF TypeOK, OldPasswordInFlight, Overlapped, Advance, Return
<1>4. ReplacedSinceItBegan'
  BY DEF TypeOK, ReplacedSinceItBegan, Advance, Return
<1>5. (RowsUpToLast /\ ReplacedIsNotLive /\ PredecessorsExist)'
  BY DEF RowsUpToLast, ReplacedIsNotLive, PredecessorsExist, Live
<1>6. (OldPasswordOnlyByOverlap /\ OnlyOverlapsSurvive /\ ReplacedTwiceOnlyByOverlap)'
  BY DEF OldPasswordOnlyByOverlap, OnlyOverlapsSurvive, ReplacedTwiceOnlyByOverlap, Live
<1> QED  BY <1>1, <1>2, <1>3, <1>4, <1>5, <1>6

(* A request begins: a login with the present password, or a refresh with  *)
(* a live session, which nothing has replaced yet.                         *)
LEMMA RequestBegins ==
  ASSUME SessionsInv, NEW r \in Requests, NEW s \in Ids \cup {NoSession},
         \/ s = NoSession /\ Begin(r, "loginTenant", s, password)
         \/ s \in Ids /\ Live(s) /\ Begin(r, "refreshUser", s, session[s].origin)
  PROVE  SessionsInv'
<1> USE DEF SessionsInv, dbVars
<1>0. s \in Ids => session[s] \in Row /\ session[s].origin \in Nat
  BY DEF TypeOK, Row
<1>1. TypeOK'
  <2>1. "loginTenant" \in Pcs /\ "refreshUser" \in Pcs
    BY DEF Pcs
  <2> QED  BY <1>0, <2>1 DEF TypeOK, Begin
<1>2. EpochsInOrder' /\ PastTheTenantCheck'
  BY DEF TypeOK, EpochsInOrder, PastTheTenantCheck, Begin
<1>7. RefreshesReplace'
  <2>1. s \in Ids => s # NoSession
    BY SessionsAssumption DEF Ids, NoSession
  <2> QED  BY <2>1 DEF TypeOK, RefreshesReplace, Begin
<1>3. OldPasswordInFlight'
  <2>1. \A o : Overlapped(o)' <=> Overlapped(o)
    BY DEF Overlapped, Begin
  <2>2. s \in Ids /\ Live(s) /\ session[s].origin # password => Overlapped(session[s].origin)
    BY DEF OldPasswordOnlyByOverlap, Overlapped
  <2>3. ASSUME NEW q \in Requests, q # r
        PROVE  pc'[q] = pc[q] /\ origin'[q] = origin[q] /\ began'[q] = began[q]
    BY <2>3 DEF TypeOK, Begin
  <2>4. \/ origin'[r] = password
        \/ s \in Ids /\ Live(s) /\ origin'[r] = session[s].origin
    BY DEF TypeOK, Begin
  <2>5. epoch' = epoch /\ password' = password
    BY DEF Begin
  <2> QED  BY <2>1, <2>2, <2>3, <2>4, <2>5 DEF OldPasswordInFlight
<1>4. ReplacedSinceItBegan'
  <2>1. ASSUME NEW q \in Requests, q # r
        PROVE  from'[q] = from[q] /\ knew'[q] = knew[q]
    BY <2>1 DEF TypeOK, Begin
  <2>2. \/ from'[r] = NoSession
        \/ s \in Ids /\ Live(s) /\ from'[r] = s /\ knew'[r] = lastId
    BY DEF TypeOK, Begin
  <2>3. session' = session /\ lastId' = lastId
    BY DEF Begin
  <2>4. s \in Ids /\ Live(s) => s <= lastId
    BY SessionsAssumption DEF RowsUpToLast, Live, TypeOK, Ids
  <2>5. s \in Ids => s # NoSession
    BY SessionsAssumption DEF Ids, NoSession
  <2>6. s \in Ids /\ Live(s) => \A t \in Ids : ~ (session[t].status # "none" /\ session[t].from = s)
    BY <2>5 DEF ReplacedIsNotLive
  <2>7. lastId <= lastId
    BY SessionsAssumption DEF TypeOK
  <2> QED  BY <2>1, <2>2, <2>3, <2>4, <2>6, <2>7 DEF ReplacedSinceItBegan
<1>5. (RowsUpToLast /\ ReplacedIsNotLive /\ PredecessorsExist)'
  BY DEF RowsUpToLast, ReplacedIsNotLive, PredecessorsExist, Live, Begin
<1>6. (OldPasswordOnlyByOverlap /\ OnlyOverlapsSurvive /\ ReplacedTwiceOnlyByOverlap)'
  BY DEF OldPasswordOnlyByOverlap, OnlyOverlapsSurvive, ReplacedTwiceOnlyByOverlap, Live, Begin
<1> QED  BY <1>1, <1>2, <1>3, <1>4, <1>5, <1>6, <1>7

(* Sessions end: any rows stop being live.  When the password changes or   *)
(* the tenant stops being active, all do, and the epoch moves on.          *)
LEMMA SessionsEnd ==
  ASSUME SessionsInv, OnlyEnds(session'),
         password' \in Nat, tenant' \in {"active", "disabled", "deleted"}, epoch' \in Nat,
         epoch <= epoch',
         \/ password' = password /\ (tenant' = tenant \/ tenant' = "active")
         \/ epoch < epoch' /\ \A s \in Ids : ~ Live(s)',
         UNCHANGED <<lastId, localVars>>
  PROVE  SessionsInv'
<1> USE DEF SessionsInv, localVars
<1>1. TypeOK'
  BY DEF TypeOK, OnlyEnds
<1>2. RowsUpToLast' /\ PredecessorsExist'
  BY DEF RowsUpToLast, PredecessorsExist, OnlyEnds
<1>3. EpochsInOrder'
  <2>1. ASSUME NEW s \in Ids  PROVE session[s].made \in Nat
    BY DEF TypeOK, Row
  <2> QED  BY <2>1 DEF EpochsInOrder, OnlyEnds, TypeOK
<1>4. PastTheTenantCheck' /\ RefreshesReplace'
  BY DEF PastTheTenantCheck, RefreshesReplace, EpochsInOrder, TypeOK
<1>5. OldPasswordInFlight'
  <2>1. \A o : Overlapped(o)' <=> Overlapped(o)
    BY DEF Overlapped, OnlyEnds
  <2> QED  BY <2>1 DEF OldPasswordInFlight, EpochsInOrder, TypeOK
<1>6. ReplacedIsNotLive'
  <2>1. ASSUME NEW s \in Ids, session'[s].status # "none", session'[s].from # NoSession
        PROVE  session'[session'[s].from].status # "live"
    <3>1. session[s].status # "none" /\ session[s].from = session'[s].from
      BY <2>1 DEF OnlyEnds
    <3>2. ~ Live(session[s].from)
      BY <2>1, <3>1 DEF ReplacedIsNotLive
    <3>3. session[s].from \in Ids
      BY <2>1, <3>1, SessionsAssumption DEF PredecessorsExist, TypeOK, Ids, NoSession
    <3> QED  BY <3>1, <3>2, <3>3 DEF OnlyEnds, Live
  <2> QED  BY <2>1 DEF ReplacedIsNotLive, Live
<1>7. ReplacedSinceItBegan'
  BY DEF ReplacedSinceItBegan, OnlyEnds
<1>8. OldPasswordOnlyByOverlap'
  BY DEF OldPasswordOnlyByOverlap, OnlyEnds, Live
<1>9. OnlyOverlapsSurvive'
  BY DEF OnlyOverlapsSurvive, OnlyEnds, Live
<1>10. ReplacedTwiceOnlyByOverlap'
  BY DEF ReplacedTwiceOnlyByOverlap, OnlyEnds
<1> QED  BY <1>1, <1>2, <1>3, <1>4, <1>5, <1>6, <1>7, <1>8, <1>9, <1>10

(* A session is made for a request past its checks, in a table where the   *)
(* session it replaces has ended.                                          *)
LEMMA SessionIsMade ==
  ASSUME SessionsInv, NEW r \in Requests, NEW table,
         pc[r] \in {"loginCreate", "refreshCommit"},
         OnlyEnds(table),
         from[r] # NoSession => table[from[r]].status # "live",
         Insert(r, table), Return(r),
         UNCHANGED <<password, tenant, epoch>>
  PROVE  SessionsInv'
<1> USE DEF SessionsInv
<1> DEFINE new == [status |-> "live", origin |-> origin[r], from |-> from[r],
                   began |-> began[r], made |-> epoch, knew |-> knew[r]]
<1>1. /\ lastId + 1 \in Ids /\ lastId' = lastId + 1
      /\ session' = [table EXCEPT ![lastId + 1] = new]
  BY SessionsAssumption DEF Insert, TypeOK, Ids
<1>2. new \in Row
  <2>1. from[r] \in Nat /\ knew[r] \in Nat
    BY SessionsAssumption DEF TypeOK, Ids, NoSession
  <2> QED  BY <2>1 DEF TypeOK, Row
<1> HIDE DEF new
<1>3. session'[lastId + 1] = new
  BY <1>1 DEF OnlyEnds
<1>4. ASSUME NEW s \in Ids, s # lastId + 1
      PROVE  session'[s] = table[s]
  BY <1>1, <1>4 DEF OnlyEnds
<1>5. session[lastId + 1].status = "none" /\ table[lastId + 1].status = "none"
  BY <1>1, SessionsAssumption DEF RowsUpToLast, OnlyEnds, TypeOK, Ids
<1>6. /\ new.status = "live" /\ new.origin = origin[r] /\ new.from = from[r]
      /\ new.began = began[r] /\ new.made = epoch /\ new.knew = knew[r]
  BY DEF new
<1>7. ASSUME NEW q \in Requests
      PROVE  \/ q # r /\ pc'[q] = pc[q] /\ from'[q] = from[q] /\ origin'[q] = origin[q]
                /\ began'[q] = began[q] /\ knew'[q] = knew[q]
             \/ q = r /\ pc'[q] = "idle" /\ from'[q] = NoSession /\ origin'[q] = 0
                /\ began'[q] = 0 /\ knew'[q] = 0
  BY DEF TypeOK, Return
<1>8. TypeOK'
  <2>1. session' \in [Ids -> Row] /\ lastId' \in 0 .. MaxSessions
    BY <1>1, <1>2, SessionsAssumption DEF OnlyEnds, Ids
  <2>2. 0 \in 0 .. MaxSessions /\ NoSession \in Ids \cup {NoSession} /\ "idle" \in Pcs
    BY SessionsAssumption DEF Pcs
  <2> QED  BY <2>1, <2>2 DEF TypeOK, Return
<1>9. RowsUpToLast'
  BY <1>1, <1>3, <1>4, <1>6, SessionsAssumption DEF RowsUpToLast, OnlyEnds, TypeOK, Ids
<1>10. PredecessorsExist'
  <2>1. from[r] \in 0 .. lastId
    BY SessionsAssumption DEF ReplacedSinceItBegan, TypeOK, Ids, NoSession
  <2>2. 0 .. lastId \subseteq 0 .. lastId'
    BY <1>1, SessionsAssumption DEF TypeOK
  <2> QED  BY <1>3, <1>4, <1>6, <2>1, <2>2 DEF PredecessorsExist, OnlyEnds
<1>11. EpochsInOrder'
  BY <1>3, <1>4, <1>6, <1>7 DEF EpochsInOrder, OnlyEnds, TypeOK
<1>12. PastTheTenantCheck' /\ RefreshesReplace'
  BY <1>7 DEF PastTheTenantCheck, RefreshesReplace
<1>13. ASSUME NEW o, Overlapped(o)  PROVE Overlapped(o)'
  <2>1. PICK t \in Ids : session[t].origin = o /\ session[t].began < session[t].made
    BY <1>13 DEF Overlapped
  <2>2. CASE t # lastId + 1
    BY <1>4, <2>1, <2>2 DEF Overlapped, OnlyEnds
  <2>3. CASE t = lastId + 1
    <3>1. session[t].began = session[t].made /\ session[t].made \in Nat
      BY <1>1, <1>5, <2>3 DEF EpochsInOrder, TypeOK, Row
    <3> QED  BY <2>1, <3>1
  <2> QED  BY <2>2, <2>3
<1>14. OldPasswordInFlight'
  BY <1>7, <1>13 DEF OldPasswordInFlight
<1>15. OldPasswordOnlyByOverlap'
  <2>1. ASSUME NEW s \in Ids, Live(s)', session'[s].origin # password
        PROVE  \E t \in Ids : /\ session'[t].origin = session'[s].origin
                              /\ session'[t].began < session'[t].made
    <3>1. CASE s # lastId + 1
      <4>1. Live(s) /\ session[s].origin = session'[s].origin
        BY <1>4, <2>1, <3>1 DEF OnlyEnds, Live
      <4>2. Overlapped(session[s].origin)
        BY <2>1, <4>1 DEF OldPasswordOnlyByOverlap, Overlapped
      <4> QED  BY <1>13, <4>1, <4>2 DEF Overlapped
    <3>2. CASE s = lastId + 1
      <4>1. session'[s].origin = origin[r] /\ session'[s].began = began[r] /\ session'[s].made = epoch
        BY <1>3, <1>6, <3>2
      <4>2. began[r] < epoch \/ Overlapped(origin[r])
        BY <2>1, <4>1 DEF OldPasswordInFlight
      <4> QED  BY <1>13, <4>1, <4>2 DEF Overlapped
    <3> QED  BY <3>1, <3>2
  <2> QED  BY <2>1 DEF OldPasswordOnlyByOverlap
<1>16. OnlyOverlapsSurvive'
  <2>1. ASSUME NEW s \in Ids, Live(s)', tenant # "active"
        PROVE  session'[s].began < session'[s].made
    <3>1. CASE s # lastId + 1
      BY <1>4, <2>1, <3>1 DEF OnlyOverlapsSurvive, OnlyEnds, Live
    <3>2. CASE s = lastId + 1
      BY <1>3, <1>6, <2>1, <3>2 DEF PastTheTenantCheck
    <3> QED  BY <3>1, <3>2
  <2> QED  BY <2>1 DEF OnlyOverlapsSurvive
<1>17. ReplacedIsNotLive'
  <2>1. ASSUME NEW s \in Ids, session'[s].status # "none", session'[s].from # NoSession
        PROVE  session'[session'[s].from].status # "live"
    <3>1. CASE s = lastId + 1
      <4>1. session'[s].from = from[r]
        BY <1>3, <1>6, <3>1
      <4>2. from[r] \in Ids /\ from[r] # lastId + 1
        BY <2>1, <4>1, SessionsAssumption DEF ReplacedSinceItBegan, TypeOK, Ids, NoSession
      <4>3. session'[from[r]] = table[from[r]]
        BY <1>4, <4>2
      <4> QED  BY <2>1, <4>1, <4>3
    <3>2. CASE s # lastId + 1
      <4>1. session[s].status # "none" /\ session[s].from = session'[s].from
        BY <1>4, <2>1, <3>2 DEF OnlyEnds
      <4> DEFINE f == session[s].from
      <4>2. f \in Ids /\ f # lastId + 1
        BY <2>1, <4>1, SessionsAssumption DEF PredecessorsExist, TypeOK, Ids, NoSession
      <4>3. ~ Live(f)
        BY <2>1, <4>1 DEF ReplacedIsNotLive
      <4>4. session'[f] = table[f]
        BY <1>4, <4>2
      <4> QED  BY <4>1, <4>2, <4>3, <4>4 DEF OnlyEnds, Live
    <3> QED  BY <3>1, <3>2
  <2> QED  BY <2>1 DEF ReplacedIsNotLive, Live
<1>18. ReplacedSinceItBegan'
  <2>1. ASSUME NEW q \in Requests, from'[q] # NoSession
        PROVE  /\ q # r /\ from'[q] = from[q] /\ knew'[q] = knew[q]
               /\ from[q] <= lastId /\ knew[q] <= lastId
               /\ from[q] \in Nat /\ knew[q] \in Nat
    BY <1>7, <2>1, SessionsAssumption DEF ReplacedSinceItBegan, TypeOK, Ids, NoSession
  <2>2. ASSUME NEW q \in Requests, from'[q] # NoSession,
               NEW s \in Ids, session'[s].status # "none", session'[s].from = from'[q]
        PROVE  knew'[q] < s
    <3>1. CASE s = lastId + 1
      BY <2>1, <2>2, <3>1, SessionsAssumption DEF TypeOK
    <3>2. CASE s # lastId + 1
      BY <1>4, <2>1, <2>2, <3>2 DEF ReplacedSinceItBegan, OnlyEnds
    <3> QED  BY <3>1, <3>2
  <2>3. lastId \in Nat
    BY SessionsAssumption DEF TypeOK
  <2> QED  BY <1>1, <2>1, <2>2, <2>3 DEF ReplacedSinceItBegan
<1>19. ReplacedTwiceOnlyByOverlap'
  <2>1. ASSUME NEW s \in Ids, NEW t \in Ids, s < t,
               session'[s].status # "none", session'[t].status # "none",
               session'[s].from = session'[t].from, session'[s].from # NoSession
        PROVE  session'[t].knew < s
    <3>1. lastId \in Nat /\ s \in Nat /\ t \in Nat /\ t <= lastId + 1 /\ s # lastId + 1
      BY <1>1, <1>9, <2>1, SessionsAssumption DEF RowsUpToLast, TypeOK, Ids
    <3>2. session[s].status # "none" /\ session[s].from = session'[s].from
      BY <1>4, <2>1, <3>1 DEF OnlyEnds
    <3>3. CASE t = lastId + 1
      BY <1>3, <1>6, <2>1, <3>2, <3>3 DEF ReplacedSinceItBegan
    <3>4. CASE t # lastId + 1
      BY <1>4, <2>1, <3>2, <3>4 DEF ReplacedTwiceOnlyByOverlap, OnlyEnds
    <3> QED  BY <3>3, <3>4
  <2> QED  BY <2>1 DEF ReplacedTwiceOnlyByOverlap
<1> QED  BY <1>8, <1>9, <1>10, <1>11, <1>12, <1>14, <1>15, <1>16, <1>17, <1>18, <1>19

-----------------------------------------------------------------------------
(* The steps of the specification.                                         *)

(* The old session, if there is one, has ended in the new table.           *)
LEMMA RevokeOldEnds ==
  ASSUME TypeOK, NEW s \in Ids
  PROVE  OnlyEnds(RevokeOld(s)) /\ RevokeOld(s)[s].status # "live"
<1>1. session[s] \in Row
  BY DEF TypeOK
<1>2. [session[s] EXCEPT !.status = "revoked"] \in Row
  BY <1>1 DEF Row
<1> QED  BY <1>1, <1>2 DEF RevokeOld, OnlyEnds, TypeOK, Live, Row

(* A revocation ends every live session.                                   *)
LEMMA RevokeAllEnds ==
  ASSUME TypeOK, NEW status \in {"revoked", "deleted"}, RevokeAll(status)
  PROVE  OnlyEnds(session') /\ (\A s \in Ids : ~ Live(s)') /\ epoch < epoch' /\ epoch' \in Nat
<1>1. ASSUME NEW s \in Ids
      PROVE  session[s] \in Row /\ [session[s] EXCEPT !.status = status] \in Row
  BY DEF TypeOK, Row
<1>2. ASSUME NEW s \in Ids
      PROVE  \/ session'[s] = session[s] /\ ~ Live(s)
             \/ session'[s] = [session[s] EXCEPT !.status = status] /\ session[s].status # "none"
  <2>1. session'[s] = IF Live(s) \/ (status = "deleted" /\ session[s].status # "none")
                      THEN [session[s] EXCEPT !.status = status] ELSE session[s]
    BY DEF RevokeAll
  <2>2. Live(s) => session[s].status # "none"
    BY DEF Live
  <2>3. CASE Live(s) \/ (status = "deleted" /\ session[s].status # "none")
    BY <2>1, <2>2, <2>3
  <2>4. CASE ~ (Live(s) \/ (status = "deleted" /\ session[s].status # "none"))
    BY <2>1, <2>4
  <2> QED  BY <2>3, <2>4
<1>3. session' \in [Ids -> Row]
  BY <1>1 DEF RevokeAll
<1>4. OnlyEnds(session')
  BY <1>1, <1>2, <1>3 DEF OnlyEnds, Live, Row
<1>5. \A s \in Ids : ~ Live(s)'
  BY <1>1, <1>2 DEF Live, Row
<1> QED  BY <1>4, <1>5 DEF RevokeAll, TypeOK

(* Every step of the specification preserves the invariant.                *)
LEMMA NextInv == SessionsInv /\ [Next]_vars => SessionsInv'
<1> SUFFICES ASSUME SessionsInv, [Next]_vars PROVE SessionsInv'
  OBVIOUS
<1>0. TypeOK
  BY DEF SessionsInv
<1>1. ASSUME NEW r \in Requests, LoginRead(r)
      PROVE  SessionsInv'
  BY <1>1, RequestBegins DEF LoginRead
<1>2. ASSUME NEW r \in Requests, LoginTenant(r)
      PROVE  SessionsInv'
  <2>1. "loginCreate" \in Pcs \ {"idle"}
    BY DEF Pcs
  <2> QED  BY <1>2, <2>1, RequestGoesOn DEF LoginTenant
<1>3. ASSUME NEW r \in Requests, LoginCreate(r)
      PROVE  SessionsInv'
  <2>1. OnlyEnds(session)
    BY <1>0 DEF OnlyEnds, TypeOK, Live
  <2>2. from[r] = NoSession
    BY <1>3 DEF SessionsInv, RefreshesReplace, LoginCreate
  <2> QED  BY <1>3, <2>1, <2>2, SessionIsMade DEF LoginCreate
<1>4. ASSUME NEW r \in Requests, NEW s \in Ids, RefreshRead(r, s)
      PROVE  SessionsInv'
  BY <1>4, RequestBegins DEF RefreshRead
<1>5. ASSUME NEW r \in Requests, RefreshUser(r)
      PROVE  SessionsInv'
  <2>1. "refreshTenant" \in Pcs \ {"idle"}
    BY DEF Pcs
  <2> QED  BY <1>5, <2>1, RequestGoesOn DEF RefreshUser
<1>6. ASSUME NEW r \in Requests, RefreshTenant(r)
      PROVE  SessionsInv'
  <2>1. "refreshCommit" \in Pcs \ {"idle"}
    BY DEF Pcs
  <2> QED  BY <1>6, <2>1, RequestGoesOn DEF RefreshTenant
<1>7. ASSUME NEW r \in Requests, RefreshCommit(r)
      PROVE  SessionsInv'
  <2>1. from[r] \in Ids
    BY <1>0, <1>7 DEF SessionsInv, RefreshesReplace, RefreshCommit, TypeOK
  <2>2. OnlyEnds(RevokeOld(from[r])) /\ RevokeOld(from[r])[from[r]].status # "live"
    BY <1>0, <2>1, RevokeOldEnds
  <2> QED  BY <1>7, <2>2, SessionIsMade DEF RefreshCommit
<1>8. ASSUME NEW r \in Requests, RequestFails(r)
      PROVE  SessionsInv'
  <2>1. "loginCreate" \in Pcs \ {"idle"}
    BY DEF Pcs
  <2> QED  BY <1>8, <2>1, RequestGoesOn DEF RequestFails
<1>9. ASSUME NEW s \in Ids, Expire(s) \/ Logout(s)
      PROVE  SessionsInv'
  <2>1. \A status \in {"expired", "revoked"} : [session[s] EXCEPT !.status = status] \in Row
    BY <1>0 DEF TypeOK, Row
  <2>2. OnlyEnds(session')
    BY <1>0, <1>9, <2>1 DEF OnlyEnds, TypeOK, Row, Live, Expire, Logout
  <2>3. epoch' = epoch /\ password' = password /\ tenant' = tenant /\ UNCHANGED <<lastId, localVars>>
    BY <1>9 DEF Expire, Logout
  <2>4. epoch <= epoch
    BY <1>0 DEF TypeOK
  <2> QED  BY <1>0, <2>2, <2>3, <2>4, SessionsEnd DEF TypeOK
<1>10. CASE ChangePassword
  <2>1. OnlyEnds(session') /\ (\A s \in Ids : ~ Live(s)') /\ epoch < epoch' /\ epoch' \in Nat
    BY <1>0, <1>10, RevokeAllEnds DEF ChangePassword
  <2>2. password' \in Nat /\ tenant' = tenant /\ UNCHANGED <<lastId, localVars>>
    BY <1>0, <1>10 DEF ChangePassword, TypeOK
  <2> QED  BY <1>0, <2>1, <2>2, SessionsEnd DEF TypeOK
<1>11. CASE DisableTenant \/ DeleteTenant
  <2>1. OnlyEnds(session') /\ (\A s \in Ids : ~ Live(s)') /\ epoch < epoch' /\ epoch' \in Nat
    BY <1>0, <1>11, RevokeAllEnds DEF DisableTenant, DeleteTenant
  <2>2. password' = password /\ tenant' \in {"disabled", "deleted"} /\ UNCHANGED <<lastId, localVars>>
    BY <1>11 DEF DisableTenant, DeleteTenant
  <2> QED  BY <1>0, <2>1, <2>2, SessionsEnd DEF TypeOK
<1>12. CASE EnableTenant
  <2>1. OnlyEnds(session)
    BY <1>0 DEF OnlyEnds, TypeOK, Live
  <2>2. session' = session /\ password' = password /\ epoch' = epoch /\ tenant' = "active"
        /\ UNCHANGED <<lastId, localVars>>
    BY <1>12 DEF EnableTenant
  <2> QED  BY <1>0, <2>1, <2>2, SessionsEnd DEF TypeOK
<1>13. CASE UNCHANGED vars
  <2>1. OnlyEnds(session)
    BY <1>0 DEF OnlyEnds, TypeOK, Live
  <2> QED  BY <1>0, <1>13, <2>1, SessionsEnd DEF vars, dbVars, TypeOK
<1> QED  BY <1>1, <1>2, <1>3, <1>4, <1>5, <1>6, <1>7, <1>8, <1>9, <1>10, <1>11, <1>12, <1>13 DEF Next

-----------------------------------------------------------------------------
(* The theorems.                                                           *)

(* The invariant holds in every reachable state.                           *)
LEMMA InvHolds == Spec => []SessionsInv
BY InitInv, NextInv, PTL DEF Spec

(* Rows, requests and counters have their types, for any number of         *)
(* requests in flight (the tables and locals of auth/service.go).          *)
THEOREM TypeCorrect == Spec => []TypeOK
<1>1. SessionsInv => TypeOK
  BY DEF SessionsInv
<1> QED  BY <1>1, InvHolds, PTL

(* A live session goes back to a login with the present password, or a     *)
(* request of its chain was in flight at a revocation (Login, Refresh,     *)
(* ResetPassword, SetUserPassword).                                        *)
THEOREM OldPasswordsOnlyByOverlap == Spec => []OldPasswordOnlyByOverlap
<1>1. SessionsInv => OldPasswordOnlyByOverlap
  BY DEF SessionsInv
<1> QED  BY <1>1, InvHolds, PTL

(* The live sessions of a suspended or deleted tenant are those of         *)
(* requests that overlapped the end (ensureTenantActive,                   *)
(* handleAdminUpdateTenantStatus, deleteTenantCascade).                    *)
THEOREM SuspendedOnlyOverlaps == Spec => []OnlyOverlapsSurvive
<1>1. SessionsInv => OnlyOverlapsSurvive
  BY DEF SessionsInv
<1> QED  BY <1>1, InvHolds, PTL

(* A session is replaced a second time only by a refresh that had read it  *)
(* before it was replaced (Refresh).                                       *)
THEOREM RotationForksOnlyByOverlap == Spec => []ReplacedTwiceOnlyByOverlap
<1>1. SessionsInv => ReplacedTwiceOnlyByOverlap
  BY DEF SessionsInv
<1> QED  BY <1>1, InvHolds, PTL
=============================================================================
