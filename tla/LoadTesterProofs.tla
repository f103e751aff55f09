-------------------------- MODULE LoadTesterProofs ---------------------------
(***************************************************************************)
(* Proofs about LoadTester: the counters of Stats agree with what the slots *)
(* do, for any number of slots and any bounds.  The properties together     *)
(* with the types are inductive: open_now cannot become negative because    *)
(* the slot that leaves is one of those it counts, and peak_open is         *)
(* bounded because a slot that connects is not.                             *)
(***************************************************************************)
EXTENDS LoadTester, FiniteSetTheorems, TLAPS

InUse == {s \in Slots : pc[s] \in {"drain", "response"}}

LInv == LTypeOK /\ OpenNowIsOpen /\ LossesAreDrops /\ RequestsAccounted

\* The number of connections in use is a number, and smaller than the number of
\* slots as long as some slot has none.
LEMMA InUseBounds ==
  /\ IsFiniteSet(Slots) /\ Cardinality(Slots) \in Nat
  /\ Cardinality(InUse) \in Nat /\ IsFiniteSet(InUse)
  /\ Cardinality(InUse) <= Cardinality(Slots)
  /\ \A s \in Slots : s \notin InUse => Cardinality(InUse) + 1 <= Cardinality(Slots)
  /\ \A s \in InUse : Cardinality(InUse) >= 1
<1>1. IsFiniteSet(Slots) /\ Cardinality(Slots) \in Nat
  BY LoadAssumption, FS_CardinalityType
<1>2. InUse \subseteq Slots
  BY DEF InUse
<1>3. /\ IsFiniteSet(InUse) /\ Cardinality(InUse) \in Nat
      /\ Cardinality(InUse) <= Cardinality(Slots)
  BY <1>1, <1>2, FS_Subset, FS_CardinalityType
<1>4. ASSUME NEW s \in Slots, s \notin InUse
      PROVE  Cardinality(InUse) + 1 <= Cardinality(Slots)
  <2>1. Cardinality(InUse \cup {s}) = Cardinality(InUse) + 1
    BY <1>3, <1>4, FS_AddElement
  <2>2. InUse \cup {s} \subseteq Slots
    BY <1>2, <1>4
  <2>3. QED
    BY <1>1, <2>1, <2>2, FS_Subset
<1>5. ASSUME NEW s \in InUse
      PROVE  Cardinality(InUse) >= 1
  <2>1. InUse # {}
    BY <1>5
  <2>2. Cardinality(InUse) # 0
    BY <1>3, <2>1, FS_EmptySet
  <2>3. QED
    BY <1>3, <2>2
<1>6. QED
  BY <1>1, <1>3, <1>4, <1>5

\* What moving one slot does to the number of connections in use.
LEMMA MoveSlot ==
  ASSUME NEW s \in Slots, NEW to \in Pcs, LTypeOK, pc' = [pc EXCEPT ![s] = to]
  PROVE  /\ pc' \in [Slots -> Pcs]
         /\ Cardinality(InUse') = Cardinality(InUse)
                + (IF to \in {"drain", "response"} THEN 1 ELSE 0)
                - (IF pc[s] \in {"drain", "response"} THEN 1 ELSE 0)
<1>0. pc \in [Slots -> Pcs] /\ pc' \in [Slots -> Pcs]
  BY DEF LTypeOK
<1>1. IsFiniteSet(InUse) /\ Cardinality(InUse) \in Nat
  BY InUseBounds
<1>2. CASE to \in {"drain", "response"} /\ pc[s] \notin {"drain", "response"}
  <2>1. InUse' = InUse \cup {s} /\ s \notin InUse
    BY <1>0, <1>2 DEF InUse
  <2>2. QED
    BY <1>0, <1>1, <1>2, <2>1, FS_AddElement
<1>3. CASE to \notin {"drain", "response"} /\ pc[s] \in {"drain", "response"}
  <2>1. InUse' = InUse \ {s} /\ s \in InUse
    BY <1>0, <1>3 DEF InUse
  <2>2. Cardinality(InUse') = Cardinality(InUse) - 1
    BY <1>1, <2>1, FS_RemoveElement
  <2>3. QED
    BY <1>0, <1>1, <1>3, <2>2
<1>4. CASE to \in {"drain", "response"} <=> pc[s] \in {"drain", "response"}
  <2>1. InUse' = InUse
    BY <1>0, <1>4 DEF InUse
  <2>2. QED
    BY <1>0, <1>1, <1>4, <2>1
<1>5. QED
  BY <1>2, <1>3, <1>4

\* What the counters say of the number of connections in use, `n`.
Agree(n) ==
  /\ stats.open_now = n
  /\ stats.open_now <= stats.peak_open /\ stats.peak_open <= Cardinality(Slots)
  /\ stats.ok + stats.lost + n <= attempts
  /\ stats.lost + (attempts - (stats.ok + stats.lost + n)) = stats.dropped
  /\ stats.dropped = ends["remote"] + ends["timeout"]
  /\ single_shot_connection => attempts = stats.ok + stats.lost + n

LEMMA InvIsAgree == LInv <=> LTypeOK /\ Agree(Cardinality(InUse))
BY DEF LInv, OpenNowIsOpen, LossesAreDrops, RequestsAccounted, SlotsAt, InUse, Agree

LEMMA InvIsAgreeNext == LInv' <=> LTypeOK' /\ Agree(Cardinality(InUse))'
BY DEF LInv, OpenNowIsOpen, LossesAreDrops, RequestsAccounted, SlotsAt, InUse, Agree

\* The counters `st` a slot suspended at `from` leaves its connection with.
LeavesWith(from, st, dropped_by_remote) ==
  LET k == Cardinality(InUse) + (IF from = "connect" THEN 1 ELSE 0)
  IN  /\ st \in [Counters -> Nat]
      /\ st.open_now = k
      /\ st.open_now <= st.peak_open /\ st.peak_open <= Cardinality(Slots)
      /\ st.ok + st.lost + (k - 1) <= attempts
      /\ st.lost + (attempts - (st.ok + st.lost + (k - 1)))
           = st.dropped + (IF dropped_by_remote THEN 1 ELSE 0)
      /\ single_shot_connection => attempts = st.ok + st.lost + (k - 1)

LEMMA SetCounter ==
  ASSUME NEW st \in [Counters -> Nat], NEW c \in Counters, NEW v \in Nat
  PROVE  /\ [st EXCEPT ![c] = v] \in [Counters -> Nat]
         /\ [st EXCEPT ![c] = v][c] = v
         /\ \A e \in Counters \ {c} : [st EXCEPT ![c] = v][e] = st[e]
OBVIOUS

LEMMA DisconnectCounts ==
  ASSUME NEW st \in [Counters -> Nat], NEW n \in Nat, NEW d \in BOOLEAN, st.open_now >= 1
  PROVE  LET after == on_disconnect(record_conn_rate(st, n), d)
         IN  /\ after \in [Counters -> Nat]
             /\ after.open_now = st.open_now - 1 /\ after.peak_open = st.peak_open
             /\ after.ok = st.ok /\ after.lost = st.lost
             /\ after.dropped = st.dropped + (IF d THEN 1 ELSE 0)
<1> DEFINE r == record_conn_rate(st, n)
<1>1. /\ r \in [Counters -> Nat]
      /\ r.open_now = st.open_now /\ r.peak_open = st.peak_open
      /\ r.ok = st.ok /\ r.lost = st.lost /\ r.dropped = st.dropped
  BY DEF record_conn_rate, Bump, Counters
<1> HIDE DEF r
<1> DEFINE v == IF d THEN r.dropped + 1 ELSE r.dropped
           u == [r EXCEPT !["open_now"] = r.open_now - 1]
           w == [u EXCEPT !["dropped"] = v]
<1>2. v \in Nat /\ v = st.dropped + (IF d THEN 1 ELSE 0) /\ r.open_now - 1 \in Nat
  BY <1>1 DEF Counters
<1>3. on_disconnect(r, d) = w
  BY DEF on_disconnect
<1> HIDE DEF v
<1>4. /\ u \in [Counters -> Nat] /\ u["open_now"] = r.open_now - 1
      /\ \A e \in Counters \ {"open_now"} : u[e] = r[e]
  BY <1>1, <1>2, SetCounter DEF Counters
<1> HIDE DEF u
<1>5. /\ w \in [Counters -> Nat] /\ w["dropped"] = v
      /\ \A e \in Counters \ {"dropped"} : w[e] = u[e]
  BY <1>2, <1>4, SetCounter DEF Counters
<1> HIDE DEF w
<1>6. QED
  BY <1>1, <1>2, <1>3, <1>4, <1>5 DEF r, Counters

\* The finally block of a connection restores the agreement.
LEMMA LeaveInv ==
  ASSUME LInv, NEW s \in Slots, NEW from \in {"connect", "drain", "response"},
         NEW st, NEW n \in Nat, NEW d \in BOOLEAN,
         Leave(s, from, st, n, d), Others, LeavesWith(from, st, d),
         st.dropped = stats.dropped, NEW cause \in Causes,
         IF d THEN EndsBy(cause) ELSE UNCHANGED ends
  PROVE  LInv'
<1>n. LTypeOK /\ Agree(Cardinality(InUse))
  BY InvIsAgree
<1>b. Cardinality(Slots) \in Nat /\ Cardinality(InUse) \in Nat
  BY InUseBounds
<1>1. /\ pc[s] = from /\ pc' \in [Slots -> Pcs]
      /\ Cardinality(InUse') = Cardinality(InUse) - (IF from = "connect" THEN 0 ELSE 1)
  <2>1. pc[s] = from /\ pc' = [pc EXCEPT ![s] = "closing"] /\ "closing" \in Pcs
    BY DEF Leave, At, Pcs
  <2>2. /\ pc' \in [Slots -> Pcs]
        /\ Cardinality(InUse') = Cardinality(InUse)
               + (IF "closing" \in {"drain", "response"} THEN 1 ELSE 0)
               - (IF pc[s] \in {"drain", "response"} THEN 1 ELSE 0)
    BY <1>n, <2>1, MoveSlot
  <2>3. QED
    BY <1>b, <2>1, <2>2
<1>2. st \in [Counters -> Nat] /\ st.open_now >= 1
  <2>1. from # "connect" => s \in InUse
    BY <1>1 DEF InUse
  <2>2. from # "connect" => Cardinality(InUse) >= 1
    BY <2>1, InUseBounds
  <2>3. QED
    BY <1>b, <2>2 DEF LeavesWith
<1>3. /\ stats' \in [Counters -> Nat]
      /\ stats'.open_now = st.open_now - 1 /\ stats'.peak_open = st.peak_open
      /\ stats'.ok = st.ok /\ stats'.lost = st.lost
      /\ stats'.dropped = st.dropped + (IF d THEN 1 ELSE 0)
  BY <1>2, DisconnectCounts DEF Leave
<1>e. /\ ends' \in [Causes -> Nat]
      /\ ends["remote"] \in Nat /\ ends["timeout"] \in Nat
      /\ ends'["remote"] + ends'["timeout"]
           = ends["remote"] + ends["timeout"] + (IF d THEN 1 ELSE 0)
  <2>1. ends \in [Causes -> Nat]
    BY <1>n DEF LTypeOK
  <2>2. QED
    BY <2>1 DEF EndsBy, Causes
<1>4. LTypeOK'
  BY <1>n, <1>1, <1>3, <1>e DEF LTypeOK, Leave, Others
<1>5. /\ attempts' = attempts /\ attempts \in Nat
      /\ single_shot_connection' = single_shot_connection
  BY <1>n DEF Leave, Others, LTypeOK
<1>6. Agree(Cardinality(InUse))'
  BY <1>n, <1>b, <1>1, <1>2, <1>3, <1>5, <1>e DEF Agree, LeavesWith, Counters
<1>7. QED
  BY <1>4, <1>6, InvIsAgreeNext

\* A slot that connects, sends, loses or gets a response, leaves a connection or
\* starts over keeps the counters in step with the connections in use.
LEMMA SlotInv ==
  ASSUME LInv, NEW s \in Slots, SlotStep(s)
  PROVE  LInv'
<1>n. LTypeOK /\ Agree(Cardinality(InUse))
  BY InvIsAgree
<1>b. /\ Cardinality(Slots) \in Nat /\ Cardinality(InUse) \in Nat
      /\ s \in InUse => Cardinality(InUse) >= 1
      /\ s \notin InUse => Cardinality(InUse) + 1 <= Cardinality(Slots)
      /\ s \in InUse <=> pc[s] \in {"drain", "response"}
  BY InUseBounds DEF InUse
<1>m. ASSUME NEW from \in Pcs, NEW to \in Pcs, At(s, from, to)
      PROVE  /\ pc[s] = from /\ pc' \in [Slots -> Pcs]
             /\ Cardinality(InUse') = Cardinality(InUse)
                    + (IF to \in {"drain", "response"} THEN 1 ELSE 0)
                    - (IF from \in {"drain", "response"} THEN 1 ELSE 0)
  BY <1>n, <1>m, MoveSlot DEF At
<1>1. CASE ConnectFails(s)
  <2>1. AfterConnection \in Pcs /\ AfterConnection \notin {"drain", "response"}
    BY DEF AfterConnection, Pcs
  <2>2. pc' \in [Slots -> Pcs] /\ Cardinality(InUse') = Cardinality(InUse)
    BY <1>1, <1>m, <1>b, <2>1 DEF ConnectFails, Pcs
  <2>3. LTypeOK'
    BY <1>1, <1>n, <2>2 DEF ConnectFails, Bump, LTypeOK, Counters, Others
  <2>4. Agree(Cardinality(InUse))'
    BY <1>1, <1>n, <2>2 DEF ConnectFails, Bump, LTypeOK, Counters, Others, Agree
  <2>5. QED
    BY <2>3, <2>4, InvIsAgreeNext
<1>2. CASE Connected(s)
  <2> DEFINE st == on_connect(stats)
  <2>0. /\ st \in [Counters -> Nat]
        /\ st.open_now = stats.open_now + 1 /\ st.dropped = stats.dropped
        /\ st.ok = stats.ok /\ st.lost = stats.lost
        /\ st.peak_open = stats.peak_open \/ st.peak_open = st.open_now
        /\ st.open_now <= st.peak_open
    <3>1. stats \in [Counters -> Nat]
      BY <1>n DEF LTypeOK
    <3> DEFINE now == stats.open_now + 1
               top == IF now > stats.peak_open THEN now ELSE stats.peak_open
               u == [stats EXCEPT !["established"] = stats.established + 1]
               v == [u EXCEPT !["open_now"] = now]
               w == [v EXCEPT !["peak_open"] = top]
    <3>2. /\ now \in Nat /\ top \in Nat /\ now <= top
          /\ top = now \/ top = stats.peak_open
      BY <3>1 DEF Counters
    <3>3. st = w
      BY <3>1 DEF on_connect, Counters
    <3> HIDE DEF top
    <3>4. /\ u \in [Counters -> Nat]
          /\ \A e \in Counters \ {"established"} : u[e] = stats[e]
      BY <3>1, SetCounter DEF Counters
    <3> HIDE DEF u
    <3>5. /\ v \in [Counters -> Nat] /\ v["open_now"] = now
          /\ \A e \in Counters \ {"open_now"} : v[e] = u[e]
      BY <3>2, <3>4, SetCounter DEF Counters
    <3> HIDE DEF v
    <3>6. /\ w \in [Counters -> Nat] /\ w["peak_open"] = top
          /\ \A e \in Counters \ {"peak_open"} : w[e] = v[e]
      BY <3>2, <3>5, SetCounter DEF Counters
    <3> HIDE DEF w
    <3>7. QED
      BY <3>2, <3>3, <3>4, <3>5, <3>6 DEF Counters
  <2> HIDE DEF st
  <2>1. pc[s] = "connect" /\ Cardinality(InUse) + 1 <= Cardinality(Slots)
    BY <1>2, <1>b DEF Connected
  <2>2. CASE time_up
    <3>1. Leave(s, "connect", st, 0, FALSE) /\ Others /\ UNCHANGED ends
      BY <1>2, <2>2 DEF Connected, NextRequest, st
    <3>2. LeavesWith("connect", st, FALSE)
      BY <1>n, <1>b, <2>0, <2>1 DEF Agree, LTypeOK, Counters, LeavesWith
    <3>3. QED
      BY <2>0, <3>1, <3>2, LeaveInv DEF Causes
  <2>3. CASE ~time_up
    <3>1. /\ At(s, "connect", "drain") /\ stats' = st
          /\ attempts' = attempts + 1 /\ Others /\ UNCHANGED <<connects, ends>>
          /\ requests_this_conn' = [requests_this_conn EXCEPT ![s] = 0]
      BY <1>2, <2>3 DEF Connected, NextRequest, st
    <3>2. pc' \in [Slots -> Pcs] /\ Cardinality(InUse') = Cardinality(InUse) + 1
      BY <3>1, <1>m, <1>b DEF Pcs
    <3>3. LTypeOK'
      <4>1. attempts' \in Nat /\ requests_this_conn' \in [Slots -> Nat]
        BY <1>n, <2>0, <3>1 DEF LTypeOK
      <4>2. QED
        BY <1>n, <2>0, <3>1, <3>2, <4>1 DEF LTypeOK, Others
    <3>4. Agree(Cardinality(InUse))'
      BY <1>n, <1>b, <2>0, <2>1, <3>1, <3>2 DEF LTypeOK, Others, Agree, Counters
    <3>5. QED
      BY <3>3, <3>4, InvIsAgreeNext
  <2>4. QED
    BY <2>2, <2>3
<1>3. CASE Drained(s)
  <2>2. pc' \in [Slots -> Pcs] /\ Cardinality(InUse') = Cardinality(InUse)
    BY <1>3, <1>m, <1>b DEF Drained, Pcs
  <2>3. LTypeOK' /\ Agree(Cardinality(InUse))'
    BY <1>3, <1>n, <2>2 DEF Drained, LTypeOK, Others, Agree
  <2>4. QED
    BY <2>3, InvIsAgreeNext
<1>4. CASE DrainFails(s)
  <2> DEFINE st == IF CountsAsLost(requests_this_conn[s]) THEN Bump(stats, "lost") ELSE stats
  <2>1. /\ Leave(s, "drain", st, requests_this_conn[s], TRUE) /\ Others /\ pc[s] = "drain"
        /\ EndsBy("remote")
    BY <1>4 DEF DrainFails
  <2>2. /\ st \in [Counters -> Nat] /\ requests_this_conn[s] \in Nat
        /\ st.open_now = stats.open_now /\ st.dropped = stats.dropped
        /\ st.peak_open = stats.peak_open /\ st.ok = stats.ok
        /\ st.lost = stats.lost \/ st.lost = stats.lost + 1
        /\ single_shot_connection => st.lost = stats.lost + 1
    BY <1>n DEF Bump, LTypeOK, Counters, CountsAsLost
  <2> HIDE DEF st
  <2>3. LeavesWith("drain", st, TRUE)
    BY <1>n, <1>b, <2>1, <2>2 DEF Agree, LTypeOK, Counters, LeavesWith
  <2>4. QED
    BY <2>1, <2>2, <2>3, LeaveInv DEF Causes
<1>5. CASE ResponseOk(s)
  <2> DEFINE st == Bump(stats, "ok")
             n == requests_this_conn[s] + 1
  <2>1. /\ st \in [Counters -> Nat] /\ n \in Nat
        /\ st.open_now = stats.open_now /\ st.dropped = stats.dropped
        /\ st.peak_open = stats.peak_open /\ st.lost = stats.lost
        /\ st.ok = stats.ok + 1
    BY <1>n DEF Bump, LTypeOK, Counters
  <2>a. /\ pc[s] = "response" /\ Others /\ UNCHANGED ends
        /\ IF single_shot_connection THEN Leave(s, "response", st, n, FALSE)
                                     ELSE NextRequest(s, "response", st, n)
    BY <1>5 DEF ResponseOk
  <2> HIDE DEF st, n
  <2>2. CASE Leave(s, "response", st, n, FALSE)
    <3>1. Others /\ pc[s] = "response" /\ UNCHANGED ends
      BY <2>a
    <3>2. LeavesWith("response", st, FALSE)
      BY <1>n, <1>b, <2>1, <3>1 DEF Agree, LTypeOK, Counters, LeavesWith
    <3>3. QED
      BY <2>1, <2>2, <3>1, <3>2, LeaveInv DEF Causes
  <2>3. CASE ~Leave(s, "response", st, n, FALSE)
    <3>1. /\ At(s, "response", "drain") /\ stats' = st /\ ~single_shot_connection
          /\ attempts' = attempts + 1 /\ Others /\ UNCHANGED <<connects, ends>>
          /\ requests_this_conn' = [requests_this_conn EXCEPT ![s] = n]
      BY <2>a, <2>3 DEF NextRequest
    <3>2. pc' \in [Slots -> Pcs] /\ Cardinality(InUse') = Cardinality(InUse)
      BY <3>1, <1>m, <1>b DEF Pcs
    <3>3. LTypeOK'
      <4>1. attempts' \in Nat /\ requests_this_conn' \in [Slots -> Nat]
        BY <1>n, <2>1, <3>1 DEF LTypeOK
      <4>2. QED
        BY <1>n, <2>1, <3>1, <3>2, <4>1 DEF LTypeOK, Others
    <3>4. Agree(Cardinality(InUse))'
      BY <1>n, <1>b, <2>1, <3>1, <3>2 DEF LTypeOK, Others, Agree, Counters
    <3>5. QED
      BY <3>3, <3>4, InvIsAgreeNext
  <2>4. QED
    BY <2>2, <2>3
<1>6. ASSUME NEW cause \in Causes, ResponseFails(s, cause)
      PROVE  LInv'
  <2> DEFINE st == Bump(stats, "lost")
  <2>1. /\ st \in [Counters -> Nat] /\ requests_this_conn[s] \in Nat
        /\ st.open_now = stats.open_now /\ st.dropped = stats.dropped
        /\ st.peak_open = stats.peak_open /\ st.ok = stats.ok
        /\ st.lost = stats.lost + 1
    BY <1>n DEF Bump, LTypeOK, Counters
  <2>2. /\ Leave(s, "response", st, requests_this_conn[s], TRUE) /\ Others
        /\ pc[s] = "response" /\ EndsBy(cause)
    BY <1>6 DEF ResponseFails
  <2> HIDE DEF st
  <2>3. LeavesWith("response", st, TRUE)
    BY <1>n, <1>b, <2>1, <2>2 DEF Agree, LTypeOK, Counters, LeavesWith
  <2>4. QED
    BY <1>6, <2>1, <2>2, <2>3, LeaveInv
<1>7. CASE Closed(s)
  <2>1. AfterConnection \in Pcs /\ AfterConnection \notin {"drain", "response"}
    BY DEF AfterConnection, Pcs
  <2>2. pc' \in [Slots -> Pcs] /\ Cardinality(InUse') = Cardinality(InUse)
    BY <1>7, <1>m, <1>b, <2>1 DEF Closed, Pcs
  <2>3. LTypeOK' /\ Agree(Cardinality(InUse))'
    BY <1>7, <1>n, <2>2 DEF Closed, LTypeOK, Others, Agree
  <2>4. QED
    BY <2>3, InvIsAgreeNext
<1>8. CASE Slept(s)
  <2>1. At(s, "sleep", "done") \/ At(s, "sleep", "connect")
    BY <1>8 DEF Slept
  <2>2. pc' \in [Slots -> Pcs] /\ Cardinality(InUse') = Cardinality(InUse)
    BY <1>m, <1>b, <2>1 DEF Pcs
  <2>3. connects' \in Nat
    BY <1>8, <1>n DEF Slept, LTypeOK
  <2>4. LTypeOK' /\ Agree(Cardinality(InUse))'
    BY <1>8, <1>n, <2>2, <2>3 DEF Slept, LTypeOK, Others, Agree
  <2>5. QED
    BY <2>4, InvIsAgreeNext
<1>9. QED
  BY <1>1, <1>2, <1>3, <1>4, <1>5, <1>6, <1>7, <1>8 DEF SlotStep

LEMMA LInductive == LInv /\ [LNext]_lvars => LInv'
<1> SUFFICES ASSUME LInv, [LNext]_lvars
             PROVE  LInv'
  OBVIOUS
<1>1. CASE \E s \in Slots : SlotStep(s)
  BY <1>1, SlotInv
<1>2. CASE Clock \/ LiveDisplay \/ Gathered \/ Prints \/ UNCHANGED lvars
  <2>1. LTypeOK'
    BY <1>2 DEF LInv, LTypeOK, Clock, LiveDisplay, Gathered, Prints, lvars
  <2>2. UNCHANGED <<single_shot_connection, stats, pc, attempts, ends>>
    BY <1>2 DEF Clock, LiveDisplay, Gathered, Prints, lvars
  <2>3. QED
    BY <2>1, <2>2 DEF LInv, OpenNowIsOpen, LossesAreDrops, RequestsAccounted, SlotsAt
<1>3. QED
  BY <1>1, <1>2 DEF LNext

LEMMA LInitial == LInit => LInv
<1> SUFFICES ASSUME LInit
             PROVE  LInv
  OBVIOUS
<1>1. LTypeOK
  BY DEF LInit, LTypeOK, Counters, Pcs, Causes
<1>2. InUse = {}
  BY DEF LInit, InUse
<1>3. Cardinality(InUse) = 0
  BY <1>2, FS_EmptySet
<1>4. Agree(Cardinality(InUse))
  BY <1>3, InUseBounds DEF LInit, Agree, Counters, Causes
<1>5. QED
  BY <1>1, <1>4, InvIsAgree

LEMMA LInvariant == LSpec => []LInv
BY LInitial, LInductive, PTL DEF LSpec

\* The counters of Stats stay natural numbers: open_now, the only one that is ever
\* decremented, is not decremented by a slot whose connection was not counted.
THEOREM LTypeCorrect == LSpec => []LTypeOK
<1>1. LInv => LTypeOK
  BY DEF LInv
<1>2. QED
  BY <1>1, LInvariant, PTL

\* open_now is the number of connections in use and peak_open one that was possible.
THEOREM OpenConnectionsCounted == LSpec => []OpenNowIsOpen
<1>1. LInv => OpenNowIsOpen
  BY DEF LInv
<1>2. QED
  BY <1>1, LInvariant, PTL

\* The connections counted as dropped are those left with a request outstanding, because
\* the remote side ended them or the tester gave them up; each loses one request.
THEOREM LossesCounted == LSpec => []LossesAreDrops
<1>1. LInv => LossesAreDrops
  BY DEF LInv
<1>2. QED
  BY <1>1, LInvariant, PTL

\* In single-shot mode every request written is answered, lost or outstanding.
THEOREM RequestsCounted == LSpec => []RequestsAccounted
<1>1. LInv => RequestsAccounted
  BY DEF LInv
<1>2. QED
  BY <1>1, LInvariant, PTL
=============================================================================
