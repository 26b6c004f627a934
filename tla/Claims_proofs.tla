----------------------------- MODULE Claims_proofs -----------------------------
(***************************************************************************)
(* The services in which several processes (the crons of the backends, the *)
(* handlers of several requests) look at a row and then claim it, with an  *)
(* update that asks for the state it has read: planned notifications       *)
(* (ScheduledPush), gift campaigns (RewardCampaigns), calls to the staff   *)
(* (StaffCalls), weekly plans (SchedulePlans), the combo game (ComboGame), *)
(* what a referral earns (ReferralEarnings) and the accounts of livreurs   *)
(* (DelivererAccounts), where the claim is the unique number alone.  The   *)
(* theorems say, for any number of processes stopped at any point, what    *)
(* such a claim is enough for, and what more is needed.                    *)
(***************************************************************************)
EXTENDS ScheduledPush, RewardCampaigns, StaffCalls, SchedulePlans, ComboGame, ReferralEarnings,
        DelivererAccounts, SumTheorems, FiniteSetTheorems, TLAPS

-----------------------------------------------------------------------------
(* Planned notifications *)

(* Null is no date, and a run may be planned.                              *)
Calendar == Horizon \in Nat \ {0} /\ Never \notin Date /\ Once \subseteq Notice

Busy(p) == ph[p] # PIdle
Sends(p, n) == Busy(p) /\ ph[p].n = n

(* The row is past the run of date d: nobody can claim that run any more.  *)
Beyond(n, d) == plan[n].next = Never \/ plan[n].next > d

NoticePlan == [active : BOOLEAN, next : Date \union {Never}, count : Nat, kept : BOOLEAN]

PushTypes ==
    /\ now \in Date
    /\ plan \in [Notice -> NoticePlan]
    /\ sent \in [Notice -> [Date -> {0, 1}]]
    /\ batch \in [Server -> SUBSET (Notice \X Date)]
    /\ \A p \in Server : \A b \in batch[p] : b[2] <= now
    /\ ph \in [Server -> [pc : {"send", "record"}, n : Notice, d : Date] \union {PIdle}]

(* A run belongs to the one cron that claimed it, and goes out between its *)
(* claim and its record.                                                   *)
RunInv ==
    /\ \A n \in Notice, d \in Date : sent[n][d] = 1 => Beyond(n, d)
    /\ \A p \in Server : Busy(p) =>
          /\ Beyond(ph[p].n, ph[p].d)
          /\ ph[p].pc = "send" => sent[ph[p].n][ph[p].d] = 0
          /\ ph[p].pc = "record" => sent[ph[p].n][ph[p].d] = 1
    /\ \A p, q \in Server : (Busy(p) /\ Busy(q) /\ ph[p].n = ph[q].n /\ ph[p].d = ph[q].d) => p = q

(* A notification planned once is claimed once, whatever it is switched.   *)
OnceOf(n) ==
    /\ plan[n].next # Never => /\ plan[n].count = 0
                               /\ \A d \in Date : sent[n][d] = 0
                               /\ \A p \in Server : ~Sends(p, n)
    /\ plan[n].count <= 1
    /\ \A d, e \in Date : sent[n][d] = 1 /\ sent[n][e] = 1 => d = e
    /\ \A p \in Server : Sends(p, n) =>
          /\ plan[n].count = 0
          /\ \A d \in Date : sent[n][d] = 1 => d = ph[p].d
          /\ \A q \in Server : Sends(q, n) => q = p

OnceInv == \A n \in Once : OnceOf(n)

(* The runs that went out and that no cron still has in hand.              *)
RunsOver(n) == {d \in Date : sent[n][d] = 1 /\ \A p \in Server : Sends(p, n) => ph[p].d # d}

CountInv == \A n \in Notice : plan[n].count <= Cardinality(RunsOver(n))

PInv == PushTypes /\ RunInv /\ OnceInv /\ CountInv

LEMMA Dates == ASSUME Calendar PROVE IsFiniteSet(Date) /\ Date \subseteq Nat
  <1>1. IsFiniteSet(0 .. Horizon)
    BY FS_Interval DEF Calendar
  <1> QED BY <1>1 DEF Date, Calendar

(* The runs over are a finite set, and what bounds a count bounds it as    *)
(* long as no run leaves the set.                                          *)
LEMMA OverFinite ==
  ASSUME Calendar, NEW n
  PROVE  IsFiniteSet(RunsOver(n)) /\ Cardinality(RunsOver(n)) \in Nat
  <1>1. RunsOver(n) \subseteq Date
    BY DEF RunsOver
  <1> QED BY <1>1, Dates, FS_Subset, FS_CardinalityType

LEMMA OverGrows ==
  ASSUME Calendar, NEW n, RunsOver(n) \subseteq RunsOver(n)'
  PROVE  Cardinality(RunsOver(n)) <= Cardinality(RunsOver(n)')
  <1>1. RunsOver(n)' \subseteq Date
    BY DEF RunsOver, Date
  <1>2. IsFiniteSet(RunsOver(n)')
    BY <1>1, Dates, FS_Subset
  <1> QED BY <1>2, FS_Subset

LEMMA InitPush == ASSUME Calendar, PInit PROVE PInv
  <1>1. 1 \in Date /\ 0 \in Date /\ 0 # 1
    BY DEF Calendar, Date
  <1>2. plan = [n \in Notice |-> [active |-> TRUE, next |-> 1, count |-> 0, kept |-> TRUE]]
    BY DEF PInit
  <1>3. PushTypes
    BY <1>1, <1>2 DEF PInit, PushTypes, NoticePlan
  <1>4. RunInv /\ OnceInv
    BY <1>1, <1>2 DEF PInit, RunInv, OnceInv, OnceOf, Busy, Sends, Calendar
  <1>5. CountInv
    BY <1>2, OverFinite DEF CountInv
  <1> QED BY <1>3, <1>4, <1>5 DEF PInv

LEMMA ReadStep ==
  ASSUME Calendar, PInv, NEW p \in Server, processScheduledNotifications(p)
  PROVE  PInv'
  <1>1. now' = now /\ plan' = plan /\ sent' = sent /\ ph' = ph
    BY DEF processScheduledNotifications
  <1>2. \A n \in Notice : Due(n) => plan[n].next \in Date /\ plan[n].next <= now
    BY DEF Due, PInv, PushTypes, NoticePlan
  <1>3. PushTypes'
    BY <1>1, <1>2 DEF PInv, PushTypes, processScheduledNotifications, PIdle, Date
  <1>4. RunInv' /\ OnceInv' /\ CountInv'
    BY <1>1 DEF PInv, RunInv, OnceInv, OnceOf, CountInv, RunsOver, Busy, Sends, Beyond, PIdle, Date
  <1> QED BY <1>3, <1>4 DEF PInv

LEMMA TickStep ==
  ASSUME Calendar, PInv, Tick
  PROVE  PInv'
  <1>1. plan' = plan /\ sent' = sent /\ ph' = ph /\ batch' = batch
    BY DEF Tick
  <1>2. now' \in Date /\ now <= now'
    BY DEF Tick, PInv, PushTypes, Date, Calendar
  <1>3. ASSUME NEW p \in Server, NEW b \in batch[p] PROVE b[2] <= now'
    <2>1. b[2] \in Date /\ b[2] <= now
      BY <1>3 DEF PInv, PushTypes
    <2> QED BY <1>2, <2>1, Dates DEF PInv, PushTypes
  <1>4. PushTypes'
    BY <1>1, <1>2, <1>3 DEF PInv, PushTypes, PIdle, Date
  <1>5. RunInv' /\ OnceInv' /\ CountInv'
    BY <1>1 DEF PInv, RunInv, OnceInv, OnceOf, CountInv, RunsOver, Busy, Sends, Beyond, PIdle, Date
  <1> QED BY <1>4, <1>5 DEF PInv

(* The back office changes the switch or removes the row, never the dates. *)
LEMMA EditStep ==
  ASSUME Calendar, PInv, NEW n \in Notice, toggleScheduled(n) \/ deleteScheduled(n)
  PROVE  PInv'
  <1>1. now' = now /\ sent' = sent /\ ph' = ph /\ batch' = batch
    BY DEF toggleScheduled, deleteScheduled
  <1>2. plan' \in [Notice -> NoticePlan] /\ \A m \in Notice : plan'[m].next = plan[m].next /\ plan'[m].count = plan[m].count
    <2>1. CASE toggleScheduled(n)
      <3>1. plan' = [plan EXCEPT ![n].active = ~@]
        BY <2>1 DEF toggleScheduled
      <3> QED BY <3>1 DEF PInv, PushTypes, NoticePlan
    <2>2. CASE deleteScheduled(n)
      <3>1. plan' = [plan EXCEPT ![n].kept = FALSE]
        BY <2>2 DEF deleteScheduled
      <3> QED BY <3>1 DEF PInv, PushTypes, NoticePlan
    <2> QED BY <2>1, <2>2
  <1>3. PushTypes'
    BY <1>1, <1>2 DEF PInv, PushTypes, PIdle, NoticePlan, Date
  <1>4. RunInv'
    <2>1. \A m \in Notice, d \in Date : Beyond(m, d)' <=> Beyond(m, d)
      BY <1>2 DEF Beyond
    <2>2. \A q \in Server : Busy(q) => ph[q].n \in Notice /\ ph[q].d \in Date
      BY DEF PInv, PushTypes, Busy
    <2> QED BY <1>1, <2>1, <2>2 DEF PInv, RunInv, Busy, PIdle, Date
  <1>5. OnceInv'
    BY <1>1, <1>2 DEF PInv, OnceInv, OnceOf, Busy, Sends, PIdle, Date, Calendar
  <1>6. CountInv'
    BY <1>1, <1>2 DEF PInv, CountInv, RunsOver, Busy, Sends, PIdle, Date
  <1> QED BY <1>3, <1>4, <1>5, <1>6 DEF PInv

(* A cron takes a run: nobody has it, and the row leaves its date.         *)
LEMMA ClaimStep ==
  ASSUME Calendar, PInv, NEW p \in Server, NEW b \in batch[p], ClaimNotice(p, b)
  PROVE  PInv'
  <1>1. PICK n \in Notice, d \in Date : b = <<n, d>> /\ d <= now
    BY DEF PInv, PushTypes
  <1>2. now' = now /\ sent' = sent /\ batch' = [batch EXCEPT ![p] = @ \ {b}] /\ ph[p] = PIdle
    BY DEF ClaimNotice
  <1>3. batch' \in [Server -> SUBSET (Notice \X Date)] /\ \A q \in Server : batch'[q] \subseteq batch[q]
    BY <1>2 DEF PInv, PushTypes
  <1>4. CASE plan' = plan /\ ph' = ph
    <2>1. PushTypes'
      BY <1>2, <1>3, <1>4 DEF PInv, PushTypes, PIdle, Date
    <2>2. RunInv' /\ OnceInv' /\ CountInv'
      BY <1>2, <1>4 DEF PInv, RunInv, OnceInv, OnceOf, CountInv, RunsOver, Busy, Sends, Beyond, PIdle, Date
    <2> QED BY <2>1, <2>2 DEF PInv
  <1>5. CASE plan[n].next = d /\ plan' = [plan EXCEPT ![n].next = computeNextRun(n), ![n].active = n \notin Once]
             /\ ph' = [ph EXCEPT ![p] = [pc |-> "send", n |-> n, d |-> d]]
    <2>1. computeNextRun(n) \in Date \union {Never}
          /\ (computeNextRun(n) = Never \/ computeNextRun(n) > now)
          /\ (n \in Once => computeNextRun(n) = Never)
      BY DEF computeNextRun, PInv, PushTypes, Date, Calendar
    <2>2. /\ plan' \in [Notice -> NoticePlan] /\ plan'[n].next = computeNextRun(n)
          /\ \A m \in Notice : plan'[m].count = plan[m].count /\ (m # n => plan'[m] = plan[m])
      <3>1. plan \in [Notice -> NoticePlan] /\ n \in Notice
        BY DEF PInv, PushTypes
      <3>2. plan' = [plan EXCEPT ![n] = [plan[n] EXCEPT !.next = computeNextRun(n), !.active = n \notin Once]]
        BY <1>5, <3>1
      <3>3. /\ [plan[n] EXCEPT !.next = computeNextRun(n), !.active = n \notin Once] \in NoticePlan
            /\ [plan[n] EXCEPT !.next = computeNextRun(n), !.active = n \notin Once].next = computeNextRun(n)
            /\ [plan[n] EXCEPT !.next = computeNextRun(n), !.active = n \notin Once].count = plan[n].count
        BY <2>1, <3>1 DEF NoticePlan
      <3> QED BY <3>1, <3>2, <3>3
    <2>3. /\ ph' \in [Server -> [pc : {"send", "record"}, n : Notice, d : Date] \union {PIdle}]
          /\ ph'[p] = [pc |-> "send", n |-> n, d |-> d] /\ ph'[p] # PIdle
          /\ \A q \in Server \ {p} : ph'[q] = ph[q]
      BY <1>5 DEF PInv, PushTypes, PIdle
    <2>4. PushTypes'
      BY <1>2, <1>3, <2>2, <2>3 DEF PInv, PushTypes, PIdle, NoticePlan, Date
    <2>5. d \in Nat /\ now \in Nat /\ Date \subseteq Nat /\ d # Never
      BY Dates DEF PInv, PushTypes, Calendar
    <2>6. sent[n][d] = 0 /\ \A q \in Server : Busy(q) => ~(ph[q].n = n /\ ph[q].d = d)
      <3>1. ~Beyond(n, d)
        BY <1>5, <2>5 DEF Beyond
      <3> QED BY <3>1 DEF PInv, RunInv, PushTypes, Busy
    <2>8. \A e \in Date : e <= d => plan'[n].next = Never \/ plan'[n].next > e
      <3>1. PICK x \in Date \union {Never} : x = plan'[n].next /\ (x = Never \/ x > now)
        BY <2>1, <2>2
      <3>2. \A e \in Date : e <= d => x = Never \/ x > e
        BY <1>1, <2>5, <3>1
      <3> QED BY <3>1, <3>2
    <2>7. ASSUME NEW m \in Notice, NEW e \in Date, Beyond(m, e) PROVE Beyond(m, e)'
      <3>1. CASE m # n
        BY <2>2, <2>7, <3>1 DEF Beyond
      <3>2. CASE m = n
        <4>1. d > e
          BY <1>5, <2>5, <2>7, <3>2 DEF Beyond
        <4>2. e <= d
          BY <2>5, <2>7, <4>1
        <4> QED BY <2>8, <3>2, <4>2 DEF Beyond
      <3> QED BY <3>1, <3>2
    <2>9. \A q \in Server : Busy(q) => ph[q].n \in Notice /\ ph[q].d \in Date
      BY DEF PInv, PushTypes, Busy
    <2>10. RunInv'
      <3>1. \A q \in Server : Busy(q)' <=> q = p \/ Busy(q)
        BY <2>3 DEF Busy, PIdle
      <3>2. ASSUME NEW q \in Server, Busy(q)'
            PROVE  /\ Beyond(ph[q].n, ph[q].d)'
                   /\ ph'[q].pc = "send" => sent'[ph'[q].n][ph'[q].d] = 0
                   /\ ph'[q].pc = "record" => sent'[ph'[q].n][ph'[q].d] = 1
        <4>1. CASE q = p
          <5>1. ph'[q].n = n /\ ph'[q].d = d /\ ph'[q].pc = "send"
            BY <2>3, <4>1
          <5>2. plan'[n].next = Never \/ plan'[n].next > d
            BY <2>5, <2>8
          <5> QED BY <1>2, <2>6, <5>1, <5>2 DEF Beyond
        <4>2. CASE q # p
          <5>1. Busy(q) /\ ph'[q] = ph[q]
            BY <2>3, <3>1, <3>2, <4>2
          <5>2. Beyond(ph[q].n, ph[q].d) /\ ph[q].n \in Notice /\ ph[q].d \in Date
            BY <2>9, <5>1 DEF PInv, RunInv
          <5> QED BY <1>2, <2>7, <5>1, <5>2 DEF PInv, RunInv, Beyond
        <4> QED BY <4>1, <4>2
      <3>3. \A m \in Notice, e \in Date : sent'[m][e] = 1 => Beyond(m, e)'
        BY <1>2, <2>7 DEF PInv, RunInv
      <3>4. \A q, r \in Server : (Busy(q)' /\ Busy(r)' /\ ph'[q].n = ph'[r].n /\ ph'[q].d = ph'[r].d) => q = r
        BY <2>3, <2>6, <3>1 DEF PInv, RunInv
      <3> QED BY <3>2, <3>3, <3>4 DEF RunInv, Date
    <2>11. \A q \in Server, m \in Notice : Sends(q, m)' <=> (q = p /\ m = n) \/ Sends(q, m)
      BY <1>2, <2>3 DEF Sends, Busy, PIdle
    <2>12. OnceInv'
      <3>1. ASSUME NEW m \in Once PROVE OnceOf(m)'
        <4>1. CASE m # n
          <5>1. \A q \in Server : Sends(q, m)' => ph'[q] = ph[q] /\ Sends(q, m)
            BY <1>2, <2>3, <2>11, <4>1 DEF Calendar, Sends
          <5>2. m \in Notice /\ plan'[m] = plan[m]
            BY <2>2, <4>1 DEF Calendar
          <5> QED BY <1>2, <2>11, <4>1, <5>1, <5>2 DEF PInv, OnceInv, OnceOf, Date
        <4>2. CASE m = n
          <5>1. plan[n].count = 0 /\ (\A e \in Date : sent[n][e] = 0) /\ \A q \in Server : ~Sends(q, n)
            BY <1>5, <2>5, <4>2 DEF PInv, OnceInv, OnceOf
          <5>2. plan'[n].next = Never /\ plan'[n].count = 0
            BY <2>1, <2>2, <4>2, <5>1
          <5> QED BY <1>2, <2>11, <4>2, <5>1, <5>2 DEF OnceOf, Date
        <4> QED BY <4>1, <4>2
      <3> QED BY <3>1 DEF OnceInv
    <2>13. ASSUME NEW m \in Notice PROVE RunsOver(m)' = RunsOver(m)
      <3>1. ASSUME NEW e \in Date, sent[m][e] = 1
            PROVE  (\A q \in Server : Sends(q, m)' => ph'[q].d # e) <=> \A q \in Server : Sends(q, m) => ph[q].d # e
        <4>1. ~(m = n /\ e = d)
          BY <2>6, <3>1
        <4>2. ~Sends(p, m)
          BY <1>2 DEF Sends, Busy
        <4> QED BY <2>3, <2>11, <4>1, <4>2
      <3> QED BY <1>2, <3>1 DEF RunsOver, Date
    <2>14. CountInv'
      BY <2>2, <2>13 DEF PInv, CountInv
    <2> QED BY <2>4, <2>10, <2>12, <2>14 DEF PInv
  <1> QED BY <1>1, <1>4, <1>5 DEF ClaimNotice

(* The push goes out.                                                      *)
LEMMA SendStep ==
  ASSUME Calendar, PInv, NEW p \in Server, processOne(p)
  PROVE  PInv'
  <1>1. PICK n \in Notice, d \in Date : ph[p] = [pc |-> "send", n |-> n, d |-> d]
    BY DEF processOne, PInv, PushTypes, PIdle
  <1>2. now' = now /\ plan' = plan /\ batch' = batch /\ sent[n][d] = 0 /\ Busy(p)
    BY <1>1 DEF processOne, PInv, RunInv, Busy, PIdle
  <1>3. /\ sent' \in [Notice -> [Date -> {0, 1}]] /\ sent'[n][d] = 1
        /\ \A m \in Notice, e \in Date : ~(m = n /\ e = d) => sent'[m][e] = sent[m][e]
    BY <1>1, <1>2 DEF processOne, PInv, PushTypes
  <1>4. /\ ph' \in [Server -> [pc : {"send", "record"}, n : Notice, d : Date] \union {PIdle}]
        /\ ph'[p] = [pc |-> "record", n |-> n, d |-> d] /\ ph'[p] # PIdle
        /\ \A q \in Server \ {p} : ph'[q] = ph[q]
    <2>1. PICK x : x = [ph[p] EXCEPT !.pc = "record"]
      OBVIOUS
    <2>2. x = [pc |-> "record", n |-> n, d |-> d]
      BY <1>1, <2>1
    <2>3. ph' = [ph EXCEPT ![p] = x]
      BY <2>1 DEF processOne
    <2> QED BY <2>2, <2>3 DEF PInv, PushTypes, PIdle
  <1>5. PushTypes'
    BY <1>2, <1>3, <1>4 DEF PInv, PushTypes, PIdle, NoticePlan, Date
  <1>6. \A q \in Server : (Busy(q)' <=> Busy(q)) /\ ph'[q].n = ph[q].n /\ (Busy(q) => ph'[q].d = ph[q].d)
    BY <1>1, <1>2, <1>4 DEF Busy, PIdle
  <1>7. \A q \in Server, m \in Notice : Sends(q, m)' <=> Sends(q, m)
    BY <1>6 DEF Sends, Busy
  <1>8. \A q \in Server : Busy(q) => ph[q].n \in Notice /\ ph[q].d \in Date /\ ph[q].pc \in {"send", "record"}
    BY DEF PInv, PushTypes, Busy
  <1>9. RunInv'
    <2>1. \A m \in Notice, e \in Date : Beyond(m, e)' <=> Beyond(m, e)
      BY <1>2 DEF Beyond
    <2>2. Beyond(n, d)
      BY <1>1, <1>2 DEF PInv, RunInv
    <2>3. \A m \in Notice, e \in Date : sent'[m][e] = 1 => Beyond(m, e)'
      BY <1>3, <2>1, <2>2 DEF PInv, RunInv
    <2>4. ASSUME NEW q \in Server, Busy(q)'
          PROVE  /\ Beyond(ph[q].n, ph[q].d)'
                 /\ ph'[q].pc = "send" => sent'[ph'[q].n][ph'[q].d] = 0
                 /\ ph'[q].pc = "record" => sent'[ph'[q].n][ph'[q].d] = 1
      <3>1. CASE q = p
        <4>1. ph'[q].n = n /\ ph'[q].d = d /\ ph'[q].pc = "record"
          BY <1>4, <3>1
        <4> QED BY <1>2, <1>3, <2>2, <4>1 DEF Beyond
      <3>2. CASE q # p
        <4>1. Busy(q) /\ ph'[q] = ph[q]
          BY <1>4, <1>6, <2>4, <3>2
        <4>2. ~(ph[q].n = n /\ ph[q].d = d)
          BY <1>1, <1>2, <3>2, <4>1 DEF PInv, RunInv
        <4>3. Beyond(ph[q].n, ph[q].d) /\ ph[q].n \in Notice /\ ph[q].d \in Date
          BY <1>8, <4>1 DEF PInv, RunInv
        <4> QED BY <1>2, <1>3, <4>1, <4>2, <4>3 DEF PInv, RunInv, Beyond
      <3> QED BY <3>1, <3>2
    <2>5. \A q, r \in Server : (Busy(q)' /\ Busy(r)' /\ ph'[q].n = ph'[r].n /\ ph'[q].d = ph'[r].d) => q = r
      BY <1>6 DEF PInv, RunInv
    <2> QED BY <2>3, <2>4, <2>5 DEF RunInv, Date
  <1>10. OnceInv'
    <2>1. ASSUME NEW m \in Once PROVE OnceOf(m)'
      <3>1. OnceOf(m) /\ m \in Notice
        BY DEF PInv, OnceInv, Calendar
      <3>2. CASE m # n
        BY <1>2, <1>3, <1>6, <1>7, <3>1, <3>2 DEF OnceOf, Sends, Date
      <3>3. CASE m = n
        <4>1. Sends(p, n) /\ ph[p].d = d
          BY <1>1, <1>2 DEF Sends
        <4>2. plan[n].next = Never /\ plan[n].count = 0 /\ \A q \in Server : Sends(q, n) => q = p
          BY <3>1, <3>3, <4>1 DEF OnceOf
        <4>3. \A e \in Date : sent'[n][e] = 1 => e = d
          BY <1>3, <3>1, <3>3, <4>1 DEF OnceOf
        <4>4. ph'[p].d = d
          BY <1>4
        <4> QED BY <1>2, <1>7, <3>3, <4>2, <4>3, <4>4 DEF OnceOf, Date
      <3> QED BY <3>2, <3>3
    <2> QED BY <2>1 DEF OnceInv
  <1>11. ASSUME NEW m \in Notice PROVE RunsOver(m)' = RunsOver(m)
    <2>1. ASSUME NEW e \in Date
          PROVE  (\A q \in Server : Sends(q, m)' => ph'[q].d # e) <=> \A q \in Server : Sends(q, m) => ph[q].d # e
      BY <1>6, <1>7 DEF Sends
    <2>2. m = n => \E q \in Server : Sends(q, m) /\ ph[q].d = d
      BY <1>1, <1>2 DEF Sends
    <2> QED BY <1>3, <2>1, <2>2 DEF RunsOver, Date
  <1>12. CountInv'
    BY <1>2, <1>11 DEF PInv, CountInv
  <1> QED BY <1>5, <1>9, <1>10, <1>12 DEF PInv

(* A run leaves the hands of a cron, recorded or lost.                     *)
LEMMA LeaveStep ==
  ASSUME Calendar, PInv, NEW p \in Server, Busy(p), ph' = [ph EXCEPT ![p] = PIdle],
         now' = now, sent' = sent, batch' = batch, plan' \in [Notice -> NoticePlan],
         \A m \in Notice : /\ plan'[m].next = plan[m].next
                           /\ \/ plan'[m].count = plan[m].count
                              \/ /\ m = ph[p].n /\ ph[p].pc = "record"
                                 /\ plan'[m].count = plan[m].count + 1
  PROVE  PInv'
  <1>1. PICK n \in Notice, d \in Date : ph[p].n = n /\ ph[p].d = d
    BY DEF PInv, PushTypes, Busy
  <1>2. ph' \in [Server -> [pc : {"send", "record"}, n : Notice, d : Date] \union {PIdle}]
    BY DEF PInv, PushTypes
  <1>3. \A q \in Server : Busy(q)' <=> q # p /\ Busy(q)
    BY DEF Busy, PIdle, PInv, PushTypes
  <1>4. \A q \in Server \ {p} : ph'[q] = ph[q]
    BY DEF PInv, PushTypes
  <1>5. \A m : \A q \in Server : Sends(q, m)' <=> q # p /\ Sends(q, m)
    BY <1>3, <1>4 DEF Sends
  <1>6. PushTypes'
    BY <1>2 DEF PInv, PushTypes, PIdle, NoticePlan, Date
  <1>7. RunInv'
    <2>1. \A m \in Notice, e \in Date : Beyond(m, e)' <=> Beyond(m, e)
      BY DEF Beyond
    <2>2. \A q \in Server : Busy(q) => ph[q].n \in Notice /\ ph[q].d \in Date
      BY DEF PInv, PushTypes, Busy
    <2>3. \A m \in Notice, e \in Date : sent'[m][e] = 1 => Beyond(m, e)'
      BY <2>1 DEF PInv, RunInv
    <2>4. ASSUME NEW q \in Server, Busy(q)'
          PROVE  /\ Beyond(ph[q].n, ph[q].d)'
                 /\ ph'[q].pc = "send" => sent'[ph'[q].n][ph'[q].d] = 0
                 /\ ph'[q].pc = "record" => sent'[ph'[q].n][ph'[q].d] = 1
      <3>1. Busy(q) /\ ph'[q] = ph[q]
        BY <1>3, <1>4, <2>4
      <3> QED BY <2>1, <2>2, <3>1 DEF PInv, RunInv, Beyond
    <2>5. \A q, r \in Server : (Busy(q)' /\ Busy(r)' /\ ph'[q].n = ph'[r].n /\ ph'[q].d = ph'[r].d) => q = r
      BY <1>3, <1>4 DEF PInv, RunInv
    <2> QED BY <2>3, <2>4, <2>5 DEF RunInv, Date
  <1>8. OnceInv'
    <2>1. ASSUME NEW m \in Once PROVE OnceOf(m)'
      <3>1. OnceOf(m) /\ m \in Notice /\ plan'[m].next = plan[m].next
        BY DEF PInv, OnceInv, Calendar
      <3>2. CASE plan'[m].count = plan[m].count
        BY <1>4, <1>5, <3>1, <3>2 DEF OnceOf, Date
      <3>3. CASE m = ph[p].n /\ plan'[m].count = plan[m].count + 1
        <4>1. Sends(p, m)
          BY <3>3 DEF Sends
        <4>2. plan[m].count = 0 /\ plan[m].next = Never /\ \A q \in Server : Sends(q, m) => q = p
          BY <3>1, <4>1 DEF OnceOf
        <4>3. plan'[m].count = 1 /\ \A q \in Server : ~Sends(q, m)'
          BY <1>5, <3>3, <4>2
        <4> QED BY <3>1, <4>2, <4>3 DEF OnceOf, Date
      <3> QED BY <3>1, <3>2, <3>3
    <2> QED BY <2>1 DEF OnceInv
  <1>9. ASSUME NEW m \in Notice PROVE RunsOver(m) \subseteq RunsOver(m)'
    BY <1>4, <1>5 DEF RunsOver, Date
  <1>10. CountInv'
    <2>1. ASSUME NEW m \in Notice PROVE plan'[m].count <= Cardinality(RunsOver(m)')
      <3>1. plan[m].count <= Cardinality(RunsOver(m)) /\ Cardinality(RunsOver(m)) <= Cardinality(RunsOver(m)')
        BY <1>9, OverGrows DEF PInv, CountInv
      <3>2. plan[m].count \in Nat /\ Cardinality(RunsOver(m)) \in Nat /\ IsFiniteSet(RunsOver(m))
        BY OverFinite DEF PInv, PushTypes, NoticePlan
      <3>3. RunsOver(m)' \subseteq Date
        BY DEF RunsOver, Date
      <3>4. IsFiniteSet(RunsOver(m)') /\ Cardinality(RunsOver(m)') \in Nat
        BY <3>3, Dates, FS_Subset, FS_CardinalityType
      <3>5. CASE plan'[m].count = plan[m].count
        BY <3>1, <3>2, <3>4, <3>5
      <3>6. CASE m = n /\ ph[p].pc = "record" /\ plan'[m].count = plan[m].count + 1
        <4>1. sent[n][d] = 1 /\ Sends(p, n) /\ \A q \in Server : Sends(q, n) /\ ph[q].d = d => q = p
          BY <1>1, <3>6 DEF PInv, RunInv, Sends
        <4>2. d \notin RunsOver(n) /\ d \in RunsOver(n)'
          BY <1>1, <1>4, <1>5, <4>1 DEF RunsOver, Date
        <4>3. RunsOver(m) \cup {d} \subseteq RunsOver(m)' /\ d \notin RunsOver(m)
          BY <1>9, <3>6, <4>2
        <4>4. Cardinality(RunsOver(m) \cup {d}) = Cardinality(RunsOver(m)) + 1
          BY <3>2, <4>3, FS_AddElement
        <4>5. Cardinality(RunsOver(m) \cup {d}) <= Cardinality(RunsOver(m)')
          BY <3>4, <4>3, FS_Subset
        <4> QED BY <3>1, <3>2, <3>4, <3>6, <4>4, <4>5
      <3> QED BY <1>1, <3>5, <3>6
    <2> QED BY <2>1 DEF CountInv
  <1> QED BY <1>6, <1>7, <1>8, <1>10 DEF PInv

LEMMA RecordStep ==
  ASSUME Calendar, PInv, NEW p \in Server, RecordSending(p) \/ SendingFails(p)
  PROVE  PInv'
  <1>1. now' = now /\ sent' = sent /\ batch' = batch /\ Busy(p) /\ ph' = [ph EXCEPT ![p] = PIdle]
    BY DEF RecordSending, SendingFails, Busy, PIdle
  <1>2. PICK n \in Notice : ph[p].n = n
    BY <1>1 DEF PInv, PushTypes, Busy
  <1>3. CASE plan' = plan
    BY <1>1, <1>3, LeaveStep DEF PInv, PushTypes
  <1>4. CASE ph[p].pc = "record" /\ plan' = [plan EXCEPT ![n].count = @ + 1]
    <2>1. /\ plan' \in [Notice -> NoticePlan] /\ plan'[n].next = plan[n].next /\ plan'[n].count = plan[n].count + 1
          /\ \A m \in Notice \ {n} : plan'[m] = plan[m]
      BY <1>4 DEF PInv, PushTypes, NoticePlan
    <2> QED BY <1>1, <1>2, <1>4, <2>1, LeaveStep
  <1> QED BY <1>2, <1>3, <1>4 DEF RecordSending, SendingFails

LEMMA PushStep ==
  ASSUME Calendar, PInv, [PNext]_pvars
  PROVE  PInv'
  <1>1. ASSUME NEW p \in Server,
               \/ processScheduledNotifications(p) \/ \E b \in batch[p] : ClaimNotice(p, b)
               \/ processOne(p) \/ RecordSending(p) \/ SendingFails(p)
        PROVE  PInv'
    BY <1>1, ReadStep, ClaimStep, SendStep, RecordStep
  <1>2. CASE UNCHANGED pvars
    BY <1>2 DEF pvars, PInv, PushTypes, RunInv, OnceInv, OnceOf, CountInv, RunsOver, Sends, Busy, Beyond, PIdle, NoticePlan, Date
  <1> QED BY <1>1, <1>2, EditStep, TickStep DEF PNext

LEMMA PushAlways == ASSUME Calendar PROVE PSpec => []PInv
  <1>1. PInit => PInv
    BY InitPush
  <1>2. PInv /\ [PNext]_pvars => PInv'
    BY PushStep
  <1> QED BY <1>1, <1>2, PTL DEF PSpec

(* Each run goes out once, whichever backends read it as due               *)
(* (processScheduledNotifications: the update that claims next_run_at).    *)
THEOREM RunsSentOnce ==
  ASSUME Calendar
  PROVE  PSpec => []RunSentOnce
  <1>1. PInv => RunSentOnce
    BY DEF PInv, PushTypes, RunSentOnce
  <1> QED BY <1>1, PushAlways, PTL

(* The row is past the runs that went out: no switch and no stop brings    *)
(* one back.                                                               *)
THEOREM RunsAreOver ==
  ASSUME Calendar
  PROVE  PSpec => []RunIsOver
  <1>1. PInv => RunIsOver
    BY DEF PInv, PushTypes, RunInv, RunIsOver, Beyond
  <1> QED BY <1>1, PushAlways, PTL

(* A notification planned for one date goes out and is counted once, also  *)
(* when the back office switches it on again.                              *)
THEOREM PlannedOnce ==
  ASSUME Calendar
  PROVE  PSpec => []OnceSentOnce
  <1>1. PInv => OnceSentOnce
    <2> SUFFICES ASSUME PInv, NEW n \in Once PROVE Pushes(n) <= 1 /\ plan[n].count <= 1
      BY DEF OnceSentOnce
    <2>1. OnceOf(n) /\ n \in Notice
      BY DEF PInv, OnceInv, Calendar
    <2> DEFINE out == {d \in Date : sent[n][d] > 0}
    <2>2. \A d, e \in out : d = e
      BY <2>1 DEF OnceOf, PInv, PushTypes
    <2>3. Pushes(n) = Cardinality(out) /\ plan[n].count \in Nat /\ plan[n].count <= 1
      BY <2>1 DEF Pushes, OnceOf, PInv, PushTypes, NoticePlan
    <2>4. Cardinality(out) = 0 \/ Cardinality(out) = 1
      <3>1. CASE out = {}
        BY <3>1, FS_EmptySet
      <3>2. CASE out # {}
        <4>1. PICK d \in out : out = {d}
          BY <2>2, <3>2
        <4>2. Cardinality({d}) = 1
          BY FS_Singleton
        <4> HIDE DEF out
        <4> QED BY <4>1, <4>2
      <3> QED BY <3>1, <3>2
    <2> HIDE DEF out
    <2> QED BY <2>3, <2>4
  <1> QED BY <1>1, PushAlways, PTL

(* The dates keep their types, and send_count never exceeds what went out. *)
THEOREM PushTypeCorrect ==
  ASSUME Calendar
  PROVE  PSpec => []PTypeOK
  <1>1. PInv => PTypeOK
    <2> SUFFICES ASSUME PInv, NEW n \in Notice PROVE plan[n].next \in Date \union {Never} /\ plan[n].count <= Pushes(n)
      BY DEF PTypeOK, PInv, PushTypes
    <2>1. RunsOver(n) \subseteq {d \in Date : sent[n][d] > 0} /\ IsFiniteSet({d \in Date : sent[n][d] > 0})
      BY Dates, FS_Subset DEF RunsOver
    <2>2. Cardinality(RunsOver(n)) <= Pushes(n) /\ Pushes(n) \in Nat
      BY <2>1, FS_Subset, FS_CardinalityType DEF Pushes
    <2> QED BY <2>2, OverFinite DEF PInv, CountInv, PushTypes, NoticePlan
  <1> QED BY <1>1, PushAlways, PTL

-----------------------------------------------------------------------------
(* Gift campaigns *)

(* No campaign stands for the idle process, and targets are customers.     *)
Catalogue == NoCampaign \notin Campaign /\ Target \in [Campaign -> SUBSET Customer]

States == {"none", "scheduled", "sending", "sent", "cancelled", "failed"}

CampaignTypes ==
    /\ camp \in [Campaign -> States]
    /\ given \in [Campaign -> [Customer -> {0, 1}]]
    /\ recent \subseteq Customer
    /\ seen \in [Cron -> SUBSET Campaign]
    /\ kh \in [Process ->      [pc : {"cap", "close"}, c : Campaign]
                         \union [pc : {"give"}, c : Campaign, to : SUBSET Customer]
                         \union {KIdle}]

At(p, c) == kh[p] # KIdle /\ kh[p].c = c

(* Customer u had a gift, of another campaign, that leaves him out of c.   *)
LeftOut(c, u) == c \notin Uncapped /\ \E d \in Campaign : d # c /\ given[d][u] = 1

Untouched(c) == \A u \in Customer : given[c][u] = 0
Complete(c) == \A u \in Target[c] : given[c][u] = 1 \/ LeftOut(c, u)

CooldownInv == \A u \in recent : \E d \in Campaign : given[d][u] = 1

(* What is behind a campaign in each of its states: a status is left only  *)
(* by the one process that has claimed it.                                 *)
StatusInv ==
    \A c \in Campaign :
        /\ camp[c] \in {"none", "scheduled", "cancelled"} => Untouched(c)
        /\ camp[c] = "sent" => Complete(c)
        /\ \A p \in Process : At(p, c) =>
              /\ camp[c] = "sending"
              /\ \A q \in Process : At(q, c) => q = p
              /\ kh[p].pc \in {"cap", "give"} => Untouched(c)
              /\ kh[p].pc = "give" =>
                    kh[p].to \subseteq Target[c] /\ \A u \in Target[c] \ kh[p].to : LeftOut(c, u)
              /\ kh[p].pc = "close" => Complete(c)

KInv == CampaignTypes /\ CooldownInv /\ StatusInv

LEMMA InitCampaigns == ASSUME Catalogue, KInit PROVE KInv
  <1>1. CampaignTypes
    BY DEF KInit, CampaignTypes, States
  <1>2. CooldownInv
    BY DEF KInit, CooldownInv
  <1>3. StatusInv
    BY DEF KInit, StatusInv, Untouched, At
  <1> QED BY <1>1, <1>2, <1>3 DEF KInv

(* Steps that change no gift keep who is left out and what is complete.    *)
LEMMA SameGifts ==
  ASSUME given' = given
  PROVE  \A c \in Campaign : /\ Untouched(c)' <=> Untouched(c)
                             /\ Complete(c)' <=> Complete(c)
                             /\ \A u : LeftOut(c, u)' <=> LeftOut(c, u)
  BY DEF Untouched, Complete, LeftOut

(* A step that touches campaign c and the process that has it, and no      *)
(* gift, keeps the invariant if it leaves c as its new status asks for.    *)
LEMMA StatusStep ==
  ASSUME Catalogue, KInv, CampaignTypes', given' = given, NEW c \in Campaign,
         \A d \in Campaign \ {c} :
             /\ camp'[d] = camp[d]
             /\ \A p \in Process : At(p, d)' => At(p, d) /\ kh'[p] = kh[p],
         recent' \subseteq recent,
         camp'[c] \in {"none", "scheduled", "cancelled"} => Untouched(c),
         camp'[c] = "sent" => Complete(c),
         \A p \in Process : At(p, c)' =>
              /\ camp'[c] = "sending"
              /\ \A q \in Process : At(q, c)' => q = p
              /\ kh'[p].pc \in {"cap", "give"} => Untouched(c)
              /\ kh'[p].pc = "give" =>
                    kh'[p].to \subseteq Target[c] /\ \A u \in Target[c] \ kh'[p].to : LeftOut(c, u)
              /\ kh'[p].pc = "close" => Complete(c)
  PROVE  KInv'
  <1>1. CooldownInv'
    BY DEF KInv, CooldownInv
  <1>2. ASSUME NEW d \in Campaign
        PROVE  /\ camp'[d] \in {"none", "scheduled", "cancelled"} => Untouched(d)'
               /\ camp'[d] = "sent" => Complete(d)'
               /\ \A p \in Process : At(p, d)' =>
                    /\ camp'[d] = "sending"
                    /\ \A q \in Process : At(q, d)' => q = p
                    /\ kh'[p].pc \in {"cap", "give"} => Untouched(d)'
                    /\ kh'[p].pc = "give" =>
                          kh'[p].to \subseteq Target[d] /\ \A u \in Target[d] \ kh'[p].to : LeftOut(d, u)'
                    /\ kh'[p].pc = "close" => Complete(d)'
    <2>1. CASE d = c
      BY <2>1, SameGifts
    <2>2. CASE d # c
      <3>1. camp'[d] = camp[d] /\ \A p \in Process : At(p, d)' => At(p, d) /\ kh'[p] = kh[p]
        BY <2>2
      <3> QED BY <3>1, SameGifts DEF KInv, StatusInv
    <2> QED BY <2>1, <2>2
  <1>3. StatusInv'
    BY <1>2 DEF StatusInv, Process
  <1> QED BY <1>1, <1>3 DEF KInv

(* A process that takes up campaign c, which nobody has in hand.           *)
LEMMA TakeUp ==
  ASSUME Catalogue, KInv, NEW p \in Process, NEW c \in Campaign, kh[p] = KIdle,
         camp[c] \in {"none", "scheduled"}, camp' = [camp EXCEPT ![c] = "sending"],
         kh' = [kh EXCEPT ![p] = [pc |-> "cap", c |-> c]],
         given' = given, recent' = recent, seen' \in [Cron -> SUBSET Campaign]
  PROVE  KInv'
  <1>1. CampaignTypes'
    BY DEF KInv, CampaignTypes, States, Process, KIdle
  <1>2. kh'[p] = [pc |-> "cap", c |-> c] /\ \A q \in Process \ {p} : kh'[q] = kh[q]
    BY DEF KInv, CampaignTypes
  <1>3. camp'[c] = "sending" /\ \A d \in Campaign \ {c} : camp'[d] = camp[d]
    BY DEF KInv, CampaignTypes
  <1>4. Untouched(c) /\ \A q \in Process : ~At(q, c)
    BY DEF KInv, StatusInv
  <1>5. \A d \in Campaign \ {c} : \A q \in Process : At(q, d)' => At(q, d) /\ kh'[q] = kh[q]
    BY <1>2 DEF At, KIdle
  <1>6. \A q \in Process : At(q, c)' => q = p
    BY <1>2, <1>4 DEF At, KIdle
  <1> QED BY <1>1, <1>2, <1>3, <1>4, <1>5, <1>6, StatusStep

LEMMA CreateStep ==
  ASSUME Catalogue, KInv, NEW c \in Campaign, createCampaign(c) \/ cancelCampaign(c)
  PROVE  KInv'
  <1>1. ASSUME NEW s \in {"scheduled", "cancelled"}, camp[c] \in {"none", "scheduled"},
               camp' = [camp EXCEPT ![c] = s], UNCHANGED <<kh, given, recent, seen>>
        PROVE  KInv'
    <2>1. CampaignTypes'
      BY <1>1 DEF KInv, CampaignTypes, States, Process, KIdle
    <2>2. Untouched(c) /\ \A q \in Process : ~At(q, c)
      BY <1>1 DEF KInv, StatusInv
    <2>3. camp'[c] = s /\ \A d \in Campaign \ {c} : camp'[d] = camp[d]
      BY <1>1 DEF KInv, CampaignTypes
    <2>4. \A d \in Campaign : \A q \in Process : At(q, d)' => At(q, d) /\ kh'[q] = kh[q]
      BY <1>1 DEF At, KIdle
    <2> QED BY <1>1, <2>1, <2>2, <2>3, <2>4, StatusStep
  <1>2. CASE createCampaign(c) /\ kh[Desk] = KIdle /\ camp' = [camp EXCEPT ![c] = "sending"]
             /\ kh' = [kh EXCEPT ![Desk] = [pc |-> "cap", c |-> c]]
    <2>1. camp[c] = "none" /\ given' = given /\ recent' = recent /\ seen' \in [Cron -> SUBSET Campaign] /\ Desk \in Process
      BY <1>2 DEF createCampaign, KInv, CampaignTypes, Process
    <2> QED BY <1>2, <2>1, TakeUp
  <1> QED BY <1>1, <1>2 DEF createCampaign, cancelCampaign

LEMMA CronStep ==
  ASSUME Catalogue, KInv, NEW p \in Cron,
         processScheduledCampaigns(p) \/ \E c \in Campaign : ClaimCampaign(p, c)
  PROVE  KInv'
  <1>1. seen' \in [Cron -> SUBSET Campaign] /\ given' = given /\ recent' = recent
    BY DEF processScheduledCampaigns, ClaimCampaign, KInv, CampaignTypes
  <1>2. CASE camp' = camp /\ kh' = kh
    <2>1. CampaignTypes'
      BY <1>1, <1>2 DEF KInv, CampaignTypes, States, Process, KIdle
    <2>2. CooldownInv' /\ StatusInv'
      BY <1>1, <1>2 DEF KInv, CooldownInv, StatusInv, At, Untouched, Complete, LeftOut, Process, KIdle
    <2> QED BY <2>1, <2>2 DEF KInv
  <1>3. ASSUME NEW c \in Campaign, kh[p] = KIdle, camp[c] = "scheduled", camp' = [camp EXCEPT ![c] = "sending"],
               kh' = [kh EXCEPT ![p] = [pc |-> "cap", c |-> c]]
        PROVE  KInv'
    BY <1>1, <1>3, TakeUp DEF Process
  <1> QED BY <1>2, <1>3 DEF processScheduledCampaigns, ClaimCampaign

(* Of its targets a campaign leaves out only those with a recent gift,     *)
(* which is another campaign's: its own are not given yet.                 *)
LEMMA CapStep ==
  ASSUME Catalogue, KInv, NEW p \in Process, applyCapping(p)
  PROVE  KInv'
  <1>1. PICK c \in Campaign : kh[p].c = c /\ At(p, c) /\ kh[p].pc = "cap"
    BY DEF applyCapping, KInv, CampaignTypes, KIdle, At
  <1>2. PICK to \in SUBSET Customer :
             /\ to = (IF c \in Uncapped THEN Target[c] ELSE Target[c] \ recent)
             /\ kh' = [kh EXCEPT ![p] = [pc |-> "give", c |-> c, to |-> to]]
    BY <1>1 DEF applyCapping, Catalogue
  <1>3. camp' = camp /\ given' = given /\ recent' = recent /\ seen' = seen
    BY DEF applyCapping
  <1>4. kh'[p] = [pc |-> "give", c |-> c, to |-> to] /\ \A q \in Process \ {p} : kh'[q] = kh[q]
    BY <1>2 DEF KInv, CampaignTypes
  <1>5. CampaignTypes'
    BY <1>2, <1>3 DEF KInv, CampaignTypes, States, Process, KIdle
  <1>6. camp[c] = "sending" /\ Untouched(c) /\ \A q \in Process : At(q, c) => q = p
    BY <1>1 DEF KInv, StatusInv
  <1>7. to \subseteq Target[c] /\ Target[c] \subseteq Customer
    BY <1>2 DEF Catalogue
  <1>8. ASSUME NEW u \in Target[c] \ to PROVE LeftOut(c, u)
    <2>1. c \notin Uncapped /\ u \in recent /\ u \in Customer
      BY <1>2, <1>7, <1>8
    <2>2. PICK d \in Campaign : given[d][u] = 1
      BY <2>1 DEF KInv, CooldownInv
    <2>3. d # c
      BY <1>6, <2>1, <2>2 DEF Untouched
    <2> QED BY <2>1, <2>2, <2>3 DEF LeftOut
  <1>9. \A d \in Campaign \ {c} : \A q \in Process : At(q, d)' => At(q, d) /\ kh'[q] = kh[q]
    BY <1>4 DEF At, KIdle
  <1>10. \A q \in Process : At(q, c)' => q = p
    BY <1>4, <1>6 DEF At
  <1> QED BY <1>3, <1>4, <1>5, <1>6, <1>7, <1>8, <1>9, <1>10, StatusStep

(* The rewards of a campaign are its first: the others only gain by them.  *)
LEMMA GiveStep ==
  ASSUME Catalogue, KInv, NEW p \in Process, GiveRewards(p)
  PROVE  KInv'
  <1>1. PICK c \in Campaign : kh[p].c = c /\ At(p, c) /\ kh[p].pc = "give"
    BY DEF GiveRewards, KInv, CampaignTypes, KIdle, At
  <1>2. PICK to \in SUBSET Customer : kh[p].to = to
    BY <1>1 DEF KInv, CampaignTypes, KIdle
  <1>3. /\ Untouched(c) /\ camp[c] = "sending" /\ \A q \in Process : At(q, c) => q = p
        /\ to \subseteq Target[c] /\ \A u \in Target[c] \ to : LeftOut(c, u)
    BY <1>1, <1>2 DEF KInv, StatusInv
  <1>4. /\ camp' = camp /\ seen' = seen /\ recent' = recent \union to
        /\ kh' = [kh EXCEPT ![p] = [pc |-> "close", c |-> c]]
        /\ given' = [given EXCEPT ![c] = [u \in Customer |-> IF u \in to THEN given[c][u] + 1 ELSE given[c][u]]]
    BY <1>1, <1>2 DEF GiveRewards
  <1>5. /\ \A u \in Customer : given'[c][u] = (IF u \in to THEN 1 ELSE 0)
        /\ \A d \in Campaign \ {c} : given'[d] = given[d]
        /\ given' \in [Campaign -> [Customer -> {0, 1}]]
    <2> DEFINE row == [u \in Customer |-> IF u \in to THEN given[c][u] + 1 ELSE given[c][u]]
    <2>1. \A u \in Customer : given[c][u] = 0
      BY <1>3 DEF Untouched
    <2>2. row \in [Customer -> {0, 1}] /\ \A u \in Customer : row[u] = (IF u \in to THEN 1 ELSE 0)
      BY <2>1
    <2>3. given' = [given EXCEPT ![c] = row]
      BY <1>4
    <2> HIDE DEF row
    <2> QED BY <2>2, <2>3 DEF KInv, CampaignTypes
  <1>6. \A d \in Campaign, u \in Customer : given[d][u] = 1 => given'[d][u] = 1
    BY <1>3, <1>5 DEF Untouched
  <1>7. \A d \in Campaign : Target[d] \subseteq Customer
    BY DEF Catalogue
  <1>8. \A d \in Campaign, u \in Customer : LeftOut(d, u) => LeftOut(d, u)'
    BY <1>6 DEF LeftOut
  <1>9. kh'[p] = [pc |-> "close", c |-> c] /\ \A q \in Process \ {p} : kh'[q] = kh[q]
    BY <1>4 DEF KInv, CampaignTypes
  <1>10. CampaignTypes'
    <2>1. kh' \in [Process -> [pc : {"cap", "close"}, c : Campaign]
                         \union [pc : {"give"}, c : Campaign, to : SUBSET Customer] \union {KIdle}]
      BY <1>4 DEF KInv, CampaignTypes
    <2> QED BY <1>4, <1>5, <2>1 DEF KInv, CampaignTypes, States, Process, KIdle
  <1>11. CooldownInv'
    <2>1. ASSUME NEW u \in to PROVE \E d \in Campaign : given'[d][u] = 1
      BY <1>5, <2>1
    <2>2. ASSUME NEW u \in recent PROVE \E d \in Campaign : given'[d][u] = 1
      BY <1>6, <2>2 DEF KInv, CampaignTypes, CooldownInv
    <2> QED BY <1>4, <2>1, <2>2 DEF CooldownInv
  <1>12. Complete(c)'
    BY <1>3, <1>5, <1>7, <1>8 DEF Complete
  <1>13. ASSUME NEW d \in Campaign \ {c}
         PROVE  /\ Untouched(d) => Untouched(d)'
                /\ Complete(d) => Complete(d)'
    BY <1>5, <1>6, <1>7, <1>8 DEF Untouched, Complete
  <1>14. ASSUME NEW d \in Campaign
         PROVE  /\ camp'[d] \in {"none", "scheduled", "cancelled"} => Untouched(d)'
                /\ camp'[d] = "sent" => Complete(d)'
                /\ \A q \in Process : At(q, d)' =>
                     /\ camp'[d] = "sending"
                     /\ \A r \in Process : At(r, d)' => r = q
                     /\ kh'[q].pc \in {"cap", "give"} => Untouched(d)'
                     /\ kh'[q].pc = "give" =>
                           kh'[q].to \subseteq Target[d] /\ \A u \in Target[d] \ kh'[q].to : LeftOut(d, u)'
                     /\ kh'[q].pc = "close" => Complete(d)'
    <2>1. CASE d = c
      <3>1. \A q \in Process : At(q, c)' => q = p
        BY <1>3, <1>9 DEF At
      <3> QED BY <1>3, <1>4, <1>9, <1>12, <2>1, <3>1
    <2>2. CASE d # c
      <3>1. \A q \in Process : At(q, d)' => At(q, d) /\ kh'[q] = kh[q]
        BY <1>9, <2>2 DEF At, KIdle
      <3> QED BY <1>4, <1>7, <1>8, <1>13, <2>2, <3>1 DEF KInv, StatusInv
    <2> QED BY <2>1, <2>2
  <1>15. StatusInv'
    BY <1>14 DEF StatusInv, Process
  <1> QED BY <1>10, <1>11, <1>15 DEF KInv

LEMMA EndStep ==
  ASSUME Catalogue, KInv, NEW p \in Process, CloseCampaign(p) \/ DispatchFails(p)
  PROVE  KInv'
  <1>1. PICK c \in Campaign : kh[p].c = c /\ At(p, c)
    BY DEF CloseCampaign, DispatchFails, KInv, CampaignTypes, KIdle, At
  <1>2. PICK s \in {"sending", "sent", "failed"} :
            camp' = [camp EXCEPT ![c] = s] /\ (s = "sent" => kh[p].pc = "close")
    <2>1. camp[c] = "sending" /\ camp = [camp EXCEPT ![c] = camp[c]]
      BY <1>1 DEF KInv, StatusInv, CampaignTypes
    <2> QED BY <1>1, <2>1 DEF CloseCampaign, DispatchFails
  <1>3. given' = given /\ recent' = recent /\ seen' = seen /\ kh' = [kh EXCEPT ![p] = KIdle]
    BY DEF CloseCampaign, DispatchFails
  <1>4. CampaignTypes'
    BY <1>2, <1>3 DEF KInv, CampaignTypes, States, Process, KIdle
  <1>5. kh'[p] = KIdle /\ \A q \in Process \ {p} : kh'[q] = kh[q]
    BY <1>3 DEF KInv, CampaignTypes
  <1>6. camp'[c] = s /\ \A d \in Campaign \ {c} : camp'[d] = camp[d]
    BY <1>2 DEF KInv, CampaignTypes
  <1>7. s = "sent" => Complete(c)
    BY <1>1, <1>2 DEF KInv, StatusInv
  <1>8. \A q \in Process : At(q, c) => q = p
    BY <1>1 DEF KInv, StatusInv
  <1>9. \A q \in Process : ~At(q, c)'
    BY <1>5, <1>8 DEF At
  <1>10. \A d \in Campaign \ {c} : \A q \in Process : At(q, d)' => At(q, d) /\ kh'[q] = kh[q]
    BY <1>5 DEF At, KIdle
  <1> QED BY <1>3, <1>4, <1>6, <1>7, <1>9, <1>10, StatusStep

LEMMA CooldownStep ==
  ASSUME Catalogue, KInv, NEW u \in Customer, CooldownEnds(u)
  PROVE  KInv'
  <1>1. CampaignTypes'
    BY DEF CooldownEnds, KInv, CampaignTypes, States, Process, KIdle
  <1>2. CooldownInv' /\ StatusInv'
    BY DEF CooldownEnds, KInv, CooldownInv, StatusInv, At, Untouched, Complete, LeftOut, Process, KIdle
  <1> QED BY <1>1, <1>2 DEF KInv

LEMMA CampaignStep ==
  ASSUME Catalogue, KInv, [KNext]_kvars
  PROVE  KInv'
  <1>1. CASE UNCHANGED kvars
    BY <1>1 DEF kvars, KInv, CampaignTypes, CooldownInv, StatusInv, At, Untouched, Complete, LeftOut,
                States, Process, KIdle
  <1> QED BY <1>1, CreateStep, CronStep, CapStep, GiveStep, EndStep, CooldownStep DEF KNext

LEMMA CampaignAlways == ASSUME Catalogue PROVE KSpec => []KInv
  <1>1. KInit => KInv
    BY InitCampaigns
  <1>2. KInv /\ [KNext]_kvars => KInv'
    BY CampaignStep
  <1> QED BY <1>1, <1>2, PTL DEF KSpec

(* A customer gets a campaign once, whichever backends read it as due and  *)
(* wherever a distribution fails (processScheduledCampaigns: the update    *)
(* that claims the status SCHEDULED).                                      *)
THEOREM GivenOnce ==
  ASSUME Catalogue
  PROVE  KSpec => []DistributedOnce
  <1>1. KInv => DistributedOnce
    BY DEF KInv, CampaignTypes, DistributedOnce
  <1> QED BY <1>1, CampaignAlways, PTL

(* A campaign marked sent reached each of its targets, except those that   *)
(* another campaign had reached; a cancelled one reached nobody.           *)
THEOREM SentReachesTargets ==
  ASSUME Catalogue
  PROVE  KSpec => []SentIsComplete
  <1>1. KInv => SentIsComplete
    BY DEF KInv, CampaignTypes, StatusInv, SentIsComplete, Untouched, Complete, LeftOut, Catalogue
  <1> QED BY <1>1, CampaignAlways, PTL

(* One process distributes a campaign, and only one that is being sent.    *)
THEOREM OneDistribution ==
  ASSUME Catalogue
  PROVE  KSpec => []KTypeOK
  <1>1. KInv => KTypeOK
    <2> SUFFICES ASSUME KInv PROVE KTypeOK
      OBVIOUS
    <2>1. \A p \in Process : kh[p] # KIdle => kh[p].c \in Campaign /\ At(p, kh[p].c)
      BY DEF KInv, CampaignTypes, At, KIdle
    <2>2. ASSUME NEW p \in Process, NEW q \in Process, p # q, kh[p].c = kh[q].c, kh[p] # KIdle
          PROVE  FALSE
      <3>1. kh[q] # KIdle
        BY <2>1, <2>2 DEF Catalogue, KIdle
      <3> QED BY <2>1, <2>2, <3>1 DEF KInv, StatusInv
    <2>3. \A p \in Process : kh[p] # KIdle => camp[kh[p].c] = "sending"
      BY <2>1 DEF KInv, StatusInv
    <2> QED BY <2>2, <2>3 DEF KTypeOK, KInv, CampaignTypes, States
  <1> QED BY <1>1, CampaignAlways, PTL

-----------------------------------------------------------------------------
(* Calls to the staff                                                      *)

(* The caller is not among those the call rings at.                        *)
Staff == Caller \notin Receiver /\ UserOf \in [Slot -> User]

(* A user answers from one page.                                           *)
OnePage == \A s, t \in Slot : UserOf[s] = UserOf[t] => s = t

CallStates == {"none", "RINGING", "ONGOING"} \union Over
CallHandlers ==
    [pc : {"idle", "claim", "tell", "remove", "miss"}]
    \union [pc : {"cancel"}, ringing : SUBSET Receiver]
    \union [pc : {"end"}, by : SUBSET Receiver]

CallTypes ==
    /\ call \in [st : CallStates, ringing : SUBSET Receiver, by : SUBSET Receiver]
    /\ room \in BOOLEAN /\ silent \in BOOLEAN /\ failures \in Nat
    /\ ui \in [User -> {"none", "calling", "ringing", "in"}]
    /\ hh \in [Slot -> CallHandlers]

(* A call has an answerer from its answer on, always the same one, and the *)
(* page that has answered but not told anybody is his.                     *)
AnswerInv ==
    /\ call.st \in {"none", "RINGING", "MISSED", "CANCELLED"} => call.by = {}
    /\ call.st = "ONGOING" => call.by # {}
    /\ call.by = {} \/ \E r \in Receiver : call.by = {r}
    /\ \A s \in Slot : hh[s].pc \in {"claim", "tell", "remove"} => UserOf[s] \in Receiver
    /\ \A s \in Slot : hh[s].pc = "tell" => call.by = {UserOf[s]}
    /\ OneAnswerer

CallInv == CallTypes /\ AnswerInv

(* A refusal was the last one only of a call that nobody is about to take. *)
RoomInv ==
    /\ call.st \in {"RINGING", "ONGOING"} => room
    /\ \A s \in Slot : hh[s].pc = "claim" /\ call.st = "RINGING" => UserOf[s] \in call.ringing
    /\ \A s \in Slot : hh[s].pc = "miss" => call.ringing = {} /\ call.st \notin {"none", "ONGOING"}

(* Who still sees a call that is over is about to be told.                 *)
Unseen(U) == \A u \in U : ui[u] = "none"

ToldInv ==
    /\ Unseen(User \ (Receiver \union {Caller}))
    /\ call.st = "RINGING" => Unseen(Receiver \ call.ringing)
    /\ call.st \in {"none", "MISSED", "CANCELLED"} => Unseen(User)
    /\ (call.st \in {"ONGOING", "ENDED"} /\ \A s \in Slot : hh[s].pc # "tell") => Unseen(Receiver \ call.by)
    /\ call.st = "ENDED" => Unseen(call.by \union {Caller})

(* What a handler knows of the call.                                       *)
PageInv(h) ==
    /\ h.pc # "idle" => call.st # "none"
    /\ h.pc = "miss" /\ call.st = "RINGING" => call.ringing = {}
    /\ h.pc = "cancel" /\ call.st = "RINGING" => call.ringing \subseteq h.ringing
    /\ h.pc = "end" => h.by = call.by /\ call.st \in {"ONGOING", "ENDED"}

PagesInv == /\ call.st = "none" => call.ringing = {}
            /\ \A s \in Slot : PageInv(hh[s])

SeenInv == PagesInv /\ (~silent /\ failures = 0 => ToldInv)

(* A page goes on.                                                         *)
PageMoves(s, h) ==
    /\ hh' \in [Slot -> CallHandlers] /\ hh'[s] = h /\ \A t \in Slot \ {s} : hh'[t] = hh[t]

LEMMA PageServed ==
  ASSUME CallTypes, NEW s \in Slot, NEW h \in CallHandlers, Serve(s, h)
  PROVE  PageMoves(s, h)
  BY DEF CallTypes, Serve, PageMoves

LEMMA PageStates ==
  /\ HIdle \in CallHandlers /\ HIdle.pc = "idle"
  /\ \A x \in {"idle", "claim", "tell", "remove", "miss"} : [pc |-> x] \in CallHandlers
  /\ \A R \in SUBSET Receiver : /\ [pc |-> "cancel", ringing |-> R] \in CallHandlers
                                /\ [pc |-> "end", by |-> R] \in CallHandlers
  BY DEF HIdle, CallHandlers

(* A user of the call.                                                     *)
LEMMA PageOwner == ASSUME Staff, NEW s \in Slot PROVE UserOf[s] \in User
  BY DEF Staff

LEMMA CallWritten ==
  ASSUME CallTypes
  PROVE  /\ \A x \in CallStates : /\ [call EXCEPT !.st = x] \in [st : CallStates, ringing : SUBSET Receiver, by : SUBSET Receiver]
                                  /\ [call EXCEPT !.st = x].st = x
                                  /\ [call EXCEPT !.st = x].ringing = call.ringing
                                  /\ [call EXCEPT !.st = x].by = call.by
         /\ \A r \in Receiver :
              /\ [call EXCEPT !.st = "ONGOING", !.by = {r}] \in [st : CallStates, ringing : SUBSET Receiver, by : SUBSET Receiver]
              /\ [call EXCEPT !.st = "ONGOING", !.by = {r}].st = "ONGOING"
              /\ [call EXCEPT !.st = "ONGOING", !.by = {r}].ringing = call.ringing
              /\ [call EXCEPT !.st = "ONGOING", !.by = {r}].by = {r}
              /\ [call EXCEPT !.ringing = @ \ {r}] \in [st : CallStates, ringing : SUBSET Receiver, by : SUBSET Receiver]
              /\ [call EXCEPT !.ringing = @ \ {r}].st = call.st
              /\ [call EXCEPT !.ringing = @ \ {r}].ringing = call.ringing \ {r}
              /\ [call EXCEPT !.ringing = @ \ {r}].by = call.by
  BY DEF CallTypes, CallStates

LEMMA CallStart == ASSUME Staff PROVE CallInit => CallInv /\ RoomInv /\ SeenInv
  <1> SUFFICES ASSUME CallInit PROVE CallInv /\ RoomInv /\ SeenInv
    OBVIOUS
  <1>1. /\ call.st = "none" /\ call.ringing = {} /\ call.by = {}
        /\ \A u \in User : ui[u] = "none"
        /\ \A s \in Slot : hh[s].pc = "idle"
    BY DEF CallInit, HIdle
  <1>2. CallTypes
    BY PageStates DEF CallInit, CallTypes, CallStates
  <1>3. AnswerInv
    BY <1>1 DEF AnswerInv, OneAnswerer, User
  <1>4. RoomInv
    BY <1>1 DEF RoomInv
  <1>5. SeenInv
    BY <1>1 DEF SeenInv, PagesInv, PageInv, ToldInv, Unseen, User
  <1> QED BY <1>2, <1>3, <1>4, <1>5 DEF CallInv

(* Where the page that moves and the view of the users stand.              *)
LEMMA AnswerKept ==
  ASSUME Staff, CallInv, NEW s \in Slot, NEW h \in CallHandlers, PageMoves(s, h),
         h.pc \in {"claim", "remove"} => UserOf[s] \in Receiver,
         h.pc # "tell", call'.by = call.by,
         call'.st \in {"none", "RINGING", "MISSED", "CANCELLED"} =>
            call.st \in {"none", "RINGING", "MISSED", "CANCELLED"},
         call'.st = "ONGOING" => call.st = "ONGOING",
         \A r \in Receiver : ui'[r] = "in" => ui[r] = "in" \/ call.by = {r}
  PROVE  AnswerInv'
  <1>1. \A t \in Slot : /\ hh'[t].pc \in {"claim", "tell", "remove"} => UserOf[t] \in Receiver
                        /\ hh'[t].pc = "tell" => call.by = {UserOf[t]}
    BY DEF CallInv, AnswerInv, PageMoves
  <1>2. OneAnswerer'
    BY DEF CallInv, AnswerInv, OneAnswerer
  <1> QED BY <1>1, <1>2 DEF CallInv, AnswerInv

(* What a user sees after a message to some.                               *)
LEMMA ViewWritten ==
  ASSUME CallTypes
  PROVE  /\ \A u \in User : /\ [ui EXCEPT ![u] = "none"] \in [User -> {"none", "calling", "ringing", "in"}]
                            /\ [ui EXCEPT ![u] = "none"][u] = "none"
                            /\ \A v \in User \ {u} : [ui EXCEPT ![u] = "none"][v] = ui[v]
         /\ \A U : [v \in User |-> IF v \in U THEN "none" ELSE ui[v]]
                      \in [User -> {"none", "calling", "ringing", "in"}]
  BY DEF CallTypes

(* The end of a request: nobody is told anything new.                      *)
LEMMA CallTypesKept ==
  ASSUME CallInv, NEW s \in Slot, NEW h \in CallHandlers, PageMoves(s, h),
         call' \in [st : CallStates, ringing : SUBSET Receiver, by : SUBSET Receiver],
         room' \in BOOLEAN, silent' \in BOOLEAN, failures' \in Nat,
         ui' \in [User -> {"none", "calling", "ringing", "in"}]
  PROVE  CallTypes'
  BY DEF CallTypes, PageMoves

-----------------------------------------------------------------------------
(* One answerer: who has answered, and who sees himself in the call.       *)
LEMMA CreateAndRingAnswers ==
  ASSUME Staff, CallInv, createAndRing
  PROVE  CallInv'
  <1>1. /\ call' = [st |-> "RINGING", ringing |-> Receiver, by |-> {}] /\ room' = TRUE
        /\ ui' = [u \in User |-> IF u = Caller THEN "calling" ELSE IF u \in Receiver THEN "ringing" ELSE "none"]
        /\ UNCHANGED <<hh, silent, failures>> /\ call.by = {} /\ call.st = "none"
    BY DEF createAndRing, CallInv, AnswerInv
  <1>2. CallTypes'
    <2>1. call' \in [st : CallStates, ringing : SUBSET Receiver, by : SUBSET Receiver]
      BY <1>1 DEF CallStates
    <2>2. ui' \in [User -> {"none", "calling", "ringing", "in"}]
      BY <1>1
    <2> QED BY <1>1, <2>1, <2>2 DEF CallInv, CallTypes
  <1>3. call'.st = "RINGING" /\ call'.by = {} /\ \A r \in Receiver : ui'[r] # "in"
    BY <1>1 DEF User
  <1>4. AnswerInv'
    BY <1>1, <1>3 DEF CallInv, AnswerInv, OneAnswerer
  <1> QED BY <1>2, <1>4 DEF CallInv

LEMMA WebhookAnswers ==
  ASSUME Staff, CallInv, handleWebhook
  PROVE  CallInv'
  <1>1. /\ call' = [call EXCEPT !.st = "ENDED"] /\ "ENDED" \in CallStates /\ silent' = TRUE
        /\ UNCHANGED <<room, ui, hh, failures>> /\ CallTypes
    BY DEF handleWebhook, CallStates, Over, CallInv
  <1>2. /\ call' \in [st : CallStates, ringing : SUBSET Receiver, by : SUBSET Receiver]
        /\ call'.st = "ENDED" /\ call'.by = call.by
    BY <1>1, CallWritten
  <1>3. CallTypes'
    BY <1>1, <1>2 DEF CallTypes
  <1>4. AnswerInv'
    BY <1>1, <1>2 DEF CallInv, AnswerInv, OneAnswerer
  <1> QED BY <1>3, <1>4 DEF CallInv

LEMMA GetStatusAnswers ==
  ASSUME Staff, CallInv, NEW u \in User, getStatus(u)
  PROVE  CallInv'
  <1>1. /\ UNCHANGED <<call, room, hh, silent, failures>> /\ CallTypes
        /\ \E x \in {"none", "in", ui[u]} : (x = "in" => u = Caller \/ ui[u] = "in") /\ ui' = [ui EXCEPT ![u] = x]
    BY DEF getStatus, CallInv
  <1>2. PICK x \in {"none", "in", ui[u]} : (x = "in" => u = Caller \/ ui[u] = "in") /\ ui' = [ui EXCEPT ![u] = x]
    BY <1>1
  <1>3. x \in {"none", "calling", "ringing", "in"}
    BY <1>1 DEF CallTypes
  <1>4. /\ ui' \in [User -> {"none", "calling", "ringing", "in"}]
        /\ ui'[u] = x /\ \A v \in User \ {u} : ui'[v] = ui[v]
    BY <1>1, <1>2, <1>3 DEF CallTypes
  <1>5. CallTypes'
    BY <1>1, <1>4 DEF CallTypes
  <1>6. \A r \in Receiver : ui'[r] = "in" => ui[r] = "in"
    BY <1>2, <1>4 DEF Staff, User
  <1>7. AnswerInv'
    BY <1>1, <1>6 DEF CallInv, AnswerInv, OneAnswerer
  <1> QED BY <1>5, <1>7 DEF CallInv

(* A page that reads, or that the meeting service fails: the call stays.   *)
LEMMA StartsAnswers ==
  ASSUME Staff, CallInv, NEW s \in Slot, StartAnswer(s) \/ StartReject(s) \/ StartHangup(s) \/ TokenFails(s)
  PROVE  CallInv'
  <1>1. UNCHANGED <<call, room, ui, silent>> /\ failures' \in Nat /\ CallTypes
    <2>1. failures \in Nat /\ CallTypes
      BY DEF CallInv, CallTypes
    <2> QED BY <2>1 DEF StartAnswer, StartReject, StartHangup, TokenFails
  <1>2. PICK h \in CallHandlers : /\ Serve(s, h) /\ h.pc # "tell"
                                  /\ h.pc \in {"claim", "remove"} => UserOf[s] \in Receiver
    <2>1. call.ringing \in SUBSET Receiver /\ call.by \in SUBSET Receiver
      BY <1>1 DEF CallTypes
    <2>2. CASE StartAnswer(s)
      BY <2>1, <2>2, PageStates DEF StartAnswer
    <2>3. CASE StartReject(s)
      BY <2>3, PageStates DEF StartReject
    <2>4. CASE StartHangup(s)
      BY <2>1, <2>4, PageStates DEF StartHangup
    <2>5. CASE TokenFails(s)
      BY <2>5, PageStates DEF TokenFails
    <2> QED BY <2>2, <2>3, <2>4, <2>5
  <1>3. PageMoves(s, h)
    BY <1>1, <1>2, PageServed
  <1>4. CallTypes'
    BY <1>1, <1>3, CallTypesKept DEF CallTypes
  <1>5. AnswerInv'
    BY <1>1, <1>2, <1>3, AnswerKept
  <1> QED BY <1>4, <1>5 DEF CallInv

LEMMA AnswerAnswers ==
  ASSUME Staff, CallInv, NEW s \in Slot, answer(s)
  PROVE  CallInv'
  <1> DEFINE r == UserOf[s]
  <1>1. /\ UNCHANGED <<room, silent, failures>> /\ CallTypes
        /\ r \in Receiver /\ r \in User
    BY DEF answer, CallInv, AnswerInv, User
  <1>2. CASE call.st = "RINGING"
    <2>1. call' = [call EXCEPT !.st = "ONGOING", !.by = {r}] /\ Serve(s, [pc |-> "tell"]) /\ UNCHANGED ui
      BY <1>2 DEF answer
    <2>2. [pc |-> "tell"] \in CallHandlers /\ PageMoves(s, [pc |-> "tell"])
      BY <1>1, <2>1, PageServed, PageStates
    <2> HIDE DEF r
    <2>3. /\ call' \in [st : CallStates, ringing : SUBSET Receiver, by : SUBSET Receiver]
          /\ call'.st = "ONGOING" /\ call'.by = {r} /\ call.by = {}
      BY <1>1, <1>2, <2>1, CallWritten DEF CallInv, AnswerInv
    <2>4. CallTypes'
      BY <1>1, <2>1, <2>2, <2>3, CallTypesKept DEF CallTypes
    <2>5. \A t \in Slot : hh[t].pc # "tell"
      BY <2>3 DEF CallInv, AnswerInv
    <2>6. \A t \in Slot : /\ hh'[t].pc \in {"claim", "tell", "remove"} => UserOf[t] \in Receiver
                          /\ hh'[t].pc = "tell" => t = s
      BY <1>1, <2>2, <2>5 DEF CallInv, AnswerInv, PageMoves, r
    <2>7. \A q \in Receiver : ui'[q] # "in"
      BY <2>1, <2>3 DEF CallInv, AnswerInv, OneAnswerer
    <2>8. AnswerInv'
      BY <1>1, <2>3, <2>6, <2>7 DEF AnswerInv, OneAnswerer, r
    <2> QED BY <2>4, <2>8 DEF CallInv
  <1>3. CASE call.st # "RINGING"
    <2>1. ui' = [ui EXCEPT ![r] = "none"] /\ Serve(s, HIdle) /\ call' = call
      BY <1>3 DEF answer
    <2>2. HIdle \in CallHandlers /\ HIdle.pc = "idle" /\ PageMoves(s, HIdle)
      BY <1>1, <2>1, PageServed, PageStates
    <2> HIDE DEF r
    <2>3. /\ ui' \in [User -> {"none", "calling", "ringing", "in"}]
          /\ ui'[r] = "none" /\ \A v \in User \ {r} : ui'[v] = ui[v]
      BY <1>1, <2>1, ViewWritten
    <2>4. CallTypes'
      BY <1>1, <2>1, <2>2, <2>3, CallTypesKept DEF CallTypes
    <2>5. \A q \in Receiver : ui'[q] = "in" => ui[q] = "in"
      BY <2>3 DEF User
    <2>6. AnswerInv'
      BY <2>1, <2>2, <2>5, AnswerKept
    <2> QED BY <2>4, <2>6 DEF CallInv
  <1> QED BY <1>2, <1>3

LEMMA TellAnswers ==
  ASSUME Staff, CallInv, NEW s \in Slot, TellAnswer(s)
  PROVE  CallInv'
  <1> DEFINE u == UserOf[s]
  <1>1. /\ UNCHANGED <<call, room, silent, failures>> /\ CallTypes /\ Serve(s, HIdle)
        /\ u \in Receiver /\ call.by = {u}
    BY DEF TellAnswer, CallInv, AnswerInv
  <1>2. \/ ui' = [v \in User |-> IF v \in {u, Caller} THEN "in" ELSE IF v \in Receiver THEN "none" ELSE ui[v]]
        \/ ui' = [v \in User |-> IF v \in Receiver THEN "none" ELSE ui[v]]
    BY DEF TellAnswer
  <1> HIDE DEF u
  <1>3. HIdle \in CallHandlers /\ HIdle.pc = "idle" /\ PageMoves(s, HIdle)
    BY <1>1, PageServed, PageStates
  <1>4. ui' \in [User -> {"none", "calling", "ringing", "in"}]
    BY <1>1, <1>2 DEF CallTypes
  <1>5. \A r \in Receiver : ui'[r] = "in" => r = u
    BY <1>2 DEF Staff, User
  <1>6. CallTypes'
    BY <1>1, <1>3, <1>4, CallTypesKept DEF CallTypes
  <1>7. AnswerInv'
    BY <1>1, <1>3, <1>5, AnswerKept
  <1> QED BY <1>6, <1>7 DEF CallInv

LEMMA RejectAnswers ==
  ASSUME Staff, CallInv, NEW s \in Slot, reject(s)
  PROVE  CallInv'
  <1> DEFINE r == UserOf[s]
  <1>1. /\ UNCHANGED <<room, silent, failures>> /\ CallTypes /\ r \in Receiver /\ r \in User
        /\ ui' = [ui EXCEPT ![r] = "none"]
    BY DEF reject, CallInv, AnswerInv, User
  <1>2. \/ call' = [call EXCEPT !.ringing = @ \ {r}]
        \/ call' = call
    BY DEF reject
  <1>3. PICK h \in CallHandlers : Serve(s, h) /\ h.pc \in {"miss", "idle"}
    BY PageStates DEF reject
  <1> HIDE DEF r
  <1>4. PageMoves(s, h)
    BY <1>1, <1>3, PageServed
  <1>5. /\ ui' \in [User -> {"none", "calling", "ringing", "in"}]
        /\ ui'[r] = "none" /\ \A v \in User \ {r} : ui'[v] = ui[v]
    BY <1>1, ViewWritten
  <1>6. /\ call' \in [st : CallStates, ringing : SUBSET Receiver, by : SUBSET Receiver]
        /\ call'.st = call.st /\ call'.by = call.by
    <2>1. CASE call' = call
      BY <1>1, <2>1 DEF CallTypes
    <2>2. CASE call' = [call EXCEPT !.ringing = @ \ {r}]
      BY <1>1, <2>2, CallWritten
    <2> QED BY <1>2, <2>1, <2>2
  <1>7. CallTypes'
    BY <1>1, <1>4, <1>5, <1>6, CallTypesKept DEF CallTypes
  <1>8. \A q \in Receiver : ui'[q] = "in" => ui[q] = "in"
    BY <1>5 DEF User
  <1>9. AnswerInv'
    BY <1>3, <1>4, <1>6, <1>8, AnswerKept
  <1> QED BY <1>7, <1>9 DEF CallInv

LEMMA MissAnswers ==
  ASSUME Staff, CallInv, NEW s \in Slot, MissCall(s)
  PROVE  CallInv'
  <1>1. /\ UNCHANGED <<silent, failures>> /\ CallTypes /\ Caller \in User /\ room' = FALSE
        /\ ui' = [ui EXCEPT ![Caller] = "none"] /\ Serve(s, HIdle) /\ "MISSED" \in CallStates
    BY DEF MissCall, CallInv, User, CallStates, Over
  <1>2. call' = call \/ (call.st = "RINGING" /\ call' = [call EXCEPT !.st = "MISSED"])
    BY DEF MissCall
  <1>3. HIdle \in CallHandlers /\ HIdle.pc = "idle" /\ PageMoves(s, HIdle)
    BY <1>1, PageServed, PageStates
  <1>4. /\ ui' \in [User -> {"none", "calling", "ringing", "in"}]
        /\ ui'[Caller] = "none" /\ \A v \in User \ {Caller} : ui'[v] = ui[v]
    BY <1>1, ViewWritten
  <1>5. /\ call' \in [st : CallStates, ringing : SUBSET Receiver, by : SUBSET Receiver]
        /\ call'.by = call.by /\ call'.ringing = call.ringing
        /\ call'.st = call.st \/ (call.st = "RINGING" /\ call'.st = "MISSED")
    <2>1. CASE call' = call
      BY <1>1, <2>1 DEF CallTypes
    <2>2. CASE call.st = "RINGING" /\ call' = [call EXCEPT !.st = "MISSED"]
      BY <1>1, <2>2, CallWritten
    <2> QED BY <1>2, <2>1, <2>2
  <1>6. CallTypes'
    BY <1>1, <1>3, <1>4, <1>5, CallTypesKept DEF CallTypes
  <1>7. \A q \in Receiver : ui'[q] = "in" => ui[q] = "in"
    BY <1>4 DEF User
  <1>8. AnswerInv'
    BY <1>3, <1>5, <1>7, AnswerKept
  <1> QED BY <1>6, <1>8 DEF CallInv

(* What a caller who gives up does, by what has become of the call.        *)
LEMMA HangupCases ==
  ASSUME CallTypes, NEW s \in Slot, hangup(s)
  PROVE  /\ UNCHANGED <<silent, failures>> /\ hh[s].pc = "cancel"
         /\ \/ /\ call.st = "RINGING" /\ call' = [call EXCEPT !.st = "CANCELLED"] /\ room' = FALSE
               /\ ui' = [v \in User |-> IF v \in hh[s].ringing \union {Caller} THEN "none" ELSE ui[v]]
               /\ Serve(s, HIdle)
            \/ /\ call.st = "ONGOING" /\ Serve(s, [pc |-> "end", by |-> call.by]) /\ UNCHANGED <<call, room, ui>>
            \/ /\ call.st \notin {"RINGING", "ONGOING"} /\ Serve(s, HIdle)
               /\ ui' = [ui EXCEPT ![Caller] = "none"] /\ UNCHANGED <<call, room>>
  BY DEF hangup

LEMMA HangupAnswers ==
  ASSUME Staff, CallInv, NEW s \in Slot, hangup(s)
  PROVE  CallInv'
  <1>1. CallTypes /\ UNCHANGED <<silent, failures>> /\ Caller \in User /\ "CANCELLED" \in CallStates
    BY HangupCases DEF CallInv, User, CallStates, Over
  <1>2. CASE /\ call.st = "RINGING" /\ call' = [call EXCEPT !.st = "CANCELLED"] /\ room' = FALSE
             /\ ui' = [v \in User |-> IF v \in hh[s].ringing \union {Caller} THEN "none" ELSE ui[v]]
             /\ Serve(s, HIdle)
    <2>1. HIdle \in CallHandlers /\ HIdle.pc = "idle" /\ PageMoves(s, HIdle)
      BY <1>1, <1>2, PageServed, PageStates
    <2>2. /\ call' \in [st : CallStates, ringing : SUBSET Receiver, by : SUBSET Receiver]
          /\ call'.by = call.by /\ call'.st = "CANCELLED"
      BY <1>1, <1>2, CallWritten
    <2>3. ui' \in [User -> {"none", "calling", "ringing", "in"}]
      BY <1>1, <1>2, ViewWritten
    <2>4. \A q \in Receiver : ui'[q] = "in" => ui[q] = "in"
      BY <1>2 DEF User
    <2>5. CallTypes'
      BY <1>1, <1>2, <2>1, <2>2, <2>3, CallTypesKept DEF CallTypes
    <2>6. AnswerInv'
      BY <1>2, <2>1, <2>2, <2>4, AnswerKept
    <2> QED BY <2>5, <2>6 DEF CallInv
  <1>3. CASE call.st = "ONGOING" /\ Serve(s, [pc |-> "end", by |-> call.by]) /\ UNCHANGED <<call, room, ui>>
    <2>1. call.by \in SUBSET Receiver
      BY <1>1 DEF CallTypes
    <2>2. PICK h \in CallHandlers : h.pc = "end" /\ Serve(s, h)
      BY <1>3, <2>1, PageStates
    <2>3. PageMoves(s, h)
      BY <1>1, <2>2, PageServed
    <2>4. CallTypes'
      BY <1>1, <1>3, <2>3, CallTypesKept DEF CallTypes
    <2>5. AnswerInv'
      BY <1>3, <2>2, <2>3, AnswerKept
    <2> QED BY <2>4, <2>5 DEF CallInv
  <1>4. CASE /\ call.st \notin {"RINGING", "ONGOING"} /\ Serve(s, HIdle)
             /\ ui' = [ui EXCEPT ![Caller] = "none"] /\ UNCHANGED <<call, room>>
    <2>1. HIdle \in CallHandlers /\ HIdle.pc = "idle" /\ PageMoves(s, HIdle)
      BY <1>1, <1>4, PageServed, PageStates
    <2>2. /\ ui' \in [User -> {"none", "calling", "ringing", "in"}]
          /\ ui'[Caller] = "none" /\ \A v \in User \ {Caller} : ui'[v] = ui[v]
      BY <1>1, <1>4, ViewWritten
    <2>3. \A q \in Receiver : ui'[q] = "in" => ui[q] = "in"
      BY <2>2 DEF User
    <2>4. CallTypes'
      BY <1>1, <1>4, <2>1, <2>2, CallTypesKept DEF CallTypes
    <2>5. AnswerInv'
      BY <1>4, <2>1, <2>3, AnswerKept
    <2> QED BY <2>4, <2>5 DEF CallInv
  <1> QED BY <1>1, <1>2, <1>3, <1>4, HangupCases

(* Who is told by the one who hangs up.                                    *)
HungUpOn(s) == IF UserOf[s] = Caller THEN hh[s].by ELSE {Caller}

LEMMA EndCases ==
  ASSUME CallTypes, Staff, NEW s \in Slot, endOngoing(s)
  PROVE  /\ failures' = failures /\ hh[s].pc = "end" /\ Serve(s, HIdle)
         /\ silent' = (silent \/ (call.st = "ONGOING" /\ UserOf[s] \notin hh[s].by \union {Caller}))
         /\ ui' \in [User -> {"none", "calling", "ringing", "in"}]
         /\ \A v \in User : ui'[v] \in {"none", ui[v]}
         /\ \/ /\ call.st = "ONGOING" /\ call' = [call EXCEPT !.st = "ENDED"] /\ room' = FALSE
               /\ \A v \in HungUpOn(s) \union {UserOf[s]} : v \in User => ui'[v] = "none"
            \/ call.st # "ONGOING" /\ ui'[UserOf[s]] = "none" /\ UNCHANGED <<call, room>>
  <1>1. UserOf[s] \in User
    BY PageOwner
  <1>2. CASE call.st = "ONGOING"
    <2>1. \A v \in User : ui'[v] = IF v \in HungUpOn(s) \union {UserOf[s]} THEN "none" ELSE ui[v]
      BY <1>2 DEF endOngoing, HungUpOn
    <2>2. ui' \in [User -> {"none", "calling", "ringing", "in"}]
      BY <1>2 DEF endOngoing, CallTypes
    <2> QED BY <1>2, <2>1, <2>2 DEF endOngoing
  <1>3. CASE call.st # "ONGOING"
    <2>1. ui' = [ui EXCEPT ![UserOf[s]] = "none"] /\ UNCHANGED <<call, room>>
      BY <1>3 DEF endOngoing
    <2>2. ui' \in [User -> {"none", "calling", "ringing", "in"}] /\ ui'[UserOf[s]] = "none"
          /\ \A v \in User : ui'[v] \in {"none", ui[v]}
      BY <1>1, <2>1, ViewWritten
    <2> QED BY <1>3, <2>1, <2>2 DEF endOngoing
  <1> QED BY <1>2, <1>3

LEMMA EndAnswers ==
  ASSUME Staff, CallInv, NEW s \in Slot, endOngoing(s)
  PROVE  CallInv'
  <1>1. /\ CallTypes /\ failures' = failures /\ "ENDED" \in CallStates /\ Serve(s, HIdle)
        /\ ui' \in [User -> {"none", "calling", "ringing", "in"}]
        /\ \A v \in User : ui'[v] \in {"none", ui[v]}
    BY EndCases DEF CallInv, CallStates, Over
  <1>2. HIdle \in CallHandlers /\ HIdle.pc = "idle" /\ PageMoves(s, HIdle)
    BY <1>1, PageServed, PageStates
  <1>3. silent' \in BOOLEAN
    <2>1. silent \in BOOLEAN
      BY <1>1 DEF CallTypes
    <2>2. silent' = (silent \/ (call.st = "ONGOING" /\ UserOf[s] \notin hh[s].by \union {Caller}))
      BY <1>1, EndCases
    <2> QED BY <2>1, <2>2
  <1>4. (call.st = "ONGOING" /\ call' = [call EXCEPT !.st = "ENDED"] /\ room' = FALSE) \/ UNCHANGED <<call, room>>
    BY <1>1, EndCases
  <1>5. /\ call' \in [st : CallStates, ringing : SUBSET Receiver, by : SUBSET Receiver]
        /\ call'.by = call.by /\ call'.st \in {"ENDED", call.st} /\ room' \in BOOLEAN
    <2>1. CASE UNCHANGED <<call, room>>
      BY <1>1, <2>1 DEF CallTypes
    <2>2. CASE call' = [call EXCEPT !.st = "ENDED"] /\ room' = FALSE
      BY <1>1, <2>2, CallWritten
    <2> QED BY <1>4, <2>1, <2>2
  <1>6. \A q \in Receiver : ui'[q] = "in" => ui[q] = "in"
    BY <1>1 DEF User
  <1>7. CallTypes'
    BY <1>1, <1>2, <1>3, <1>5, CallTypesKept DEF CallTypes
  <1>8. AnswerInv'
    BY <1>2, <1>5, <1>6, AnswerKept
  <1> QED BY <1>7, <1>8 DEF CallInv

LEMMA CallInvStep == ASSUME Staff PROVE CallInv /\ [CallNext]_cvars => CallInv'
  <1> SUFFICES ASSUME CallInv, [CallNext]_cvars PROVE CallInv'
    OBVIOUS
  <1>1. CASE UNCHANGED cvars
    BY <1>1 DEF cvars, CallInv, CallTypes, AnswerInv, OneAnswerer
  <1>2. CASE createAndRing \/ handleWebhook
    BY <1>2, CreateAndRingAnswers, WebhookAnswers
  <1>3. ASSUME NEW s \in Slot,
               \/ StartAnswer(s) \/ answer(s) \/ TellAnswer(s) \/ TokenFails(s)
               \/ StartReject(s) \/ reject(s) \/ MissCall(s)
               \/ StartHangup(s) \/ hangup(s) \/ endOngoing(s)
        PROVE  CallInv'
    BY <1>3, StartsAnswers, AnswerAnswers, TellAnswers, RejectAnswers, MissAnswers, HangupAnswers, EndAnswers
  <1>4. ASSUME NEW u \in User, getStatus(u) PROVE CallInv'
    BY <1>4, GetStatusAnswers
  <1> QED BY <1>1, <1>2, <1>3, <1>4 DEF CallNext

(* What the pages know stays so, as the call goes on.                      *)
LEMMA PagesKept ==
  ASSUME PagesInv, NEW s \in Slot, NEW h, PageMoves(s, h),
         call'.ringing \subseteq call.ringing, call'.by = call.by,
         call.st # "none" => call'.st # "none", call'.st = "RINGING" => call.st = "RINGING",
         call.st \in {"ONGOING", "ENDED"} => call'.st \in {"ONGOING", "ENDED"},
         PageInv(h)'
  PROVE  PagesInv'
  <1>1. ASSUME NEW t \in Slot PROVE PageInv(hh[t])'
    <2>1. CASE t = s
      BY <2>1 DEF PageMoves
    <2>2. CASE t # s
      <3>1. hh'[t] = hh[t] /\ PageInv(hh[t])
        BY <2>2 DEF PageMoves, PagesInv
      <3> QED BY <3>1 DEF PageInv
    <2> QED BY <2>1, <2>2
  <1>2. call'.st = "none" => call'.ringing = {}
    BY DEF PagesInv
  <1> QED BY <1>1, <1>2 DEF PagesInv

(* Nobody sees more than before.                                           *)
LEMMA ToldKept ==
  ASSUME ToldInv, call' = call, \A v \in User : ui[v] = "none" => ui'[v] = "none", CallInv,
         (\A t \in Slot : hh'[t].pc # "tell") => \A t \in Slot : hh[t].pc # "tell"
  PROVE  ToldInv'
  <1>1. call.by \subseteq User
    BY DEF CallInv, CallTypes, User
  <1>2. \A U \in SUBSET User : Unseen(U) => Unseen(U)'
    BY DEF Unseen
  <1>3. /\ User \ (Receiver \union {Caller}) \in SUBSET User /\ Receiver \ call.ringing \in SUBSET User
        /\ User \in SUBSET User /\ Receiver \ call.by \in SUBSET User /\ call.by \union {Caller} \in SUBSET User
    BY <1>1 DEF User
  <1>4. Unseen(User \ (Receiver \union {Caller}))'
    <2>1. Unseen(User \ (Receiver \union {Caller}))
      BY DEF ToldInv
    <2> QED BY <2>1 DEF Unseen
  <1>5. call'.st = "RINGING" => Unseen(Receiver \ call.ringing)'
    <2>1. call.st = "RINGING" => Unseen(Receiver \ call.ringing)
      BY DEF ToldInv
    <2> QED BY <1>3, <2>1 DEF Unseen
  <1>6. call'.st \in {"none", "MISSED", "CANCELLED"} => Unseen(User)'
    <2>1. call.st \in {"none", "MISSED", "CANCELLED"} => Unseen(User)
      BY DEF ToldInv
    <2> QED BY <2>1 DEF Unseen
  <1>7. (call'.st \in {"ONGOING", "ENDED"} /\ \A t \in Slot : hh'[t].pc # "tell") => Unseen(Receiver \ call.by)'
    <2>1. (call.st \in {"ONGOING", "ENDED"} /\ \A t \in Slot : hh'[t].pc # "tell") => Unseen(Receiver \ call.by)
      BY DEF ToldInv
    <2> QED BY <1>3, <2>1 DEF Unseen
  <1>8. call'.st = "ENDED" => Unseen(call.by \union {Caller})'
    <2>1. call.st = "ENDED" => Unseen(call.by \union {Caller})
      BY DEF ToldInv
    <2> QED BY <1>3, <2>1 DEF Unseen
  <1> QED BY <1>4, <1>5, <1>6, <1>7, <1>8 DEF ToldInv

-----------------------------------------------------------------------------
(* Everybody is told: what the pages know, and what the users see.         *)
CallAll == CallInv /\ SeenInv

LEMMA CreateAndRingTells ==
  ASSUME Staff, CallAll, createAndRing PROVE SeenInv'
  <1>1. /\ call' = [st |-> "RINGING", ringing |-> Receiver, by |-> {}] /\ call.st = "none"
        /\ ui' = [u \in User |-> IF u = Caller THEN "calling" ELSE IF u \in Receiver THEN "ringing" ELSE "none"]
        /\ hh' = hh /\ CallTypes
    BY DEF createAndRing, CallAll, CallInv
  <1>2. \A t \in Slot : hh[t].pc = "idle"
    BY <1>1 DEF CallAll, SeenInv, PagesInv, PageInv
  <1>3. PagesInv'
    BY <1>1, <1>2 DEF PagesInv, PageInv
  <1>4. ToldInv'
    BY <1>1 DEF ToldInv, Unseen, User
  <1> QED BY <1>3, <1>4 DEF SeenInv

LEMMA WebhookTells ==
  ASSUME Staff, CallAll, handleWebhook PROVE SeenInv'
  <1>1. /\ call' = [call EXCEPT !.st = "ENDED"] /\ "ENDED" \in CallStates /\ silent' = TRUE
        /\ hh' = hh /\ CallTypes /\ call.st \in {"RINGING", "ONGOING"}
    BY DEF handleWebhook, CallStates, Over, CallAll, CallInv
  <1>2. call'.st = "ENDED" /\ call'.by = call.by
    BY <1>1, CallWritten
  <1>3. PagesInv'
    BY <1>1, <1>2 DEF CallAll, SeenInv, PagesInv, PageInv
  <1> QED BY <1>1, <1>3 DEF SeenInv

LEMMA GetStatusTells ==
  ASSUME Staff, CallAll, NEW u \in User, getStatus(u) PROVE SeenInv'
  <1>1. /\ UNCHANGED <<call, hh, silent, failures>> /\ CallTypes /\ ui[u] # "none"
    BY DEF getStatus, CallAll, CallInv
  <1>2. \A v \in User : ui[v] = "none" => ui'[v] = "none"
    <2>1. \A v \in User \ {u} : ui'[v] = ui[v]
      BY <1>1 DEF getStatus, CallTypes
    <2> QED BY <1>1, <2>1
  <1>3. PagesInv'
    BY <1>1 DEF CallAll, SeenInv, PagesInv, PageInv
  <1>4. ~silent' /\ failures' = 0 => ToldInv'
    BY <1>1, <1>2, ToldKept DEF CallAll, SeenInv
  <1> QED BY <1>3, <1>4 DEF SeenInv

LEMMA StartsTell ==
  ASSUME Staff, CallAll, NEW s \in Slot, StartAnswer(s) \/ StartReject(s) \/ StartHangup(s)
  PROVE  SeenInv'
  <1>1. UNCHANGED <<call, ui, silent, failures>> /\ CallTypes /\ CallInv /\ PagesInv /\ hh[s].pc = "idle"
    BY DEF StartAnswer, StartReject, StartHangup, Asks, HIdle, CallAll, CallInv, SeenInv
  <1>2. call.ringing \in SUBSET Receiver /\ call.by \in SUBSET Receiver
    BY <1>1 DEF CallTypes
  <1>3. PICK h \in CallHandlers : Serve(s, h) /\ h.pc # "tell" /\ PageInv(h)
    <2>1. CASE StartAnswer(s)
      <3>1. Serve(s, [pc |-> "claim"]) /\ call.st # "none"
        BY <1>1, <2>1 DEF StartAnswer, PagesInv
      <3>2. PageInv([pc |-> "claim"])
        BY <3>1 DEF PageInv
      <3> QED BY <3>1, <3>2, PageStates
    <2>2. CASE StartReject(s)
      <3>1. Serve(s, [pc |-> "remove"]) /\ call.st # "none"
        BY <2>2 DEF StartReject
      <3>2. PageInv([pc |-> "remove"])
        BY <3>1 DEF PageInv
      <3> QED BY <3>1, <3>2, PageStates
    <2>3. CASE StartHangup(s)
      <3>1. CASE call.st = "RINGING" /\ Serve(s, [pc |-> "cancel", ringing |-> call.ringing])
        <4>1. PageInv([pc |-> "cancel", ringing |-> call.ringing])
          BY <3>1 DEF PageInv
        <4> QED BY <1>2, <3>1, <4>1, PageStates
      <3>2. CASE call.st = "ONGOING" /\ Serve(s, [pc |-> "end", by |-> call.by])
        <4>1. PageInv([pc |-> "end", by |-> call.by])
          BY <3>2 DEF PageInv
        <4> QED BY <1>2, <3>2, <4>1, PageStates
      <3> QED BY <2>3, <3>1, <3>2 DEF StartHangup
    <2> QED BY <2>1, <2>2, <2>3
  <1>4. PageMoves(s, h)
    BY <1>1, <1>3, PageServed
  <1>5. PagesInv'
    <2>1. PageInv(h)'
      BY <1>1, <1>3 DEF PageInv
    <2> QED BY <1>1, <1>4, <2>1, PagesKept
  <1>6. \A t \in Slot : hh'[t].pc # "tell" => hh[t].pc # "tell"
    BY <1>1, <1>4 DEF PageMoves
  <1>7. ~silent' /\ failures' = 0 => ToldInv'
    BY <1>1, <1>6, ToldKept DEF CallAll, SeenInv
  <1> QED BY <1>5, <1>7 DEF SeenInv

LEMMA TokenFailsTells ==
  ASSUME Staff, CallAll, NEW s \in Slot, TokenFails(s) PROVE SeenInv'
  <1>1. /\ UNCHANGED <<call, ui, silent>> /\ CallTypes /\ PagesInv /\ failures \in Nat /\ failures' = failures + 1
        /\ Serve(s, HIdle)
    BY DEF TokenFails, CallAll, CallInv, SeenInv, CallTypes
  <1>2. PageMoves(s, HIdle) /\ HIdle.pc = "idle"
    BY <1>1, PageServed, PageStates
  <1>3. PageInv(HIdle)'
    BY <1>2 DEF PageInv, HIdle
  <1>4. PagesInv'
    BY <1>1, <1>2, <1>3, PagesKept
  <1> QED BY <1>1, <1>4 DEF SeenInv

LEMMA AnswerTells ==
  ASSUME Staff, CallAll, NEW s \in Slot, answer(s) PROVE SeenInv'
  <1> DEFINE r == UserOf[s]
  <1>1. /\ UNCHANGED <<room, silent, failures>> /\ CallTypes /\ CallInv /\ PagesInv /\ hh[s].pc = "claim"
        /\ r \in Receiver /\ r \in User
    BY DEF answer, CallInv, AnswerInv, User, CallAll, SeenInv
  <1>2. CASE call.st = "RINGING"
    <2>1. call' = [call EXCEPT !.st = "ONGOING", !.by = {r}] /\ Serve(s, [pc |-> "tell"]) /\ UNCHANGED ui
      BY <1>2 DEF answer
    <2>2. [pc |-> "tell"] \in CallHandlers /\ PageMoves(s, [pc |-> "tell"])
      BY <1>1, <2>1, PageServed, PageStates
    <2> HIDE DEF r
    <2>3. call'.st = "ONGOING" /\ call'.by = {r} /\ call'.ringing = call.ringing
      BY <1>1, <1>2, <2>1, CallWritten
    <2>4. PagesInv'
      <3>1. ASSUME NEW t \in Slot PROVE PageInv(hh[t])'
        <4>1. CASE t = s
          <5>1. hh'[t].pc = "tell"
            BY <2>2, <4>1 DEF PageMoves
          <5> QED BY <2>3, <5>1 DEF PageInv
        <4>2. CASE t # s
          <5>1. hh'[t] = hh[t] /\ hh[t].pc # "end"
            BY <1>1, <1>2, <2>2, <4>2 DEF PageMoves, PagesInv, PageInv
          <5> QED BY <2>3, <5>1 DEF PageInv
        <4> QED BY <4>1, <4>2
      <3> QED BY <2>3, <3>1 DEF PagesInv
    <2>5. ~silent' /\ failures' = 0 => ToldInv'
      <3>1. hh'[s].pc = "tell"
        BY <2>2 DEF PageMoves
      <3>2. ASSUME ToldInv PROVE Unseen(User \ (Receiver \union {Caller}))'
        BY <2>1, <3>2 DEF ToldInv, Unseen
      <3>3. ASSUME ToldInv PROVE ToldInv'
        BY <2>3, <3>1, <3>2, <3>3 DEF ToldInv
      <3> QED BY <1>1, <3>3 DEF CallAll, SeenInv
    <2> QED BY <2>4, <2>5 DEF SeenInv
  <1>3. CASE call.st # "RINGING"
    <2>1. ui' = [ui EXCEPT ![r] = "none"] /\ Serve(s, HIdle) /\ call' = call
      BY <1>3 DEF answer
    <2>2. HIdle \in CallHandlers /\ HIdle.pc = "idle" /\ PageMoves(s, HIdle)
      BY <1>1, <2>1, PageServed, PageStates
    <2> HIDE DEF r
    <2>3. \A v \in User : ui[v] = "none" => ui'[v] = "none"
      BY <1>1, <2>1, ViewWritten
    <2>4. PageInv(HIdle)'
      BY <2>2 DEF PageInv, HIdle
    <2>5. PagesInv'
      BY <1>1, <2>1, <2>2, <2>4, PagesKept
    <2>6. \A t \in Slot : hh'[t].pc # "tell" => hh[t].pc # "tell"
      BY <1>1, <2>2 DEF PageMoves
    <2>7. ~silent' /\ failures' = 0 => ToldInv'
      BY <1>1, <2>1, <2>3, <2>6, ToldKept DEF CallAll, SeenInv
    <2> QED BY <2>5, <2>7 DEF SeenInv
  <1> QED BY <1>2, <1>3

LEMMA TellTells ==
  ASSUME Staff, CallAll, NEW s \in Slot, TellAnswer(s) PROVE SeenInv'
  <1> DEFINE u == UserOf[s]
  <1>1. /\ UNCHANGED <<call, silent, failures>> /\ CallTypes /\ CallInv /\ PagesInv /\ Serve(s, HIdle)
        /\ u \in Receiver /\ call.by = {u} /\ call.st \in {"ONGOING", "ENDED"}
    <2>1. CallInv /\ call.st \in CallStates
      BY DEF CallAll, CallInv, CallTypes
    <2> QED BY <2>1 DEF TellAnswer, CallInv, AnswerInv, CallAll, SeenInv, CallStates, Over
  <1>2. /\ call.st = "ONGOING" =>
            ui' = [v \in User |-> IF v \in {u, Caller} THEN "in" ELSE IF v \in Receiver THEN "none" ELSE ui[v]]
        /\ call.st # "ONGOING" => ui' = [v \in User |-> IF v \in Receiver THEN "none" ELSE ui[v]]
    BY DEF TellAnswer
  <1> HIDE DEF u
  <1>3. HIdle \in CallHandlers /\ HIdle.pc = "idle" /\ PageMoves(s, HIdle)
    BY <1>1, PageServed, PageStates
  <1>4. PageInv(HIdle)'
    BY <1>3 DEF PageInv, HIdle
  <1>5. PagesInv'
    BY <1>1, <1>3, <1>4, PagesKept
  <1>6. ASSUME ToldInv PROVE ToldInv'
    <2>1. CASE call.st = "ONGOING"
      <3>1. ui' = [v \in User |-> IF v \in {u, Caller} THEN "in" ELSE IF v \in Receiver THEN "none" ELSE ui[v]]
        BY <1>2, <2>1
      <3>2. Unseen(User \ (Receiver \union {Caller}))'
        BY <1>1, <1>6, <3>1 DEF ToldInv, Unseen, User
      <3>3. Unseen(Receiver \ {u})'
        BY <3>1 DEF Staff, Unseen, User
      <3> QED BY <1>1, <2>1, <3>2, <3>3 DEF ToldInv
    <2>2. CASE call.st = "ENDED"
      <3>1. Unseen(User \ (Receiver \union {Caller}))' /\ Unseen(Receiver)' /\ Unseen({Caller})'
        BY <1>1, <1>2, <1>6, <2>2 DEF ToldInv, Unseen, User
      <3>2. Unseen(Receiver \ {u})' /\ Unseen({u} \union {Caller})'
        BY <1>1, <3>1 DEF Unseen
      <3> QED BY <1>1, <2>2, <3>1, <3>2 DEF ToldInv
    <2> QED BY <1>1, <2>1, <2>2
  <1> QED BY <1>1, <1>5, <1>6 DEF SeenInv, CallAll

LEMMA RejectTells ==
  ASSUME Staff, CallAll, NEW s \in Slot, reject(s) PROVE SeenInv'
  <1> DEFINE r == UserOf[s]
  <1>1. /\ UNCHANGED <<silent, failures>> /\ CallTypes /\ CallInv /\ PagesInv /\ hh[s].pc = "remove"
        /\ r \in Receiver /\ r \in User /\ ui' = [ui EXCEPT ![r] = "none"] /\ call.st # "none"
    BY DEF reject, CallInv, AnswerInv, User, CallAll, SeenInv, PagesInv, PageInv
  <1>2. \A v \in User : (ui[v] = "none" \/ v = r) => ui'[v] = "none"
    <2> HIDE DEF r
    <2> QED BY <1>1, ViewWritten
  <1>3. CASE call.st = "RINGING"
    <2>1. call' = [call EXCEPT !.ringing = @ \ {r}]
      BY <1>3 DEF reject
    <2>2. PICK h \in CallHandlers : Serve(s, h) /\ h.pc \in {"miss", "idle"} /\ (h.pc = "miss" => call'.ringing = {})
      BY <1>3, PageStates DEF reject
    <2> HIDE DEF r
    <2>3. call'.st = call.st /\ call'.by = call.by /\ call'.ringing = call.ringing \ {r}
      BY <1>1, <2>1, CallWritten
    <2>4. PageMoves(s, h)
      BY <1>1, <2>2, PageServed
    <2>5. PageInv(h)'
      BY <1>1, <2>2, <2>3 DEF PageInv
    <2>6. PagesInv'
      BY <1>1, <2>3, <2>4, <2>5, PagesKept
    <2>7. ASSUME ToldInv PROVE ToldInv'
      <3>1. Unseen(User \ (Receiver \union {Caller}))'
        BY <1>2, <2>7 DEF ToldInv, Unseen
      <3>2. \A q \in Receiver \ (call.ringing \ {r}) : ui'[q] = "none"
        <4>1. ASSUME NEW q \in Receiver \ (call.ringing \ {r}) PROVE ui'[q] = "none"
          <5>1. q \in User
            BY DEF User
          <5>2. CASE q = r
            BY <1>2, <5>1, <5>2
          <5>3. CASE q \in Receiver \ call.ringing
            BY <1>2, <1>3, <2>7, <5>1, <5>3 DEF ToldInv, Unseen
          <5> QED BY <5>2, <5>3
        <4> QED BY <4>1
      <3>3. call'.st = "RINGING" /\ call'.ringing = call.ringing \ {r}
        BY <1>3, <2>3
      <3>4. Unseen(Receiver \ call.ringing)'
        BY <3>2, <3>3 DEF Unseen
      <3> QED BY <3>1, <3>3, <3>4 DEF ToldInv
    <2> QED BY <1>1, <2>6, <2>7 DEF SeenInv, CallAll
  <1>4. CASE call.st # "RINGING"
    <2>1. call' = call /\ Serve(s, HIdle)
      BY <1>4 DEF reject
    <2>2. HIdle \in CallHandlers /\ HIdle.pc = "idle" /\ PageMoves(s, HIdle)
      BY <1>1, <2>1, PageServed, PageStates
    <2> HIDE DEF r
    <2>3. PageInv(HIdle)'
      BY <2>2 DEF PageInv, HIdle
    <2>4. PagesInv'
      BY <1>1, <2>1, <2>2, <2>3, PagesKept
    <2>5. \A t \in Slot : hh'[t].pc # "tell" => hh[t].pc # "tell"
      BY <1>1, <2>2 DEF PageMoves
    <2>6. ~silent' /\ failures' = 0 => ToldInv'
      BY <1>1, <1>2, <2>1, <2>5, ToldKept DEF CallAll, SeenInv
    <2> QED BY <2>4, <2>6 DEF SeenInv
  <1> QED BY <1>3, <1>4

LEMMA MissTells ==
  ASSUME Staff, CallAll, NEW s \in Slot, MissCall(s) PROVE SeenInv'
  <1>1. /\ UNCHANGED <<silent, failures>> /\ CallTypes /\ CallInv /\ PagesInv /\ hh[s].pc = "miss"
        /\ ui' = [ui EXCEPT ![Caller] = "none"] /\ Serve(s, HIdle) /\ Caller \in User
        /\ call.st # "none" /\ (call.st = "RINGING" => call.ringing = {})
    BY DEF MissCall, CallInv, User, CallAll, SeenInv, PagesInv, PageInv
  <1>2. HIdle \in CallHandlers /\ HIdle.pc = "idle" /\ PageMoves(s, HIdle)
    BY <1>1, PageServed, PageStates
  <1>3. \A v \in User : (ui[v] = "none" \/ v = Caller) => ui'[v] = "none"
    BY <1>1, ViewWritten
  <1>4. PageInv(HIdle)'
    BY <1>2 DEF PageInv, HIdle
  <1>5. \A t \in Slot : hh'[t].pc # "tell" => hh[t].pc # "tell"
    BY <1>1, <1>2 DEF PageMoves
  <1>6. CASE call.st = "RINGING"
    <2>1. call' = [call EXCEPT !.st = "MISSED"] /\ "MISSED" \in CallStates
      BY <1>6 DEF MissCall, CallStates, Over
    <2>2. call'.st = "MISSED" /\ call'.by = call.by /\ call'.ringing = call.ringing
      BY <1>1, <2>1, CallWritten
    <2>3. PagesInv'
      BY <1>1, <1>2, <1>4, <1>6, <2>2, PagesKept
    <2>4. ASSUME ToldInv PROVE ToldInv'
      <3>1. Unseen(Receiver) /\ Unseen(User \ (Receiver \union {Caller}))
        BY <1>1, <1>6, <2>4 DEF ToldInv, Unseen
      <3>2. Unseen(User)'
        BY <1>3, <3>1 DEF Unseen, User
      <3> QED BY <2>2, <3>2 DEF ToldInv, Unseen
    <2> QED BY <1>1, <2>3, <2>4 DEF SeenInv, CallAll
  <1>7. CASE call.st # "RINGING"
    <2>1. call' = call
      BY <1>7 DEF MissCall
    <2>2. PagesInv'
      BY <1>1, <1>2, <1>4, <2>1, PagesKept
    <2>3. ~silent' /\ failures' = 0 => ToldInv'
      BY <1>1, <1>3, <1>5, <2>1, ToldKept DEF CallAll, SeenInv
    <2> QED BY <2>2, <2>3 DEF SeenInv
  <1> QED BY <1>6, <1>7

LEMMA HangupTells ==
  ASSUME Staff, CallAll, NEW s \in Slot, hangup(s) PROVE SeenInv'
  <1>1. /\ CallTypes /\ CallInv /\ PagesInv
    BY DEF CallInv, CallAll, SeenInv
  <1>2. /\ UNCHANGED <<silent, failures>> /\ Caller \in User /\ "CANCELLED" \in CallStates
        /\ hh[s].pc = "cancel"
    BY <1>1, HangupCases DEF User, CallStates, Over
  <1>3. call.st # "none" /\ (call.st = "RINGING" => call.ringing \subseteq hh[s].ringing)
    BY <1>1, <1>2 DEF PagesInv, PageInv
  <1>4. CASE /\ call.st = "RINGING" /\ call' = [call EXCEPT !.st = "CANCELLED"] /\ room' = FALSE
             /\ ui' = [v \in User |-> IF v \in hh[s].ringing \union {Caller} THEN "none" ELSE ui[v]]
             /\ Serve(s, HIdle)
    <2>1. HIdle \in CallHandlers /\ HIdle.pc = "idle" /\ PageMoves(s, HIdle)
      BY <1>1, <1>4, PageServed, PageStates
    <2>2. call'.st = "CANCELLED" /\ call'.by = call.by /\ call'.ringing = call.ringing
      BY <1>1, <1>2, <1>4, CallWritten
    <2>3. PageInv(HIdle)'
      BY <2>1 DEF PageInv, HIdle
    <2>4. PagesInv'
      BY <1>1, <1>4, <2>1, <2>2, <2>3, PagesKept
    <2>5. ASSUME ToldInv PROVE ToldInv'
      <3>1. Unseen(Receiver \ call.ringing) /\ Unseen(User \ (Receiver \union {Caller}))
        BY <1>4, <2>5 DEF ToldInv
      <3>2. \A v \in User : v \in hh[s].ringing \/ v = Caller \/ ui[v] = "none" => ui'[v] = "none"
        BY <1>4
      <3>3. ASSUME NEW v \in User PROVE ui'[v] = "none"
        <4>1. v \in call.ringing \/ v \in Receiver \ call.ringing \/ v = Caller \/ v \in User \ (Receiver \union {Caller})
          OBVIOUS
        <4> QED BY <1>3, <1>4, <3>1, <3>2, <4>1 DEF Unseen
      <3> QED BY <2>2, <3>3 DEF ToldInv, Unseen
    <2> QED BY <1>2, <2>4, <2>5 DEF SeenInv, CallAll
  <1>5. CASE call.st = "ONGOING" /\ Serve(s, [pc |-> "end", by |-> call.by]) /\ UNCHANGED <<call, room, ui>>
    <2>1. call.by \in SUBSET Receiver
      BY <1>1 DEF CallTypes
    <2>2. PageInv([pc |-> "end", by |-> call.by])
      BY <1>5 DEF PageInv
    <2>3. PICK h \in CallHandlers : h.pc = "end" /\ Serve(s, h) /\ PageInv(h)
      BY <1>5, <2>1, <2>2, PageStates
    <2>4. PageMoves(s, h)
      BY <1>1, <2>3, PageServed
    <2>5. PageInv(h)'
      BY <1>5, <2>3 DEF PageInv
    <2>6. PagesInv'
      BY <1>1, <1>5, <2>4, <2>5, PagesKept
    <2>7. \A t \in Slot : hh'[t].pc # "tell" => hh[t].pc # "tell"
      BY <1>2, <2>4 DEF PageMoves
    <2>8. ~silent' /\ failures' = 0 => ToldInv'
      BY <1>1, <1>2, <1>5, <2>7, ToldKept DEF CallAll, SeenInv
    <2> QED BY <2>6, <2>8 DEF SeenInv
  <1>6. CASE /\ call.st \notin {"RINGING", "ONGOING"} /\ Serve(s, HIdle)
             /\ ui' = [ui EXCEPT ![Caller] = "none"] /\ UNCHANGED <<call, room>>
    <2>1. HIdle \in CallHandlers /\ HIdle.pc = "idle" /\ PageMoves(s, HIdle)
      BY <1>1, <1>6, PageServed, PageStates
    <2>2. \A v \in User : ui[v] = "none" => ui'[v] = "none"
      BY <1>1, <1>2, <1>6, ViewWritten
    <2>3. PageInv(HIdle)'
      BY <2>1 DEF PageInv, HIdle
    <2>4. PagesInv'
      BY <1>1, <1>6, <2>1, <2>3, PagesKept
    <2>5. \A t \in Slot : hh'[t].pc # "tell" => hh[t].pc # "tell"
      BY <1>2, <2>1 DEF PageMoves
    <2>6. ~silent' /\ failures' = 0 => ToldInv'
      BY <1>1, <1>2, <1>6, <2>2, <2>5, ToldKept DEF CallAll, SeenInv
    <2> QED BY <2>4, <2>6 DEF SeenInv
  <1> QED BY <1>1, <1>4, <1>5, <1>6, HangupCases

LEMMA EndTells ==
  ASSUME Staff, CallAll, NEW s \in Slot, endOngoing(s) PROVE SeenInv'
  <1>1. /\ CallTypes /\ CallInv /\ PagesInv
    BY DEF CallInv, CallAll, SeenInv
  <1>2. /\ failures' = failures /\ hh[s].pc = "end" /\ Serve(s, HIdle) /\ "ENDED" \in CallStates
        /\ silent' = (silent \/ (call.st = "ONGOING" /\ UserOf[s] \notin hh[s].by \union {Caller}))
        /\ \A v \in User : ui'[v] \in {"none", ui[v]}
    BY <1>1, EndCases DEF CallStates, Over
  <1>3. hh[s].by = call.by /\ call.st \in {"ONGOING", "ENDED"}
    BY <1>1, <1>2 DEF PagesInv, PageInv
  <1>4. HIdle \in CallHandlers /\ HIdle.pc = "idle" /\ PageMoves(s, HIdle)
    BY <1>1, <1>2, PageServed, PageStates
  <1>5. PageInv(HIdle)'
    BY <1>4 DEF PageInv, HIdle
  <1>6. \A t \in Slot : hh'[t].pc # "tell" => hh[t].pc # "tell"
    BY <1>2, <1>4 DEF PageMoves
  <1>7. CASE /\ call.st = "ONGOING" /\ call' = [call EXCEPT !.st = "ENDED"] /\ room' = FALSE
             /\ \A v \in HungUpOn(s) \union {UserOf[s]} : v \in User => ui'[v] = "none"
    <2>1. call'.st = "ENDED" /\ call'.by = call.by /\ call'.ringing = call.ringing
      BY <1>1, <1>2, <1>7, CallWritten
    <2>2. PagesInv'
      BY <1>1, <1>3, <1>4, <1>5, <2>1, PagesKept
    <2>3. ASSUME ToldInv, ~silent' PROVE ToldInv'
      <3>1. UserOf[s] \in call.by \union {Caller} /\ \E r \in Receiver : call.by = {r}
        BY <1>1, <1>2, <1>3, <1>7, <2>3 DEF CallInv, AnswerInv
      <3>2. call.by \union {Caller} \subseteq HungUpOn(s) \union {UserOf[s]} /\ call.by \union {Caller} \subseteq User
        BY <1>3, <3>1 DEF HungUpOn, User
      <3>3. Unseen(call.by \union {Caller})'
        BY <1>7, <2>1, <3>2 DEF Unseen
      <3>4. Unseen(User \ (Receiver \union {Caller}))'
        BY <1>2, <2>3 DEF ToldInv, Unseen
      <3>5. (\A t \in Slot : hh'[t].pc # "tell") => Unseen(Receiver \ call.by)'
        <4>1. SUFFICES ASSUME \A t \in Slot : hh'[t].pc # "tell" PROVE Unseen(Receiver \ call.by)'
          OBVIOUS
        <4>2. Unseen(Receiver \ call.by)
          BY <1>6, <1>7, <2>3, <4>1 DEF ToldInv
        <4> QED BY <1>2, <2>1, <4>2 DEF Unseen, User
      <3> QED BY <2>1, <3>3, <3>4, <3>5 DEF ToldInv
    <2> QED BY <1>2, <2>2, <2>3 DEF SeenInv, CallAll
  <1>8. CASE call.st # "ONGOING" /\ ui'[UserOf[s]] = "none" /\ UNCHANGED <<call, room>>
    <2>1. PagesInv'
      BY <1>1, <1>4, <1>5, <1>8, PagesKept
    <2>2. \A v \in User : ui[v] = "none" => ui'[v] = "none"
      BY <1>2
    <2>3. ~silent' /\ failures' = 0 => ToldInv'
      BY <1>1, <1>2, <1>6, <1>8, <2>2, ToldKept DEF CallAll, SeenInv
    <2> QED BY <2>1, <2>3 DEF SeenInv
  <1> QED BY <1>1, <1>7, <1>8, EndCases

LEMMA SeenStep == ASSUME Staff PROVE CallAll /\ [CallNext]_cvars => CallAll'
  <1> SUFFICES ASSUME CallAll, [CallNext]_cvars PROVE CallAll'
    OBVIOUS
  <1>0. CallInv'
    BY CallInvStep DEF CallAll
  <1>1. CASE UNCHANGED cvars
    <2>1. UNCHANGED <<call, ui, hh, silent, failures>> /\ SeenInv
      BY <1>1 DEF cvars, CallAll
    <2>2. PagesInv'
      BY <2>1 DEF SeenInv, PagesInv, PageInv
    <2>3. ~silent' /\ failures' = 0 => ToldInv'
      BY <2>1 DEF SeenInv, ToldInv, Unseen
    <2> QED BY <1>0, <2>2, <2>3 DEF SeenInv, CallAll
  <1>2. CASE createAndRing \/ handleWebhook
    BY <1>0, <1>2, CreateAndRingTells, WebhookTells DEF CallAll
  <1>3. ASSUME NEW s \in Slot,
               \/ StartAnswer(s) \/ answer(s) \/ TellAnswer(s) \/ TokenFails(s)
               \/ StartReject(s) \/ reject(s) \/ MissCall(s)
               \/ StartHangup(s) \/ hangup(s) \/ endOngoing(s)
        PROVE  SeenInv'
    BY <1>3, StartsTell, AnswerTells, TellTells, TokenFailsTells, RejectTells, MissTells, HangupTells, EndTells
  <1>4. ASSUME NEW u \in User, getStatus(u) PROVE SeenInv'
    BY <1>4, GetStatusTells
  <1> QED BY <1>0, <1>1, <1>2, <1>3, <1>4 DEF CallNext, CallAll

-----------------------------------------------------------------------------
(* The room.  A user answers from one page, so the page of a last refusal  *)
(* is not in the way of an answer.                                         *)
LEMMA RoomStep ==
  ASSUME Staff, OnePage, CallAll, RoomInv, [CallNext]_cvars
  PROVE  RoomInv'
  <1> DEFINE Late(h) == h.pc = "miss" => call.ringing = {} /\ call.st \notin {"none", "ONGOING"}
             Owner(t) == hh[t].pc = "claim" /\ call.st = "RINGING" => UserOf[t] \in call.ringing
  <1>1. CallTypes /\ CallInv /\ PagesInv
    BY DEF CallInv, CallAll, SeenInv
  <1>2. \A t \in Slot : Late(hh[t]) /\ Owner(t)
    BY DEF RoomInv
  <1>3. ASSUME UNCHANGED <<call, room>>, NEW s \in Slot, NEW h \in CallHandlers, PageMoves(s, h), Late(h),
               h.pc = "claim" => UserOf[s] \in call.ringing
        PROVE  RoomInv'
    BY <1>3 DEF RoomInv, PageMoves
  <1>4. CASE UNCHANGED cvars \/ \E u \in User : getStatus(u)
    BY <1>4 DEF cvars, getStatus, RoomInv
  <1>5. CASE createAndRing
    <2>1. \A t \in Slot : hh[t].pc = "idle"
      BY <1>1, <1>5 DEF createAndRing, PagesInv, PageInv
    <2>2. call'.st = "RINGING" /\ room' = TRUE /\ hh' = hh
      BY <1>5 DEF createAndRing
    <2> QED BY <2>1, <2>2 DEF RoomInv
  <1>6. CASE handleWebhook
    <2>1. call' = [call EXCEPT !.st = "ENDED"] /\ "ENDED" \in CallStates /\ UNCHANGED <<room, hh>>
      BY <1>6 DEF handleWebhook, CallStates, Over
    <2>2. call'.st = "ENDED" /\ call'.ringing = call.ringing
      BY <1>1, <2>1, CallWritten
    <2> QED BY <2>1, <2>2 DEF RoomInv
  <1>7. ASSUME NEW s \in Slot, StartAnswer(s) PROVE RoomInv'
    <2>1. UNCHANGED <<call, room>> /\ Serve(s, [pc |-> "claim"]) /\ UserOf[s] \in call.ringing
      BY <1>7 DEF StartAnswer
    <2>2. PageMoves(s, [pc |-> "claim"])
      BY <1>1, <2>1, PageServed, PageStates
    <2> QED BY <1>3, <2>1, <2>2, PageStates
  <1>8. ASSUME NEW s \in Slot, StartReject(s) PROVE RoomInv'
    <2>1. UNCHANGED <<call, room>> /\ Serve(s, [pc |-> "remove"])
      BY <1>8 DEF StartReject
    <2>2. PageMoves(s, [pc |-> "remove"])
      BY <1>1, <2>1, PageServed, PageStates
    <2> QED BY <1>3, <2>1, <2>2, PageStates
  <1>9. ASSUME NEW s \in Slot, TellAnswer(s) \/ TokenFails(s) PROVE RoomInv'
    <2>1. UNCHANGED <<call, room>> /\ Serve(s, HIdle)
      BY <1>9 DEF TellAnswer, TokenFails
    <2>2. PageMoves(s, HIdle)
      BY <1>1, <2>1, PageServed, PageStates
    <2> QED BY <1>3, <2>1, <2>2, PageStates
  <1>10. ASSUME NEW s \in Slot, StartHangup(s) PROVE RoomInv'
    <2>1. call.ringing \in SUBSET Receiver /\ call.by \in SUBSET Receiver
      BY <1>1 DEF CallTypes
    <2>2. PICK h \in CallHandlers : Serve(s, h) /\ h.pc \in {"cancel", "end"}
      BY <1>10, <2>1, PageStates DEF StartHangup
    <2>3. UNCHANGED <<call, room>> /\ PageMoves(s, h)
      BY <1>1, <1>10, <2>2, PageServed DEF StartHangup
    <2> QED BY <1>3, <2>2, <2>3
  <1>11. ASSUME NEW s \in Slot, answer(s) PROVE RoomInv'
    <2>1. CASE call.st = "RINGING"
      <3>1. /\ call' = [call EXCEPT !.st = "ONGOING", !.by = {UserOf[s]}] /\ Serve(s, [pc |-> "tell"])
            /\ room' = room /\ hh[s].pc = "claim"
        BY <1>11, <2>1 DEF answer
      <3>2. UserOf[s] \in call.ringing /\ UserOf[s] \in Receiver
        BY <1>1, <1>2, <2>1, <3>1 DEF CallTypes
      <3>3. call'.st = "ONGOING"
        BY <1>1, <3>1, <3>2, CallWritten
      <3>4. PageMoves(s, [pc |-> "tell"])
        BY <1>1, <3>1, PageServed, PageStates
      <3>5. \A t \in Slot : hh'[t].pc # "miss"
        BY <1>2, <3>2, <3>4 DEF PageMoves
      <3> QED BY <2>1, <3>1, <3>3, <3>5 DEF RoomInv
    <2>2. CASE call.st # "RINGING"
      <3>1. UNCHANGED <<call, room>> /\ Serve(s, HIdle)
        BY <1>11, <2>2 DEF answer
      <3>2. PageMoves(s, HIdle)
        BY <1>1, <3>1, PageServed, PageStates
      <3> QED BY <1>3, <3>1, <3>2, PageStates
    <2> QED BY <2>1, <2>2
  <1>12. ASSUME NEW s \in Slot, reject(s) PROVE RoomInv'
    <2>1. CASE call.st = "RINGING"
      <3>1. UserOf[s] \in Receiver /\ room' = room /\ call' = [call EXCEPT !.ringing = @ \ {UserOf[s]}] /\ hh[s].pc = "remove"
        BY <1>1, <1>12, <2>1 DEF reject, CallInv, AnswerInv
      <3>2. call'.st = "RINGING" /\ call'.ringing = call.ringing \ {UserOf[s]}
        BY <1>1, <2>1, <3>1, CallWritten
      <3>3. PICK h \in CallHandlers : /\ Serve(s, h) /\ h.pc \in {"miss", "idle"}
                                      /\ h.pc = "miss" => call'.ringing = {}
        BY <1>12, <2>1, PageStates DEF reject
      <3>4. PageMoves(s, h)
        BY <1>1, <3>3, PageServed
      <3>5. ASSUME NEW t \in Slot PROVE Late(hh[t])' /\ Owner(t)'
        <4>1. CASE t = s
          BY <3>2, <3>3, <3>4, <4>1 DEF PageMoves
        <4>2. CASE t # s
          <5>1. hh'[t] = hh[t] /\ UserOf[t] # UserOf[s]
            BY <3>4, <4>2 DEF PageMoves, OnePage
          <5> QED BY <1>2, <2>1, <3>2, <5>1
        <4> QED BY <4>1, <4>2
      <3> QED BY <2>1, <3>1, <3>2, <3>5 DEF RoomInv
    <2>2. CASE call.st # "RINGING"
      <3>1. UNCHANGED <<call, room>> /\ Serve(s, HIdle)
        BY <1>12, <2>2 DEF reject
      <3>2. PageMoves(s, HIdle)
        BY <1>1, <3>1, PageServed, PageStates
      <3> QED BY <1>3, <3>1, <3>2, PageStates
    <2> QED BY <2>1, <2>2
  <1>13. ASSUME NEW s \in Slot, MissCall(s) PROVE RoomInv'
    <2>1. /\ hh[s].pc = "miss" /\ room' = FALSE /\ Serve(s, HIdle) /\ "MISSED" \in CallStates
          /\ call' = IF call.st = "RINGING" THEN [call EXCEPT !.st = "MISSED"] ELSE call
      BY <1>13 DEF MissCall, CallStates, Over
    <2>2. call.st \notin {"none", "ONGOING"} /\ call.ringing = {}
      BY <1>2, <2>1
    <2>3. PageMoves(s, HIdle)
      BY <1>1, <2>1, PageServed, PageStates
    <2>4. call'.st \notin {"none", "RINGING", "ONGOING"} /\ call'.ringing = {}
      BY <1>1, <2>1, <2>2, CallWritten
    <2> QED BY <2>3, <2>4 DEF RoomInv
  <1>14. ASSUME NEW s \in Slot, hangup(s) PROVE RoomInv'
    <2>1. /\ \/ call.st = "RINGING" /\ call' = [call EXCEPT !.st = "CANCELLED"]
             \/ UNCHANGED <<call, room>>
          /\ \E h \in CallHandlers : Serve(s, h) /\ h.pc \in {"idle", "end"}
      <3>1. call.by \in SUBSET Receiver
        BY <1>1 DEF CallTypes
      <3> QED BY <1>1, <1>14, <3>1, HangupCases, PageStates
    <2>2. PICK h \in CallHandlers : Serve(s, h) /\ h.pc \in {"idle", "end"}
      BY <2>1
    <2>3. PageMoves(s, h)
      BY <1>1, <2>2, PageServed
    <2>4. CASE call.st = "RINGING" /\ call' = [call EXCEPT !.st = "CANCELLED"]
      <3>1. call'.st = "CANCELLED" /\ call'.ringing = call.ringing
        <4>1. "CANCELLED" \in CallStates
          BY DEF CallStates, Over
        <4> QED BY <1>1, <2>4, <4>1, CallWritten
      <3> QED BY <1>2, <2>2, <2>3, <2>4, <3>1 DEF RoomInv, PageMoves
    <2>5. CASE UNCHANGED <<call, room>>
      BY <1>3, <2>2, <2>3, <2>5
    <2> QED BY <2>1, <2>4, <2>5
  <1>15. ASSUME NEW s \in Slot, endOngoing(s) PROVE RoomInv'
    <2>1. /\ PageMoves(s, HIdle)
          /\ \/ call.st = "ONGOING" /\ call' = [call EXCEPT !.st = "ENDED"]
             \/ UNCHANGED <<call, room>>
      BY <1>1, <1>15, EndCases, PageServed, PageStates
    <2>2. CASE call.st = "ONGOING" /\ call' = [call EXCEPT !.st = "ENDED"]
      <3>1. call'.st = "ENDED" /\ call'.ringing = call.ringing
        <4>1. "ENDED" \in CallStates
          BY DEF CallStates, Over
        <4> QED BY <1>1, <2>2, <4>1, CallWritten
      <3> QED BY <1>2, <2>1, <3>1, PageStates DEF RoomInv, PageMoves
    <2>3. CASE UNCHANGED <<call, room>>
      BY <1>3, <2>1, <2>3, PageStates
    <2> QED BY <2>1, <2>2, <2>3
  <1> QED BY <1>4, <1>5, <1>6, <1>7, <1>8, <1>9, <1>10, <1>11, <1>12, <1>13, <1>14, <1>15 DEF CallNext

LEMMA CallHolds == ASSUME Staff PROVE CallSpec => []CallAll
  <1>1. CallInit => CallAll
    BY CallStart DEF CallAll
  <1>2. CallAll /\ [CallNext]_cvars => CallAll'
    BY SeenStep
  <1> QED BY <1>1, <1>2, PTL DEF CallSpec

(* Of two receivers who answer at the same moment one is in the call, and  *)
(* it is the one the row records: the update of `answer` asks for a call   *)
(* that still rings, whatever the pages have read (calls.service.ts).      *)
THEOREM CallOneAnswerer == ASSUME Staff PROVE CallSpec => [](CallTypeOK /\ OneAnswerer)
  <1>1. CallAll => CallTypeOK /\ OneAnswerer
    <2> SUFFICES ASSUME CallInv PROVE CallTypeOK /\ OneAnswerer
      BY DEF CallAll
    <2>1. call.by \subseteq Receiver /\ (call.by = {} \/ \E r \in Receiver : call.by = {r})
      BY DEF CallInv, CallTypes, AnswerInv
    <2>2. Cardinality(call.by) <= 1
      <3>1. CASE call.by = {}
        <4>1. Cardinality(call.by) = 0
          BY <3>1, FS_EmptySet
        <4> QED BY <4>1
      <3>2. CASE \E r \in Receiver : call.by = {r}
        <4>1. Cardinality(call.by) = 1
          BY <3>2, FS_Singleton
        <4> QED BY <4>1
      <3> QED BY <2>1, <3>1, <3>2
    <2>3. call.st \in {"none", "RINGING", "ONGOING"} \union Over /\ call.ringing \subseteq Receiver
          /\ ui \in [User -> {"none", "calling", "ringing", "in"}]
      BY DEF CallInv, CallTypes, CallStates
    <2> QED BY <2>1, <2>2, <2>3 DEF CallInv, AnswerInv, CallTypeOK
  <1> QED BY <1>1, CallHolds, PTL

(* A call that its parties have ended, given up or let pass is gone from   *)
(* every page once the requests are answered, although the events are sent *)
(* after the update, to the users read before it (`answer`, `hangup`,      *)
(* `endOngoing`, `reject`).                                                *)
THEOREM CallEveryoneIsTold == ASSUME Staff PROVE CallSpec => []EveryoneIsTold
  <1>1. CallAll => EveryoneIsTold
    <2> SUFFICES ASSUME CallAll, call.st \in Over, Quiet, ~silent, failures = 0 PROVE \A u \in User : ui[u] = "none"
      BY DEF EveryoneIsTold
    <2>1. ToldInv /\ \A s \in Slot : hh[s].pc # "tell"
      BY DEF CallAll, SeenInv, Quiet, HIdle
    <2>2. CASE call.st \in {"MISSED", "CANCELLED"}
      BY <2>1, <2>2 DEF ToldInv, Unseen
    <2>3. CASE call.st = "ENDED"
      <3>1. Unseen(Receiver \ call.by) /\ Unseen(call.by \union {Caller}) /\ Unseen(User \ (Receiver \union {Caller}))
        BY <2>1, <2>3 DEF ToldInv
      <3> QED BY <3>1 DEF Unseen
    <2> QED BY <2>2, <2>3 DEF Over
  <1> QED BY <1>1, CallHolds, PTL

(* A call that is over is never taken again: an answer, a refusal or a     *)
(* hang-up that comes late finds another status and changes nothing (the   *)
(* conditional updates of calls.service.ts).                               *)
THEOREM CallOverIsOver == ASSUME Staff PROVE CallSpec => OverIsOver
  <1>1. CallAll /\ [CallNext]_cvars => [call.st \in Over => call'.st = call.st]_cvars
    <2> SUFFICES ASSUME CallAll, CallNext, call.st \in Over PROVE call'.st = call.st
      OBVIOUS
    <2>1. call.st \notin {"none", "RINGING", "ONGOING"}
      BY DEF Over
    <2>2. CallTypes
      BY DEF CallAll, CallInv
    <2> QED BY <2>1, <2>2, EndCases, HangupCases DEF CallNext, createAndRing, handleWebhook, StartAnswer, answer,
              TellAnswer, TokenFails, StartReject, reject, MissCall, StartHangup, endOngoing, hangup, getStatus
  <1>2. CallSpec => [][CallNext]_cvars
    BY DEF CallSpec
  <1> QED BY <1>1, <1>2, CallHolds, PTL DEF OverIsOver

(* If each user has one page, a call in progress has its room: the last    *)
(* refusal of `reject` deletes the room, whatever its update found, but of *)
(* a call that nobody is left to answer.                                   *)
THEOREM CallHasRoom == ASSUME Staff, OnePage PROVE CallSpec => []OngoingHasRoom
  <1>1. CallInit => RoomInv
    BY CallStart
  <1>2. CallAll /\ RoomInv /\ [CallNext]_cvars => RoomInv'
    BY RoomStep
  <1>3. RoomInv => OngoingHasRoom
    BY DEF RoomInv, OngoingHasRoom
  <1> QED BY <1>1, <1>2, <1>3, CallHolds, PTL DEF CallSpec

-----------------------------------------------------------------------------
(* Weekly plans of the livreurs                                            *)

(* The mark of no plan is not a plan.                                      *)
Plannings == NoPlan \notin Plan

PlanRow == [st : Active \union {"none", "ARCHIVED"}, days : SUBSET Days, late : BOOLEAN]
ShiftState == {"none", "ASSIGNED", "CONFIRMED", "REFUSED"}
RestState == {"none", "AUTO", "ADMIN", "SELF"}
Shifts == [Livreur -> [Days -> ShiftState]]

PlanHandlers ==
    [pc : {"idle"}, p : {NoPlan}]
    \union [pc : {"send", "sending", "close", "confirm", "confirming", "delete"}, p : Plan]
    \union [pc : {"create"}, p : {NoPlan}, days : Periods, send : BOOLEAN]
    \union [pc : {"set aside", "check", "create", "drop", "restore"}, p : Plan, days : Periods,
            was : {"DRAFT", "SENT"}, send : {FALSE}]

GivenAnswers ==
    [pc : {"idle"}, p : {NoPlan}] \union [pc : {"CONFIRMED", "REFUSED"}, p : Plan, d : Days]

SchTypes ==
    /\ plans \in [Plan -> PlanRow] /\ shift \in [Plan -> Shifts]
    /\ rest \in [Livreur -> [Days -> RestState]]
    /\ byHand \in SUBSET Plan
    /\ sh \in [Planner -> PlanHandlers] /\ ans \in [Livreur -> GivenAnswers]

(* No shift of the plan waits for an answer.                               *)
NoneWaits(p) == \A l \in Livreur, d \in Days : shift[p][l][d] # "ASSIGNED"

ShiftInv ==
    \A p \in Plan :
       /\ plans[p].st = "none" => plans[p] = NoRow
       /\ \A l \in Livreur, d \in Days : shift[p][l][d] # "none" => d \in plans[p].days

(* An answer is given to a shift that is not refused already.              *)
AnsInv == \A l \in Livreur : ans[l] # SIdle => shift[ans[l].p][l][ans[l].d] # "REFUSED"

(* Who is about to confirm a plan has seen it answered, or is the back     *)
(* office.                                                                 *)
Confirmable(h) == h.pc \in {"confirm", "confirming"} => h.p \in byHand \/ NoneWaits(h.p)
ConfirmInv == \A w \in Planner : Confirmable(sh[w])

SchInv == SchTypes /\ ShiftInv /\ AnsInv /\ ConfirmInv /\ OnePlanPerStart /\ ClosedIsAnswered

(* A planner goes on.                                                      *)
PlannerMoves(w, h) ==
    /\ sh' \in [Planner -> PlanHandlers] /\ sh'[w] = h /\ \A v \in Planner \ {w} : sh'[v] = sh[v]

LEMMA PlannerServed ==
  ASSUME SchTypes, NEW w \in Planner, NEW h \in PlanHandlers, Held(w, h)
  PROVE  PlannerMoves(w, h)
  BY DEF SchTypes, Held, PlannerMoves

LEMMA PlanStates ==
  /\ SIdle \in PlanHandlers /\ SIdle.pc = "idle" /\ SIdle \in GivenAnswers
  /\ \A x \in {"send", "sending", "close", "confirm", "confirming", "delete"}, p \in Plan :
        /\ [pc |-> x, p |-> p] \in PlanHandlers
        /\ [pc |-> x, p |-> p].pc = x /\ [pc |-> x, p |-> p].p = p
  /\ \A days \in Periods, b \in BOOLEAN :
        /\ [pc |-> "create", p |-> NoPlan, days |-> days, send |-> b] \in PlanHandlers
        /\ [pc |-> "create", p |-> NoPlan, days |-> days, send |-> b].pc = "create"
  BY DEF SIdle, PlanHandlers, GivenAnswers

LEMMA PlanOfHandler ==
  ASSUME SchTypes, Plannings, NEW w \in Planner
  PROVE  /\ sh[w].pc \in {"send", "sending", "close", "confirm", "confirming", "delete",
                          "set aside", "check", "drop", "restore"} => sh[w].p \in Plan
         /\ sh[w].pc = "create" => sh[w].days \in Periods /\ sh[w].p \in Plan \union {NoPlan}
         /\ sh[w].pc \in {"set aside", "check", "drop", "restore"} \/ (sh[w].pc = "create" /\ sh[w].p # NoPlan)
               => /\ sh[w].days \in Periods /\ sh[w].was \in {"DRAFT", "SENT"}
                  /\ \A x \in {"set aside", "check", "create", "drop", "restore"} :
                        /\ [sh[w] EXCEPT !.pc = x] \in PlanHandlers /\ [sh[w] EXCEPT !.pc = x].pc = x
  <1> DEFINE Regen == [pc : {"set aside", "check", "create", "drop", "restore"}, p : Plan, days : Periods,
                       was : {"DRAFT", "SENT"}, send : {FALSE}]
  <1>1. sh[w] \in PlanHandlers
    BY DEF SchTypes
  <1>2. CASE sh[w] \in Regen
    <2>1. \A x \in {"set aside", "check", "create", "drop", "restore"} :
             [sh[w] EXCEPT !.pc = x] \in Regen /\ [sh[w] EXCEPT !.pc = x].pc = x
      BY <1>2
    <2>2. Regen \subseteq PlanHandlers
      BY DEF PlanHandlers
    <2>3. sh[w].pc \in {"set aside", "check", "create", "drop", "restore"} /\ sh[w].p \in Plan
          /\ sh[w].days \in Periods /\ sh[w].was \in {"DRAFT", "SENT"}
      BY <1>2
    <2> HIDE DEF Regen
    <2> QED BY <2>1, <2>2, <2>3
  <1>3. CASE sh[w] \in [pc : {"create"}, p : {NoPlan}, days : Periods, send : BOOLEAN]
    BY <1>3
  <1>4. CASE sh[w] \in [pc : {"send", "sending", "close", "confirm", "confirming", "delete"}, p : Plan]
    BY <1>4
  <1>5. CASE sh[w] \in [pc : {"idle"}, p : {NoPlan}]
    BY <1>5
  <1> QED BY <1>1, <1>2, <1>3, <1>4, <1>5 DEF PlanHandlers

LEMMA PlanStart == SchInit => SchInv
  <1> SUFFICES ASSUME SchInit PROVE SchInv
    OBVIOUS
  <1>1. /\ \A p \in Plan : plans[p] = NoRow /\ shift[p] = NoShifts
        /\ \A l \in Livreur : ans[l] = SIdle
        /\ \A w \in Planner : sh[w] = SIdle
    BY DEF SchInit
  <1>2. NoRow \in PlanRow /\ NoRow.st = "none" /\ NoShifts \in Shifts
        /\ \A l \in Livreur, d \in Days : NoShifts[l][d] = "none"
    BY DEF NoRow, NoShifts, PlanRow, Shifts, ShiftState
  <1>3. SchTypes
    BY <1>2, PlanStates DEF SchInit, SchTypes, RestState
  <1>4. ShiftInv /\ AnsInv
    BY <1>1, <1>2 DEF ShiftInv, AnsInv
  <1>5. ConfirmInv
    BY <1>1, PlanStates DEF ConfirmInv, Confirmable
  <1>6. OnePlanPerStart /\ ClosedIsAnswered
    BY <1>1, <1>2 DEF OnePlanPerStart, ClosedIsAnswered, Active
  <1> QED BY <1>3, <1>4, <1>5, <1>6 DEF SchInv

-----------------------------------------------------------------------------
(* A planner that only reads.                                              *)
LEMMA PlannerReads ==
  ASSUME SchInv, NEW w \in Planner, NEW h \in PlanHandlers, PlannerMoves(w, h),
         UNCHANGED <<plans, shift, rest, ans>>, byHand \subseteq byHand', byHand' \subseteq Plan,
         h.pc \in {"confirm", "confirming"} => h.p \in byHand' \/ NoneWaits(h.p)
  PROVE  SchInv'
  <1>1. SchTypes'
    BY DEF SchInv, SchTypes, PlannerMoves
  <1>2. ShiftInv' /\ AnsInv' /\ OnePlanPerStart' /\ ClosedIsAnswered'
    BY DEF SchInv, ShiftInv, AnsInv, OnePlanPerStart, ClosedIsAnswered
  <1>3. ConfirmInv'
    <2>1. ASSUME NEW v \in Planner PROVE Confirmable(sh[v])'
      <3>1. CASE v = w
        BY <3>1 DEF PlannerMoves, Confirmable, NoneWaits
      <3>2. CASE v # w
        <4>1. sh'[v] = sh[v] /\ Confirmable(sh[v])
          BY <3>2 DEF PlannerMoves, SchInv, ConfirmInv
        <4> QED BY <4>1 DEF Confirmable, NoneWaits
      <3> QED BY <3>1, <3>2
    <2> QED BY <2>1 DEF ConfirmInv
  <1> QED BY <1>1, <1>2, <1>3 DEF SchInv

(* The status of one plan is written.                                      *)
LEMMA StatusWritten ==
  ASSUME SchInv, NEW p \in Plan, plans' \in [Plan -> PlanRow], sh' \in [Planner -> PlanHandlers],
         \A v \in Planner : sh'[v] = sh[v] \/ sh'[v].pc \in {"idle", "check"},
         UNCHANGED <<shift, rest, byHand, ans>>,
         \A q \in Plan \ {p} : plans'[q] = plans[q],
         plans'[p].days = plans[p].days, plans'[p].st # "none",
         plans'[p].st \in Active => plans[p].st \in Active \/ ~Taken(plans[p].days),
         plans'[p].st = "CONFIRMED" => plans[p].st = "CONFIRMED" \/ p \in byHand \/ NoneWaits(p)
  PROVE  SchInv'
  <1>1. SchTypes'
    BY DEF SchInv, SchTypes
  <1>2. ShiftInv'
    BY DEF SchInv, ShiftInv
  <1>3. AnsInv'
    BY DEF SchInv, AnsInv
  <1>4. ConfirmInv'
    <2>1. ASSUME NEW v \in Planner PROVE Confirmable(sh[v])'
      <3>1. Confirmable(sh[v])
        BY DEF SchInv, ConfirmInv
      <3> QED BY <3>1 DEF Confirmable, NoneWaits
    <2> QED BY <2>1 DEF ConfirmInv
  <1>5. OnePlanPerStart'
    <2>1. ASSUME NEW q \in Plan, q # p, plans'[p].st \in Active, plans[q].st \in Active
          PROVE  First(plans[p].days) # First(plans[q].days)
      BY <2>1 DEF SchInv, OnePlanPerStart, Taken
    <2> QED BY <2>1 DEF SchInv, OnePlanPerStart
  <1>6. ClosedIsAnswered'
    BY DEF SchInv, ClosedIsAnswered, NoneWaits
  <1> QED BY <1>1, <1>2, <1>3, <1>4, <1>5, <1>6 DEF SchInv

(* The shifts of one plan are written, while the plans stay.               *)
LEMMA ShiftsWritten ==
  ASSUME SchInv, NEW p \in Plan, shift' \in [Plan -> Shifts], UNCHANGED plans,
         rest' \in [Livreur -> [Days -> RestState]], sh' \in [Planner -> PlanHandlers],
         ans' \in [Livreur -> GivenAnswers],
         byHand \subseteq byHand', byHand' \subseteq Plan,
         \A v \in Planner : \/ sh'[v] = sh[v]
                            \/ /\ sh'[v].pc = "confirm" /\ sh'[v].p = p
                               /\ \A l \in Livreur, d \in Days : shift'[p][l][d] # "ASSIGNED",
         \A l \in Livreur : ans'[l] \in {ans[l], SIdle},
         \A q \in Plan \ {p} : shift'[q] = shift[q],
         \A l \in Livreur, d \in Days :
            /\ shift'[p][l][d] # "none" => d \in plans[p].days
            /\ shift'[p][l][d] = "ASSIGNED" => p \in byHand' \/ shift[p][l][d] = "ASSIGNED"
            /\ shift'[p][l][d] = "REFUSED" => shift[p][l][d] = "REFUSED" \/ ans'[l] = SIdle
  PROVE  SchInv'
  <1>1. SchTypes'
    BY DEF SchInv, SchTypes
  <1>2. ShiftInv'
    <2>1. ASSUME NEW q \in Plan, NEW l \in Livreur, NEW d \in Days, shift'[q][l][d] # "none"
          PROVE  d \in plans[q].days
      <3>1. CASE q = p
        BY <2>1, <3>1
      <3>2. CASE q # p
        BY <2>1, <3>2 DEF SchInv, ShiftInv
      <3> QED BY <3>1, <3>2
    <2>2. \A q \in Plan : plans[q].st = "none" => plans[q] = NoRow
      BY DEF SchInv, ShiftInv
    <2> QED BY <2>1, <2>2 DEF ShiftInv
  <1>3. \A q \in Plan : NoneWaits(q) => q \in byHand' \/ NoneWaits(q)'
    BY DEF NoneWaits
  <1>4. AnsInv'
    <2>1. ASSUME NEW l \in Livreur, ans'[l] # SIdle PROVE shift'[ans'[l].p][l][ans'[l].d] # "REFUSED"
      <3>1. ans'[l] = ans[l] /\ ans[l].p \in Plan /\ ans[l].d \in Days /\ shift[ans[l].p][l][ans[l].d] # "REFUSED"
        BY <2>1 DEF SchInv, SchTypes, AnsInv, GivenAnswers, SIdle
      <3>2. CASE ans[l].p = p
        BY <2>1, <3>1, <3>2
      <3>3. CASE ans[l].p # p
        BY <3>1, <3>3
      <3> QED BY <3>2, <3>3
    <2> QED BY <2>1 DEF AnsInv
  <1>5. ConfirmInv'
    <2>1. ASSUME NEW v \in Planner, sh'[v].pc \in {"confirm", "confirming"}
          PROVE sh'[v].p \in byHand' \/ NoneWaits(sh[v].p)'
      <3>1. CASE sh'[v] = sh[v]
        <4>1. sh[v].p \in Plan /\ (sh[v].p \in byHand \/ NoneWaits(sh[v].p))
          BY <2>1, <3>1 DEF SchInv, SchTypes, PlanHandlers, ConfirmInv, Confirmable
        <4> QED BY <1>3, <3>1, <4>1 DEF NoneWaits
      <3>2. CASE sh'[v].p = p /\ \A l \in Livreur, d \in Days : shift'[p][l][d] # "ASSIGNED"
        BY <3>2 DEF NoneWaits
      <3> QED BY <3>1, <3>2
    <2> QED BY <2>1 DEF ConfirmInv, Confirmable
  <1>6. OnePlanPerStart'
    BY DEF SchInv, OnePlanPerStart
  <1>7. ClosedIsAnswered'
    BY <1>3 DEF SchInv, ClosedIsAnswered, NoneWaits
  <1> QED BY <1>1, <1>2, <1>4, <1>5, <1>6, <1>7 DEF SchInv

LEMMA ShiftsEdited ==
  ASSUME SchInv, NEW p \in Plan, shift' \in [Plan -> Shifts], UNCHANGED <<plans, sh>>,
         rest' \in [Livreur -> [Days -> RestState]], ans' \in [Livreur -> GivenAnswers],
         byHand \subseteq byHand', byHand' \subseteq Plan,
         \A l \in Livreur : ans'[l] \in {ans[l], SIdle},
         \A q \in Plan \ {p} : shift'[q] = shift[q],
         \A l \in Livreur, d \in Days :
            /\ shift'[p][l][d] # "none" => d \in plans[p].days
            /\ shift'[p][l][d] = "ASSIGNED" => p \in byHand' \/ shift[p][l][d] = "ASSIGNED"
            /\ shift'[p][l][d] = "REFUSED" => shift[p][l][d] = "REFUSED" \/ ans'[l] = SIdle
  PROVE  SchInv'
  <1>1. sh' \in [Planner -> PlanHandlers] /\ \A v \in Planner : sh'[v] = sh[v]
    BY DEF SchInv, SchTypes
  <1> QED BY <1>1, ShiftsWritten

(* A plan is created, with its shifts.                                     *)
LEMMA PlanCreated ==
  ASSUME SchInv, NEW p \in Plan, plans' \in [Plan -> PlanRow], sh' \in [Planner -> PlanHandlers],
         shift' \in [Plan -> Shifts], rest' \in [Livreur -> [Days -> RestState]],
         UNCHANGED <<byHand, ans>>,
         \A v \in Planner : sh[v].p # p /\ (sh'[v] = sh[v] \/ sh'[v].pc \in {"idle", "drop", "send"}),
         \A l \in Livreur : ans[l].p # p,
         \A q \in Plan \ {p} : plans'[q] = plans[q] /\ shift'[q] = shift[q],
         plans'[p].st = "DRAFT", ~Taken(plans'[p].days),
         \A l \in Livreur, d \in Days : shift'[p][l][d] # "none" => d \in plans'[p].days
  PROVE  SchInv'
  <1>1. SchTypes'
    BY DEF SchInv, SchTypes
  <1>2. ShiftInv'
    <2>1. ASSUME NEW q \in Plan, NEW l \in Livreur, NEW d \in Days, shift'[q][l][d] # "none"
          PROVE  d \in plans'[q].days
      <3>1. CASE q = p
        BY <2>1, <3>1
      <3>2. CASE q # p
        BY <2>1, <3>2 DEF SchInv, ShiftInv
      <3> QED BY <3>1, <3>2
    <2>2. \A q \in Plan : plans'[q].st = "none" => plans'[q] = NoRow
      BY DEF SchInv, ShiftInv
    <2> QED BY <2>1, <2>2 DEF ShiftInv
  <1>3. AnsInv'
    <2>1. ASSUME NEW l \in Livreur, ans[l] # SIdle PROVE shift'[ans[l].p][l][ans[l].d] # "REFUSED"
      <3>1. ans[l].p \in Plan \ {p} /\ shift[ans[l].p][l][ans[l].d] # "REFUSED"
        BY <2>1 DEF SchInv, SchTypes, AnsInv, GivenAnswers, SIdle
      <3> QED BY <3>1
    <2> QED BY <2>1 DEF AnsInv
  <1>4. ConfirmInv'
    <2>1. ASSUME NEW v \in Planner, sh'[v].pc \in {"confirm", "confirming"}
          PROVE sh'[v].p \in byHand' \/ NoneWaits(sh[v].p)'
      <3>1. sh'[v] = sh[v] /\ sh[v].p \in Plan \ {p} /\ (sh[v].p \in byHand \/ NoneWaits(sh[v].p))
        BY <2>1 DEF SchInv, SchTypes, PlanHandlers, ConfirmInv, Confirmable
      <3> QED BY <3>1 DEF NoneWaits
    <2> QED BY <2>1 DEF ConfirmInv, Confirmable
  <1>5. OnePlanPerStart'
    <2>1. ASSUME NEW q \in Plan, q # p, plans[q].st \in Active
          PROVE  First(plans'[p].days) # First(plans[q].days)
      BY <2>1 DEF Taken
    <2> QED BY <2>1 DEF SchInv, OnePlanPerStart
  <1>6. ClosedIsAnswered'
    BY DEF SchInv, ClosedIsAnswered
  <1> QED BY <1>1, <1>2, <1>3, <1>4, <1>5, <1>6 DEF SchInv

(* A plan is deleted, with its shifts.                                     *)
LEMMA PlanDropped ==
  ASSUME SchInv, NEW w \in Planner, NEW p \in Plan, Drop(p), PlannerMoves(w, SIdle), UNCHANGED <<rest, ans>>
  PROVE  SchInv'
  <1>1. NoRow \in PlanRow /\ NoRow.st = "none" /\ NoShifts \in Shifts
        /\ \A l \in Livreur, d \in Days : NoShifts[l][d] = "none"
    BY DEF NoRow, NoShifts, PlanRow, Shifts, ShiftState
  <1>2. /\ plans' \in [Plan -> PlanRow] /\ shift' \in [Plan -> Shifts]
        /\ plans'[p] = NoRow /\ shift'[p] = NoShifts /\ byHand' = byHand \ {p}
        /\ \A q \in Plan \ {p} : plans'[q] = plans[q] /\ shift'[q] = shift[q]
    <2> HIDE DEF NoRow, NoShifts
    <2> QED BY <1>1 DEF Drop, SchInv, SchTypes
  <1>3. SchTypes'
    BY <1>2 DEF SchInv, SchTypes, PlannerMoves
  <1>4. ShiftInv'
    BY <1>1, <1>2 DEF SchInv, ShiftInv
  <1>5. AnsInv'
    <2>1. ASSUME NEW l \in Livreur, ans[l] # SIdle PROVE shift'[ans[l].p][l][ans[l].d] # "REFUSED"
      <3>1. ans[l].p \in Plan /\ ans[l].d \in Days /\ shift[ans[l].p][l][ans[l].d] # "REFUSED"
        BY <2>1 DEF SchInv, SchTypes, AnsInv, GivenAnswers, SIdle
      <3>2. CASE ans[l].p = p
        BY <1>1, <1>2, <3>1, <3>2
      <3>3. CASE ans[l].p # p
        BY <1>2, <3>1, <3>3
      <3> QED BY <3>2, <3>3
    <2> QED BY <2>1 DEF AnsInv
  <1>6. \A q \in Plan : q \in byHand \/ NoneWaits(q) => q \in byHand' \/ NoneWaits(q)'
    <2>1. ASSUME NEW q \in Plan, q \in byHand \/ NoneWaits(q) PROVE q \in byHand' \/ NoneWaits(q)'
      <3>1. CASE q = p
        BY <1>1, <1>2, <3>1 DEF NoneWaits
      <3>2. CASE q # p
        BY <1>2, <2>1, <3>2 DEF NoneWaits
      <3> QED BY <3>1, <3>2
    <2> QED BY <2>1
  <1>7. ConfirmInv'
    <2>1. ASSUME NEW v \in Planner, sh'[v].pc \in {"confirm", "confirming"}
          PROVE sh'[v].p \in byHand' \/ NoneWaits(sh[v].p)'
      <3>1. sh'[v] = sh[v]
        BY <2>1, PlanStates DEF PlannerMoves
      <3>2. sh[v].p \in Plan /\ (sh[v].p \in byHand \/ NoneWaits(sh[v].p))
        BY <2>1, <3>1 DEF SchInv, SchTypes, PlanHandlers, ConfirmInv, Confirmable
      <3> QED BY <1>6, <3>1, <3>2 DEF NoneWaits
    <2>2. ASSUME NEW v \in Planner PROVE Confirmable(sh[v])'
      <3>1. CASE v = w
        BY <3>1, PlanStates DEF PlannerMoves, Confirmable
      <3>2. CASE v # w
        BY <2>1, <3>2 DEF PlannerMoves, Confirmable, NoneWaits
      <3> QED BY <3>1, <3>2
    <2> QED BY <2>2 DEF ConfirmInv
  <1>8. OnePlanPerStart'
    BY <1>1, <1>2 DEF SchInv, OnePlanPerStart, Active
  <1>9. ClosedIsAnswered'
    <2>1. ASSUME NEW q \in Plan, plans'[q].st = "CONFIRMED", q \notin byHand' PROVE NoneWaits(q)'
      <3>1. q # p
        BY <1>1, <1>2, <2>1
      <3>2. plans[q].st = "CONFIRMED" /\ q \notin byHand
        BY <1>2, <2>1, <3>1
      <3> QED BY <1>2, <3>1, <3>2 DEF SchInv, ClosedIsAnswered, NoneWaits
    <2> QED BY <2>1 DEF ClosedIsAnswered, NoneWaits
  <1> QED BY <1>3, <1>4, <1>5, <1>7, <1>8, <1>9 DEF SchInv

-----------------------------------------------------------------------------
(* The actions, one by one.  None of them gives a refused shift back.      *)
RefusalsKept ==
  \A p \in Plan, l \in Livreur, d \in Days : shift[p][l][d] = "REFUSED" => shift'[p][l][d] \in {"REFUSED", "none"}

PlanKept == SchInv' /\ RefusalsKept

LEMMA ReadsKeep ==
  ASSUME SchInv, NEW w \in Planner, NEW h \in PlanHandlers, Held(w, h),
         UNCHANGED <<plans, shift, rest, ans>>, byHand \subseteq byHand', byHand' \subseteq Plan,
         h.pc \in {"confirm", "confirming"} => h.p \in byHand' \/ NoneWaits(h.p)
  PROVE  PlanKept
  <1>1. PlannerMoves(w, h)
    BY PlannerServed DEF SchInv
  <1>2. SchInv'
    BY <1>1, PlannerReads
  <1> QED BY <1>2 DEF PlanKept, RefusalsKept

LEMMA GenerateKeeps ==
  ASSUME SchInv, Plannings, NEW w \in Planner, NEW days \in Periods,
         StartGenerate(w, days) \/ autoSendWeeklyPlans(w, days)
  PROVE  PlanKept
  <1>1. UNCHANGED <<plans, shift, rest, byHand, ans>> /\ byHand \subseteq Plan
    BY DEF StartGenerate, autoSendWeeklyPlans, SchInv, SchTypes
  <1>2. PICK b \in BOOLEAN : Held(w, [pc |-> "create", p |-> NoPlan, days |-> days, send |-> b])
    BY DEF StartGenerate, autoSendWeeklyPlans
  <1> QED BY <1>1, <1>2, PlanStates, ReadsKeep

LEMMA StartsKeep ==
  ASSUME SchInv, Plannings, NEW w \in Planner, NEW p \in Plan,
         StartSend(w, p) \/ closeOverduePlans(w, p) \/ StartConfirm(w, p) \/ StartDelete(w, p)
  PROVE  PlanKept
  <1>1. UNCHANGED <<plans, shift, rest, ans>> /\ byHand \subseteq byHand' /\ byHand' \subseteq Plan
    BY DEF StartSend, closeOverduePlans, StartConfirm, StartDelete, SchInv, SchTypes
  <1>2. PICK x \in {"send", "close", "confirming", "delete"} :
           Held(w, [pc |-> x, p |-> p]) /\ (x = "confirming" => p \in byHand')
    BY DEF StartSend, closeOverduePlans, StartConfirm, StartDelete
  <1>3. [pc |-> x, p |-> p] \in PlanHandlers /\ [pc |-> x, p |-> p].pc = x /\ [pc |-> x, p |-> p].p = p
    BY PlanStates
  <1> QED BY <1>1, <1>2, <1>3, ReadsKeep

LEMMA RegenerateKeeps ==
  ASSUME SchInv, Plannings, NEW w \in Planner, NEW p \in Plan, NEW days \in Periods, StartRegenerate(w, p, days)
  PROVE  PlanKept
  <1>1. /\ UNCHANGED <<plans, shift, rest, byHand, ans>> /\ byHand \subseteq Plan /\ plans[p].st \in {"DRAFT", "SENT"}
        /\ Held(w, [pc |-> "set aside", p |-> p, days |-> days, was |-> plans[p].st, send |-> FALSE])
    BY DEF StartRegenerate, SchInv, SchTypes
  <1>2. PICK x \in {"DRAFT", "SENT"} : Held(w, [pc |-> "set aside", p |-> p, days |-> days, was |-> x, send |-> FALSE])
    BY <1>1
  <1>3. /\ [pc |-> "set aside", p |-> p, days |-> days, was |-> x, send |-> FALSE] \in PlanHandlers
        /\ [pc |-> "set aside", p |-> p, days |-> days, was |-> x, send |-> FALSE].pc = "set aside"
    BY DEF PlanHandlers
  <1> QED BY <1>1, <1>2, <1>3, ReadsKeep

LEMMA StepsKeep ==
  ASSUME SchInv, Plannings, NEW w \in Planner, sendPlan(w) \/ confirmPlan(w) \/ regeneratePlan(w) \/ Halt(w)
  PROVE  PlanKept
  <1>0. SchTypes /\ byHand \subseteq Plan
    BY DEF SchInv, SchTypes
  <1>1. UNCHANGED <<plans, shift, rest, byHand, ans>>
    BY DEF sendPlan, confirmPlan, regeneratePlan, Halt
  <1>2. \E h \in PlanHandlers : Held(w, h) /\ (h.pc \in {"confirm", "confirming"} => h.p \in byHand \/ NoneWaits(h.p))
    <2>1. CASE sendPlan(w)
      BY <1>0, <2>1, PlanOfHandler, PlanStates DEF sendPlan
    <2>2. CASE confirmPlan(w)
      <3>1. sh[w].p \in byHand \/ NoneWaits(sh[w].p)
        BY <2>2 DEF confirmPlan, SchInv, ConfirmInv, Confirmable
      <3>2. Held(w, [pc |-> "confirming", p |-> sh[w].p]) \/ Held(w, SIdle)
        BY <2>2 DEF confirmPlan
      <3>3. sh[w].p \in Plan
        BY <1>0, <2>2, PlanOfHandler DEF confirmPlan
      <3> QED BY <3>1, <3>2, <3>3, PlanStates
    <2>3. CASE regeneratePlan(w)
      <3>1. PICK x \in {"restore", "create"} : Held(w, [sh[w] EXCEPT !.pc = x])
        BY <2>3 DEF regeneratePlan
      <3>2. [sh[w] EXCEPT !.pc = x] \in PlanHandlers /\ [sh[w] EXCEPT !.pc = x].pc = x
        BY <1>0, <2>3, PlanOfHandler DEF regeneratePlan
      <3> QED BY <3>1, <3>2
    <2>4. CASE Halt(w)
      BY <2>4, PlanStates DEF Halt
    <2> QED BY <2>1, <2>2, <2>3, <2>4
  <1> QED BY <1>0, <1>1, <1>2, ReadsKeep

(* An update of the status by id.                                          *)
LEMMA PlanWritten ==
  ASSUME SchTypes, NEW p \in Plan
  PROVE  /\ \A x \in Active \union {"ARCHIVED"} :
              /\ [plans EXCEPT ![p].st = x] \in [Plan -> PlanRow]
              /\ [plans EXCEPT ![p].st = x][p].st = x
              /\ [plans EXCEPT ![p].st = x][p].days = plans[p].days
              /\ \A q \in Plan \ {p} : [plans EXCEPT ![p].st = x][q] = plans[q]
         /\ [plans EXCEPT ![p].late = TRUE] \in [Plan -> PlanRow]
         /\ [plans EXCEPT ![p].late = TRUE][p].st = plans[p].st
         /\ [plans EXCEPT ![p].late = TRUE][p].days = plans[p].days
         /\ \A q \in Plan \ {p} : [plans EXCEPT ![p].late = TRUE][q] = plans[q]
  <1>1. plans \in [Plan -> PlanRow]
    BY DEF SchTypes
  <1> QED BY <1>1 DEF PlanRow

LEMMA WritesKeep ==
  ASSUME SchInv, Plannings, NEW w \in Planner, MarkSent(w) \/ MarkConfirmed(w) \/ RestoreOld(w)
  PROVE  PlanKept
  <1> DEFINE p == sh[w].p
  <1>0. SchTypes /\ byHand \subseteq Plan /\ p \in Plan
    BY PlanOfHandler DEF SchInv, SchTypes, MarkSent, MarkConfirmed, RestoreOld
  <1>1. PICK x \in {"DRAFT", "SENT", "CONFIRMED"} :
           Writes(w, p, x) /\ (x = "CONFIRMED" => p \in byHand \/ NoneWaits(p))
    <2>1. CASE MarkSent(w)
      BY <2>1 DEF MarkSent
    <2>2. CASE MarkConfirmed(w)
      BY <2>2 DEF MarkConfirmed, SchInv, ConfirmInv, Confirmable
    <2>3. CASE RestoreOld(w)
      BY <1>0, <2>3, PlanOfHandler DEF RestoreOld
    <2> QED BY <2>1, <2>2, <2>3
  <1> HIDE DEF p
  <1>2. /\ Held(w, SIdle) /\ UNCHANGED <<shift, rest, byHand, ans>>
        /\ plans' = IF plans[p].st = "none" \/ (plans[p].st = "ARCHIVED" /\ Taken(plans[p].days))
                    THEN plans ELSE [plans EXCEPT ![p].st = x]
    BY <1>1 DEF Writes
  <1>3. CASE plans' = plans
    BY <1>0, <1>2, <1>3, PlanStates, ReadsKeep
  <1>4. CASE /\ plans[p].st # "none" /\ ~(plans[p].st = "ARCHIVED" /\ Taken(plans[p].days))
             /\ plans' = [plans EXCEPT ![p].st = x]
    <2>1. /\ plans' \in [Plan -> PlanRow] /\ plans'[p].st = x /\ plans'[p].days = plans[p].days
          /\ \A q \in Plan \ {p} : plans'[q] = plans[q]
      BY <1>0, <1>4, PlanWritten DEF Active
    <2>2. PlannerMoves(w, SIdle)
      BY <1>0, <1>2, PlanStates, PlannerServed
    <2>3. /\ sh' \in [Planner -> PlanHandlers]
          /\ \A v \in Planner : sh'[v] = sh[v] \/ sh'[v].pc \in {"idle", "check"}
      BY <2>2, PlanStates DEF PlannerMoves
    <2>4. plans[p].st \in Active \/ ~Taken(plans[p].days)
      BY <1>0, <1>4 DEF SchTypes, PlanRow
    <2>5. SchInv'
      BY <1>0, <1>1, <1>2, <2>1, <2>3, <2>4, StatusWritten
    <2> QED BY <1>2, <2>5 DEF PlanKept, RefusalsKept
  <1> QED BY <1>2, <1>3, <1>4

LEMMA SetAsideKeeps ==
  ASSUME SchInv, Plannings, NEW w \in Planner, SetAside(w)
  PROVE  PlanKept
  <1> DEFINE p == sh[w].p
  <1>0. SchTypes /\ byHand \subseteq Plan /\ p \in Plan /\ UNCHANGED <<shift, rest, byHand, ans>>
    BY PlanOfHandler DEF SchInv, SchTypes, SetAside
  <1>1. \/ plans' = plans /\ Held(w, SIdle)
        \/ /\ plans[p].st # "none" /\ plans' = [plans EXCEPT ![p].st = "ARCHIVED"]
           /\ Held(w, [sh[w] EXCEPT !.pc = "check"])
    BY DEF SetAside
  <1>2. [sh[w] EXCEPT !.pc = "check"] \in PlanHandlers /\ [sh[w] EXCEPT !.pc = "check"].pc = "check"
    BY <1>0, PlanOfHandler DEF SetAside
  <1> HIDE DEF p
  <1>3. CASE plans' = plans /\ Held(w, SIdle)
    BY <1>0, <1>3, PlanStates, ReadsKeep
  <1>4. CASE /\ plans' = [plans EXCEPT ![p].st = "ARCHIVED"]
             /\ Held(w, [sh[w] EXCEPT !.pc = "check"])
    <2>1. /\ plans' \in [Plan -> PlanRow] /\ plans'[p].st = "ARCHIVED" /\ plans'[p].days = plans[p].days
          /\ \A q \in Plan \ {p} : plans'[q] = plans[q]
      BY <1>0, <1>4, PlanWritten
    <2>2. PICK h \in PlanHandlers : h.pc = "check" /\ Held(w, h)
      BY <1>2, <1>4
    <2>3. PlannerMoves(w, h)
      BY <1>0, <2>2, PlannerServed
    <2>4. /\ sh' \in [Planner -> PlanHandlers]
          /\ \A v \in Planner : sh'[v] = sh[v] \/ sh'[v].pc \in {"idle", "check"}
      BY <2>2, <2>3 DEF PlannerMoves
    <2>5. SchInv'
      BY <1>0, <2>1, <2>4, StatusWritten DEF Active
    <2> QED BY <1>0, <2>5 DEF PlanKept, RefusalsKept
  <1> QED BY <1>1, <1>3, <1>4

LEMMA StatusKeeps ==
  ASSUME SchInv, Plannings, NEW p \in Plan, DeadlinePasses(p) \/ archivePlan(p)
  PROVE  PlanKept
  <1>1. SchTypes /\ sh \in [Planner -> PlanHandlers]
    BY DEF SchInv, SchTypes
  <1>2. UNCHANGED <<shift, rest, byHand, ans, sh>> /\ plans[p].st # "none"
    BY DEF DeadlinePasses, archivePlan
  <1>3. \/ plans' = [plans EXCEPT ![p].late = TRUE]
        \/ plans' = [plans EXCEPT ![p].st = "ARCHIVED"]
    BY DEF DeadlinePasses, archivePlan
  <1>4. /\ plans' \in [Plan -> PlanRow] /\ plans'[p].st \in {plans[p].st, "ARCHIVED"}
        /\ plans'[p].days = plans[p].days /\ \A q \in Plan \ {p} : plans'[q] = plans[q]
    <2>1. CASE plans' = [plans EXCEPT ![p].late = TRUE]
      BY <1>1, <2>1, PlanWritten
    <2>2. CASE plans' = [plans EXCEPT ![p].st = "ARCHIVED"]
      BY <1>1, <2>2, PlanWritten
    <2> QED BY <1>3, <2>1, <2>2
  <1>5. SchInv'
    BY <1>1, <1>2, <1>4, StatusWritten DEF Active
  <1> QED BY <1>2, <1>5 DEF PlanKept, RefusalsKept

LEMMA DropsKeep ==
  ASSUME SchInv, Plannings, NEW w \in Planner, deletePlan(w) \/ DropOld(w)
  PROVE  PlanKept
  <1>1. SchTypes /\ sh[w].p \in Plan /\ Drop(sh[w].p) /\ Held(w, SIdle) /\ UNCHANGED <<rest, ans>>
    BY PlanOfHandler DEF SchInv, deletePlan, DropOld
  <1>2. PlannerMoves(w, SIdle)
    BY <1>1, PlanStates, PlannerServed
  <1>3. SchInv'
    BY <1>1, <1>2, PlanDropped
  <1>4. ASSUME NEW p \in Plan, NEW l \in Livreur, NEW d \in Days PROVE shift'[p][l][d] \in {shift[p][l][d], "none"}
    <2>1. shift' = [shift EXCEPT ![sh[w].p] = NoShifts] /\ shift \in [Plan -> Shifts] /\ NoShifts[l][d] = "none"
      BY <1>1 DEF Drop, SchTypes, NoShifts
    <2> QED BY <2>1
  <1> QED BY <1>3, <1>4 DEF PlanKept, RefusalsKept

LEMMA CreateKeeps ==
  ASSUME SchInv, Plannings, NEW w \in Planner, NEW p \in Plan, CreatePlan(w, p)
  PROVE  PlanKept
  <1> DEFINE h == sh[w]
  <1>0. /\ SchTypes /\ byHand \subseteq Plan /\ UNCHANGED <<byHand, ans>>
        /\ h.pc = "create" /\ plans[p].st = "none" /\ \A v \in Planner : sh[v].p # p
        /\ \A l \in Livreur : ans[l].p # p
    BY DEF SchInv, SchTypes, CreatePlan
  <1>1. h.days \in Periods /\ h.days \subseteq Days
    BY <1>0, PlanOfHandler DEF Days
  <1>2. h.p # NoPlan => \A x \in {"restore", "drop"} : [h EXCEPT !.pc = x] \in PlanHandlers /\ [h EXCEPT !.pc = x].pc = x
    BY <1>0, PlanOfHandler
  <1>3. CASE Taken(h.days)
    <2>1. UNCHANGED <<plans, shift, rest>> /\ Held(w, IF h.p = NoPlan THEN SIdle ELSE [h EXCEPT !.pc = "restore"])
      BY <1>3 DEF CreatePlan
    <2>2. PICK k \in PlanHandlers : Held(w, k) /\ k.pc \in {"idle", "restore"}
      BY <1>2, <2>1, PlanStates
    <2> QED BY <1>0, <2>1, <2>2, ReadsKeep
  <1>4. CASE ~Taken(h.days)
    <2>1. /\ plans' = [plans EXCEPT ![p] = [st |-> "DRAFT", days |-> h.days, late |-> FALSE]]
          /\ shift' = [shift EXCEPT ![p] = Assigned(h.days)]
          /\ rest' = [l \in Livreur |-> [d \in Days |->
                  IF rest[l][d] = "none" /\ d \in RestFor(l, h.days) THEN "AUTO" ELSE rest[l][d]]]
          /\ Held(w, IF h.p # NoPlan THEN [h EXCEPT !.pc = "drop"]
                     ELSE IF h.send THEN [pc |-> "send", p |-> p] ELSE SIdle)
      BY <1>4 DEF CreatePlan
    <2>2. PICK k \in PlanHandlers : Held(w, k) /\ k.pc \in {"idle", "drop", "send"}
      <3>1. CASE h.p # NoPlan
        BY <1>2, <2>1, <3>1
      <3>2. CASE h.p = NoPlan /\ h.send
        <4>1. Held(w, [pc |-> "send", p |-> p])
          BY <2>1, <3>2
        <4> QED BY <4>1, PlanStates
      <3>3. CASE h.p = NoPlan /\ ~h.send
        <4>1. Held(w, SIdle)
          BY <2>1, <3>3
        <4> QED BY <4>1, PlanStates
      <3> QED BY <3>1, <3>2, <3>3
    <2>3. PlannerMoves(w, k)
      BY <1>0, <2>2, PlannerServed
    <2>4. /\ sh' \in [Planner -> PlanHandlers]
          /\ \A v \in Planner : sh[v].p # p /\ (sh'[v] = sh[v] \/ sh'[v].pc \in {"idle", "drop", "send"})
      BY <1>0, <2>2, <2>3 DEF PlannerMoves
    <2>5. /\ Assigned(h.days) \in Shifts
          /\ \A l \in Livreur, d \in Days : Assigned(h.days)[l][d] # "none" => d \in h.days
      BY DEF Assigned, Shifts, ShiftState
    <2>6. rest' \in [Livreur -> [Days -> RestState]]
      BY <1>0, <2>1 DEF SchTypes, RestState
    <2> DEFINE days == h.days
    <2>7. days \subseteq Days /\ ~Taken(days)
      BY <1>1, <1>4
    <2>8. /\ plans' = [plans EXCEPT ![p] = [st |-> "DRAFT", days |-> days, late |-> FALSE]]
          /\ shift' = [shift EXCEPT ![p] = Assigned(days)] /\ Assigned(days) \in Shifts
          /\ \A l \in Livreur, d \in Days : Assigned(days)[l][d] # "none" => d \in days
      BY <2>1, <2>5
    <2> HIDE DEF days
    <2>9. /\ plans' \in [Plan -> PlanRow] /\ plans'[p].st = "DRAFT" /\ plans'[p].days = days
          /\ \A q \in Plan \ {p} : plans'[q] = plans[q]
      BY <1>0, <2>7, <2>8 DEF SchTypes, PlanRow, Active
    <2>10. /\ shift' \in [Plan -> Shifts] /\ shift'[p] = Assigned(days)
           /\ \A q \in Plan \ {p} : shift'[q] = shift[q]
      BY <1>0, <2>8 DEF SchTypes
    <2>11. \A l \in Livreur, d \in Days : shift'[p][l][d] # "none" => d \in plans'[p].days
      BY <2>8, <2>9, <2>10
    <2>12. ~Taken(plans'[p].days)
      BY <2>7, <2>9
    <2>13. SchInv'
      BY <1>0, <2>4, <2>6, <2>9, <2>10, <2>11, <2>12, PlanCreated
    <2>14. \A l \in Livreur, d \in Days : shift[p][l][d] = "none"
      BY <1>0 DEF SchInv, ShiftInv, NoRow
    <2>15. RefusalsKept
      BY <2>10, <2>14 DEF RefusalsKept
    <2> QED BY <2>13, <2>15 DEF PlanKept
  <1> QED BY <1>3, <1>4

LEMMA ConfirmLeftKeeps ==
  ASSUME SchInv, Plannings, NEW w \in Planner, ConfirmLeft(w)
  PROVE  PlanKept
  <1>0. PICK p \in Plan : p = sh[w].p
    BY PlanOfHandler DEF SchInv, ConfirmLeft
  <1> DEFINE S == [l \in Livreur |-> [d \in Days |->
                     IF shift[p][l][d] = "ASSIGNED" THEN "CONFIRMED" ELSE shift[p][l][d]]]
  <1>1. /\ SchTypes /\ byHand \subseteq Plan /\ UNCHANGED <<plans, rest, byHand, ans>>
        /\ shift' = [shift EXCEPT ![p] = S] /\ Held(w, [pc |-> "confirm", p |-> p])
    BY <1>0 DEF SchInv, SchTypes, ConfirmLeft
  <1>2. shift[p] \in Shifts
    BY <1>1 DEF SchTypes
  <1>3. /\ S \in Shifts
        /\ \A l \in Livreur, d \in Days : S[l][d] = IF shift[p][l][d] = "ASSIGNED" THEN "CONFIRMED" ELSE shift[p][l][d]
    BY <1>2 DEF Shifts, ShiftState
  <1> HIDE DEF S
  <1>4. /\ shift' \in [Plan -> Shifts] /\ shift'[p] = S
        /\ \A q \in Plan \ {p} : shift'[q] = shift[q]
    BY <1>1, <1>3 DEF SchTypes
  <1>5. PICK h \in PlanHandlers : Held(w, h) /\ h.pc = "confirm" /\ h.p = p
    BY <1>1, PlanStates
  <1>6. PlannerMoves(w, h)
    BY <1>1, <1>5, PlannerServed
  <1>7. \A l \in Livreur, d \in Days : shift'[p][l][d] # "ASSIGNED"
    BY <1>3, <1>4
  <1>8. /\ sh' \in [Planner -> PlanHandlers]
        /\ \A v \in Planner : sh'[v] = sh[v] \/ (sh'[v].pc = "confirm" /\ sh'[v].p = p)
    BY <1>5, <1>6 DEF PlannerMoves
  <1>9. /\ rest' \in [Livreur -> [Days -> RestState]] /\ ans' \in [Livreur -> GivenAnswers]
        /\ byHand \subseteq byHand' /\ byHand' \subseteq Plan /\ \A l \in Livreur : ans'[l] \in {ans[l], SIdle}
    BY <1>1 DEF SchTypes
  <1>10. \A l \in Livreur, d \in Days :
            /\ shift'[p][l][d] # "none" => d \in plans[p].days
            /\ shift'[p][l][d] = "REFUSED" => shift[p][l][d] = "REFUSED"
    BY <1>1, <1>3, <1>4 DEF SchInv, ShiftInv
  <1>11. SchInv'
    <2>1. \A v \in Planner : \/ sh'[v] = sh[v]
                             \/ /\ sh'[v].pc = "confirm" /\ sh'[v].p = p
                                /\ \A l \in Livreur, d \in Days : shift'[p][l][d] # "ASSIGNED"
      BY <1>7, <1>8
    <2> QED BY <1>1, <1>4, <1>7, <1>8, <1>9, <1>10, <2>1, ShiftsWritten
  <1>12. RefusalsKept
    BY <1>3, <1>4 DEF RefusalsKept
  <1> QED BY <1>11, <1>12 DEF PlanKept

(* One shift is written.                                                   *)
LEMMA ShiftWritten ==
  ASSUME SchTypes, NEW p \in Plan, NEW l \in Livreur, NEW d \in Days, NEW x \in ShiftState
  PROVE  /\ [shift EXCEPT ![p][l][d] = x] \in [Plan -> Shifts]
         /\ [shift EXCEPT ![p][l][d] = x][p][l][d] = x
         /\ \A q \in Plan \ {p} : [shift EXCEPT ![p][l][d] = x][q] = shift[q]
         /\ \A m \in Livreur, e \in Days :
               [shift EXCEPT ![p][l][d] = x][p][m][e] # shift[p][m][e] => m = l /\ e = d
  <1>1. shift \in [Plan -> Shifts]
    BY DEF SchTypes
  <1> QED BY <1>1 DEF Shifts

LEMMA EditionKeeps ==
  ASSUME SchInv, Plannings, NEW p \in Plan, NEW l \in Livreur, NEW d \in Days, setDelivererDayMode(p, l, d)
  PROVE  PlanKept
  <1>1. SchTypes /\ byHand \subseteq Plan /\ d \in plans[p].days /\ UNCHANGED <<plans, sh, ans>>
    BY DEF SchInv, SchTypes, setDelivererDayMode
  <1>2. PICK x \in {"none", "ASSIGNED", shift[p][l][d]} :
           /\ shift' = [shift EXCEPT ![p][l][d] = x]
           /\ x = "ASSIGNED" => p \in byHand'
           /\ shift[p][l][d] = "REFUSED" => x \in {"REFUSED", "none"}
    BY <1>1 DEF setDelivererDayMode, SchTypes, Shifts
  <1>3. x \in ShiftState
    BY <1>1 DEF SchTypes, Shifts, ShiftState
  <1>4. PICK y \in {"ADMIN", "none"} : rest' = [rest EXCEPT ![l][d] = y]
    BY DEF setDelivererDayMode
  <1>5. rest' \in [Livreur -> [Days -> RestState]]
    BY <1>1, <1>4 DEF SchTypes, RestState
  <1>6. byHand' \in {byHand, byHand \union {p}}
    BY DEF setDelivererDayMode
  <1>7. /\ shift' \in [Plan -> Shifts] /\ shift'[p][l][d] = x
        /\ \A q \in Plan \ {p} : shift'[q] = shift[q]
        /\ \A m \in Livreur, e \in Days : shift'[p][m][e] # shift[p][m][e] => m = l /\ e = d
    BY <1>1, <1>2, <1>3, ShiftWritten
  <1>8. \A m \in Livreur, e \in Days :
            /\ shift'[p][m][e] # "none" => e \in plans[p].days
            /\ shift'[p][m][e] = "ASSIGNED" => p \in byHand' \/ shift[p][m][e] = "ASSIGNED"
            /\ shift'[p][m][e] = "REFUSED" => shift[p][m][e] = "REFUSED"
    BY <1>1, <1>2, <1>7 DEF SchInv, ShiftInv
  <1>9. /\ ans' \in [Livreur -> GivenAnswers] /\ \A m \in Livreur : ans'[m] \in {ans[m], SIdle}
        /\ byHand \subseteq byHand' /\ byHand' \subseteq Plan /\ UNCHANGED <<plans, sh>>
    BY <1>1, <1>6 DEF SchTypes
  <1>10. SchInv'
    <2>1. shift' \in [Plan -> Shifts] /\ \A q \in Plan \ {p} : shift'[q] = shift[q]
      BY <1>7
    <2> QED BY <1>5, <1>8, <1>9, <2>1, ShiftsEdited
  <1>11. RefusalsKept
    <2>1. ASSUME NEW q \in Plan, NEW m \in Livreur, NEW e \in Days, shift[q][m][e] = "REFUSED"
          PROVE  shift'[q][m][e] \in {"REFUSED", "none"}
      <3>1. CASE q = p /\ m = l /\ e = d
        BY <1>2, <1>7, <2>1, <3>1
      <3>2. CASE ~(q = p /\ m = l /\ e = d)
        BY <1>7, <2>1, <3>2
      <3> QED BY <3>1, <3>2
    <2> QED BY <2>1 DEF RefusalsKept
  <1> QED BY <1>10, <1>11 DEF PlanKept

LEMMA AdditionKeeps ==
  ASSUME SchInv, Plannings, NEW p \in Plan, NEW l \in Livreur, addDelivererToPlan(p, l)
  PROVE  PlanKept
  <1> DEFINE A == Assigned(plans[p].days)[l]
  <1>1. /\ SchTypes /\ byHand \subseteq Plan /\ UNCHANGED <<plans, sh, ans>> /\ byHand' = byHand \union {p}
        /\ shift' = [shift EXCEPT ![p][l] = A] /\ \A d \in Days : shift[p][l][d] = "none"
        /\ rest' = [rest EXCEPT ![l] = [d \in Days |->
              IF @[d] = "none" /\ d \in RestFor(l, plans[p].days) THEN "AUTO" ELSE @[d]]]
    BY DEF SchInv, SchTypes, addDelivererToPlan
  <1>2. A \in [Days -> ShiftState] /\ \A d \in Days : A[d] # "none" => d \in plans[p].days
    BY DEF Assigned, ShiftState
  <1>3. rest' \in [Livreur -> [Days -> RestState]]
    BY <1>1 DEF SchTypes, RestState
  <1> HIDE DEF A
  <1>4. /\ shift' \in [Plan -> Shifts] /\ shift'[p][l] = A
        /\ \A q \in Plan \ {p} : shift'[q] = shift[q]
        /\ \A m \in Livreur \ {l} : shift'[p][m] = shift[p][m]
    BY <1>1, <1>2 DEF SchTypes, Shifts
  <1>5. \A d \in Days : A[d] # "REFUSED"
    BY DEF A, Assigned
  <1>6. \A m \in Livreur, e \in Days :
            /\ shift'[p][m][e] # "none" => e \in plans[p].days
            /\ shift'[p][m][e] = "REFUSED" => shift[p][m][e] = "REFUSED"
    <2>1. ASSUME NEW m \in Livreur, NEW e \in Days
          PROVE  /\ shift'[p][m][e] # "none" => e \in plans[p].days
                 /\ shift'[p][m][e] = "REFUSED" => shift[p][m][e] = "REFUSED"
      <3>1. CASE m = l
        BY <1>2, <1>4, <1>5, <3>1
      <3>2. CASE m # l
        BY <1>4, <3>2 DEF SchInv, ShiftInv
      <3> QED BY <3>1, <3>2
    <2> QED BY <2>1
  <1>7. /\ ans' \in [Livreur -> GivenAnswers] /\ \A m \in Livreur : ans'[m] \in {ans[m], SIdle}
        /\ byHand \subseteq byHand' /\ byHand' \subseteq Plan /\ p \in byHand' /\ UNCHANGED <<plans, sh>>
    BY <1>1 DEF SchTypes
  <1>8. SchInv'
    BY <1>3, <1>4, <1>6, <1>7, ShiftsEdited
  <1>9. RefusalsKept
    <2>1. ASSUME NEW q \in Plan, NEW m \in Livreur, NEW e \in Days, shift[q][m][e] = "REFUSED"
          PROVE  shift'[q][m][e] = "REFUSED"
      <3>1. q # p \/ m # l
        BY <1>1, <2>1
      <3> QED BY <1>4, <2>1, <3>1
    <2> QED BY <2>1 DEF RefusalsKept
  <1> QED BY <1>8, <1>9 DEF PlanKept

LEMMA ReadShiftKeeps ==
  ASSUME SchInv, Plannings, NEW l \in Livreur, NEW p \in Plan, NEW d \in Days, ReadShift(l, p, d)
  PROVE  PlanKept
  <1>1. SchTypes /\ UNCHANGED <<plans, shift, rest, byHand, sh>> /\ shift[p][l][d] = "ASSIGNED"
    BY DEF SchInv, ReadShift
  <1>2. PICK x \in {"CONFIRMED", "REFUSED"} : ans' = [ans EXCEPT ![l] = [pc |-> x, p |-> p, d |-> d]]
    BY DEF ReadShift
  <1>3. PICK a \in GivenAnswers : ans' = [ans EXCEPT ![l] = a] /\ a.p = p /\ a.d = d
    <2>1. /\ [pc |-> x, p |-> p, d |-> d] \in GivenAnswers
          /\ [pc |-> x, p |-> p, d |-> d].p = p /\ [pc |-> x, p |-> p, d |-> d].d = d
      BY DEF GivenAnswers
    <2> QED BY <1>2, <2>1
  <1>4. ans' \in [Livreur -> GivenAnswers] /\ ans'[l] = a /\ \A m \in Livreur \ {l} : ans'[m] = ans[m]
    BY <1>1, <1>3 DEF SchTypes
  <1>5. SchTypes'
    BY <1>1, <1>4 DEF SchTypes
  <1>6. AnsInv'
    <2>1. ASSUME NEW m \in Livreur, ans'[m] # SIdle PROVE shift[ans'[m].p][m][ans'[m].d] # "REFUSED"
      <3>1. CASE m = l
        BY <1>1, <1>3, <1>4, <3>1
      <3>2. CASE m # l
        BY <1>4, <2>1, <3>2 DEF SchInv, AnsInv
      <3> QED BY <3>1, <3>2
    <2> QED BY <1>1, <2>1 DEF AnsInv
  <1>7. ShiftInv' /\ ConfirmInv' /\ OnePlanPerStart' /\ ClosedIsAnswered' /\ RefusalsKept
    BY <1>1 DEF SchInv, ShiftInv, ConfirmInv, Confirmable, NoneWaits, OnePlanPerStart, ClosedIsAnswered, RefusalsKept
  <1> QED BY <1>5, <1>6, <1>7 DEF SchInv, PlanKept

LEMMA AnswerKeeps ==
  ASSUME SchInv, Plannings, NEW l \in Livreur, Answer(l)
  PROVE  PlanKept
  <1> DEFINE a == ans[l]
  <1>1. /\ SchTypes /\ byHand \subseteq Plan /\ a # SIdle /\ UNCHANGED <<plans, rest, byHand, sh>>
        /\ ans' = [ans EXCEPT ![l] = SIdle]
        /\ shift' = IF shift[a.p][l][a.d] = "none" THEN shift ELSE [shift EXCEPT ![a.p][l][a.d] = a.pc]
    BY DEF SchInv, SchTypes, Answer
  <1>2. a.p \in Plan /\ a.d \in Days /\ a.pc \in {"CONFIRMED", "REFUSED"}
    BY <1>1 DEF SchTypes, GivenAnswers, SIdle
  <1>3. shift[a.p][l][a.d] # "REFUSED"
    BY <1>1 DEF SchInv, AnsInv
  <1>4. ans' \in [Livreur -> GivenAnswers] /\ ans'[l] = SIdle /\ \A m \in Livreur \ {l} : ans'[m] = ans[m]
    BY <1>1, PlanStates DEF SchTypes
  <1>5. PICK p \in Plan, d \in Days, x \in {"CONFIRMED", "REFUSED"} : p = a.p /\ d = a.d /\ x = a.pc
    BY <1>2
  <1>6. /\ shift' = IF shift[p][l][d] = "none" THEN shift ELSE [shift EXCEPT ![p][l][d] = x]
        /\ shift[p][l][d] # "REFUSED"
    BY <1>1, <1>3, <1>5
  <1> HIDE DEF a
  <1>7. /\ shift' \in [Plan -> Shifts] /\ shift'[p][l][d] \in {"none", "CONFIRMED", "REFUSED"}
        /\ shift'[p][l][d] # "none" => shift[p][l][d] # "none"
        /\ \A q \in Plan \ {p} : shift'[q] = shift[q]
        /\ \A m \in Livreur, e \in Days : shift'[p][m][e] # shift[p][m][e] => m = l /\ e = d
    <2>1. CASE shift[p][l][d] = "none"
      BY <1>1, <1>6, <2>1 DEF SchTypes
    <2>2. CASE shift[p][l][d] # "none"
      <3>1. shift' = [shift EXCEPT ![p][l][d] = x] /\ x \in ShiftState
        BY <1>6, <2>2 DEF ShiftState
      <3>2. /\ shift' \in [Plan -> Shifts] /\ shift'[p][l][d] = x
            /\ \A q \in Plan \ {p} : shift'[q] = shift[q]
            /\ \A m \in Livreur, e \in Days : shift'[p][m][e] # shift[p][m][e] => m = l /\ e = d
        <4>1. SchTypes
          BY <1>1
        <4> QED BY <3>1, <4>1, ShiftWritten
      <3> QED BY <2>2, <3>2
    <2> QED BY <2>1, <2>2
  <1>8. \A m \in Livreur, e \in Days :
            /\ shift'[p][m][e] # "none" => e \in plans[p].days
            /\ shift'[p][m][e] = "ASSIGNED" => shift[p][m][e] = "ASSIGNED"
            /\ shift'[p][m][e] = "REFUSED" => shift[p][m][e] = "REFUSED" \/ ans'[m] = SIdle
    BY <1>4, <1>7 DEF SchInv, ShiftInv
  <1>9. /\ rest' \in [Livreur -> [Days -> RestState]] /\ \A m \in Livreur : ans'[m] \in {ans[m], SIdle}
        /\ byHand \subseteq byHand' /\ byHand' \subseteq Plan /\ UNCHANGED <<plans, sh>>
    BY <1>1, <1>4 DEF SchTypes
  <1>10. SchInv'
    BY <1>4, <1>7, <1>8, <1>9, ShiftsEdited
  <1>11. RefusalsKept
    <2>1. ASSUME NEW q \in Plan, NEW m \in Livreur, NEW e \in Days, shift[q][m][e] = "REFUSED"
          PROVE  shift'[q][m][e] = "REFUSED"
      <3>1. q # p \/ m # l \/ e # d
        BY <1>6, <2>1
      <3> QED BY <1>7, <2>1, <3>1
    <2> QED BY <2>1 DEF RefusalsKept
  <1> QED BY <1>10, <1>11 DEF PlanKept

LEMMA RestDaysKeep ==
  ASSUME SchInv, NEW l \in Livreur, NEW d \in Days, addRestDay(l, d) \/ removeRestDay(l, d)
  PROVE  PlanKept
  <1>1. UNCHANGED <<plans, shift, byHand, sh, ans>> /\ SchTypes
    BY DEF addRestDay, removeRestDay, SchInv
  <1>2. PICK x \in {"SELF", "none"} : rest' = [rest EXCEPT ![l][d] = x]
    BY DEF addRestDay, removeRestDay
  <1>3. SchTypes'
    BY <1>1, <1>2 DEF SchTypes, RestState
  <1>4. ShiftInv' /\ AnsInv' /\ ConfirmInv' /\ OnePlanPerStart' /\ ClosedIsAnswered' /\ RefusalsKept
    BY <1>1 DEF SchInv, ShiftInv, AnsInv, ConfirmInv, Confirmable, NoneWaits, OnePlanPerStart, ClosedIsAnswered,
                RefusalsKept
  <1> QED BY <1>3, <1>4 DEF SchInv, PlanKept

LEMMA PlanStep == ASSUME Plannings PROVE SchInv /\ [SchNext]_svars => PlanKept
  <1> SUFFICES ASSUME SchInv, [SchNext]_svars PROVE PlanKept
    OBVIOUS
  <1>1. CASE UNCHANGED svars
    BY <1>1 DEF svars, SchInv, SchTypes, ShiftInv, AnsInv, ConfirmInv, Confirmable, NoneWaits, OnePlanPerStart, Taken,
                ClosedIsAnswered, RefusalsKept, PlanKept
  <1>2. ASSUME NEW w \in Planner,
               \/ sendPlan(w) \/ MarkSent(w) \/ ConfirmLeft(w) \/ confirmPlan(w) \/ MarkConfirmed(w)
               \/ deletePlan(w) \/ SetAside(w) \/ regeneratePlan(w) \/ DropOld(w) \/ RestoreOld(w)
               \/ Halt(w)
        PROVE  PlanKept
    BY <1>2, StepsKeep, WritesKeep, ConfirmLeftKeeps, DropsKeep, SetAsideKeeps
  <1>3. ASSUME NEW w \in Planner, NEW days \in Periods,
               \/ StartGenerate(w, days) \/ autoSendWeeklyPlans(w, days)
               \/ \E p \in Plan : StartRegenerate(w, p, days)
        PROVE  PlanKept
    BY <1>3, GenerateKeeps, RegenerateKeeps
  <1>4. ASSUME NEW w \in Planner, NEW p \in Plan,
               \/ CreatePlan(w, p) \/ StartSend(w, p) \/ closeOverduePlans(w, p) \/ StartConfirm(w, p)
               \/ StartDelete(w, p)
        PROVE  PlanKept
    BY <1>4, CreateKeeps, StartsKeep
  <1>5. ASSUME NEW p \in Plan, DeadlinePasses(p) \/ archivePlan(p) \/ \E l \in Livreur : addDelivererToPlan(p, l)
        PROVE  PlanKept
    BY <1>5, StatusKeeps, AdditionKeeps
  <1>6. ASSUME NEW l \in Livreur, NEW d \in Days,
               \/ addRestDay(l, d) \/ removeRestDay(l, d)
               \/ \E p \in Plan : setDelivererDayMode(p, l, d) \/ ReadShift(l, p, d)
        PROVE  PlanKept
    BY <1>6, RestDaysKeep, EditionKeeps, ReadShiftKeeps
  <1>7. ASSUME NEW l \in Livreur, Answer(l) PROVE PlanKept
    BY <1>7, AnswerKeeps
  <1> QED BY <1>1, <1>2, <1>3, <1>4, <1>5, <1>6, <1>7 DEF SchNext

LEMMA PlansHold == ASSUME Plannings PROVE SchSpec => []SchInv
  <1>1. SchInv /\ [SchNext]_svars => SchInv'
    BY PlanStep DEF PlanKept
  <1> QED BY <1>1, PlanStart, PTL DEF SchSpec

(* Types, and the shifts of a plan lie in its days (`generatePlan`,        *)
(* `setDelivererDayMode`, `addDelivererToPlan`, `deletePlan`).             *)
THEOREM PlanningTypes == ASSUME Plannings PROVE SchSpec => []SchTypeOK
  <1>1. SchInv => SchTypeOK
    BY DEF SchInv, SchTypes, ShiftInv, SchTypeOK, PlanRow, Shifts, ShiftState, RestState
  <1> QED BY <1>1, PlansHold, PTL

(* However the back office and the crons generate, regenerate, send, close *)
(* and delete, and wherever they are interrupted: no two plans in force    *)
(* begin on one day (the unique index of the active plans), and a plan the *)
(* deadline has confirmed leaves no shift without an answer                *)
(* (`closeOverduePlans`).                                                  *)
THEOREM PlanningsAgree == ASSUME Plannings PROVE SchSpec => [](OnePlanPerStart /\ ClosedIsAnswered)
  <1>1. SchInv => OnePlanPerStart /\ ClosedIsAnswered
    BY DEF SchInv
  <1> QED BY <1>1, PlansHold, PTL

(* A shift that the livreur refused stays refused, although his answer and *)
(* the deadline write by id what they have read before                     *)
(* (`acceptAssignment`, `refuseAssignment`, `closeOverduePlans`).          *)
THEOREM RefusalsStay == ASSUME Plannings PROVE SchSpec => RefusalIsFinal
  <1>1. SchInv /\ [SchNext]_svars => [RefusalsKept]_svars
    BY PlanStep DEF PlanKept
  <1>2. SchSpec => [][RefusalsKept]_svars
    BY <1>1, PlansHold, PTL DEF SchSpec
  <1> QED BY <1>2 DEF RefusalIsFinal, RefusalsKept

-----------------------------------------------------------------------------
(* The combo game                                                          *)

Combo == IsFiniteSet(Player) /\ MaxAttempts \in Nat /\ WinnersCount \in Nat

GProcess == Front \union Backend \union Office
GSteps == {"idle", "try", "open", "close", "due", "claim", "draw", "gift", "record", "edit", "remove", "delete"}
GStatus == {"none", "SCHEDULED", "OPEN", "CLOSED", "SETTLED", "deleted"}

GTypes ==
    /\ \E W : game \in [status : GStatus, window : W]
    /\ \E D : gh \in [GProcess -> [pc : GSteps, player : Player \union {Somebody}, data : D]]
    /\ tries \in [Player -> Nat] /\ found \in [Player -> BOOLEAN]
    /\ told \in Nat /\ draws \in Nat
    /\ winners \in SUBSET Player /\ gifts \in [Player -> Nat]
    /\ crossed \in SUBSET Player /\ undone \in BOOLEAN
    /\ \A w \in GProcess :
          /\ gh[w].pc = "try" => w \in Front /\ gh[w].player \in Player
          /\ gh[w].pc \in {"gift", "record"} => w \in Backend /\ gh[w].data \in SUBSET Player
          /\ gh[w].pc = "record" => gh[w].player \in Player

(* The opening is told when the game leaves its first states.              *)
OpeningInv == told <= 1 /\ (game.status \in {"none", "SCHEDULED"} => told = 0)

(* An attempt in flight of a player who makes one at a time has its place. *)
Trying(w, p) == gh[w].pc = "try" /\ gh[w].player = p
TryInv == \A p \in Player \ crossed :
    /\ tries[p] <= MaxAttempts
    /\ \A w \in GProcess : Trying(w, p) => tries[p] < MaxAttempts
    /\ \A v, w \in GProcess : Trying(v, p) /\ Trying(w, p) => v = w

(* Who is drawn has found the combination.                                 *)
Found == {p \in Player : found[p]}
FoundInv ==
    /\ winners \subseteq Found
    /\ game.status = "deleted" => winners = {}
    /\ game.status # "deleted" =>
         \A w \in GProcess :
            /\ gh[w].pc \in {"gift", "record"} => gh[w].data \subseteq Found
            /\ gh[w].pc = "record" => gh[w].player \in Found

(* One process settles the game: what it has drawn, given and recorded.    *)
Drawing(w) == gh[w].pc \in {"draw", "gift", "record"}
Announced == Max({1, WinnersCount})
Gifted == {p \in Player : gifts[p] > 0}
SettleInv ==
    /\ \A v, w \in GProcess : Drawing(v) /\ Drawing(w) => v = w
    /\ game.status # "SETTLED" => draws = 0 /\ \A w \in GProcess : ~Drawing(w)
    /\ draws <= 1
    /\ draws = 0 => winners = {} /\ Gifted = {}
    /\ Cardinality(winners) <= Announced
    /\ \A p \in Player : gifts[p] <= 1
    /\ \A w \in GProcess :
          /\ gh[w].pc = "draw" => draws = 0
          /\ gh[w].pc \in {"gift", "record"} => draws = 1
          /\ gh[w].pc = "gift" =>
               /\ gh[w].data \intersect Gifted = {}
               /\ Cardinality(winners) + Cardinality(gh[w].data) <= Announced
          /\ gh[w].pc = "record" =>
               /\ gh[w].data \intersect Gifted = {}
               /\ gh[w].player \in Gifted /\ winners = Gifted \ {gh[w].player}
               /\ Cardinality(winners) + 1 + Cardinality(gh[w].data) <= Announced
    /\ (\A w \in GProcess : gh[w].pc # "record") => winners = Gifted

ComboInv == GTypes /\ OpeningInv /\ TryInv /\ FoundInv /\ (~undone => SettleInv)

(* A process goes on.                                                      *)
GMoves(w, x, y, z) ==
    /\ \E D : gh' \in [GProcess -> [pc : GSteps, player : Player \union {Somebody}, data : D]]
    /\ gh'[w].pc = x /\ gh'[w].player = y /\ gh'[w].data = z
    /\ \A v \in GProcess \ {w} : gh'[v] = gh[v]

LEMMA GMoved ==
  ASSUME GTypes, NEW w \in GProcess, NEW x \in GSteps, NEW y \in Player \union {Somebody}, NEW z,
         gh' = [gh EXCEPT ![w] = [pc |-> x, player |-> y, data |-> z]]
  PROVE  GMoves(w, x, y, z)
  <1>1. PICK D : gh \in [GProcess -> [pc : GSteps, player : Player \union {Somebody}, data : D]]
    BY DEF GTypes
  <1>2. PICK E : D \subseteq E /\ z \in E
    <2>1. D \subseteq D \union {z} /\ z \in D \union {z}
      OBVIOUS
    <2> QED BY <2>1
  <1>3. [pc |-> x, player |-> y, data |-> z] \in [pc : GSteps, player : Player \union {Somebody}, data : E]
    BY <1>2
  <1>4. gh \in [GProcess -> [pc : GSteps, player : Player \union {Somebody}, data : E]]
    BY <1>1, <1>2
  <1>5. gh' \in [GProcess -> [pc : GSteps, player : Player \union {Somebody}, data : E]]
    BY <1>3, <1>4
  <1>6. gh'[w] = [pc |-> x, player |-> y, data |-> z] /\ \A v \in GProcess \ {w} : gh'[v] = gh[v]
    BY <1>1
  <1> QED BY <1>5, <1>6 DEF GMoves

LEMMA GToMoves ==
  ASSUME GTypes, NEW w \in GProcess, NEW x \in GSteps, GTo(w, x)
  PROVE  GMoves(w, x, gh[w].player, gh[w].data)
  <1>1. PICK D : gh \in [GProcess -> [pc : GSteps, player : Player \union {Somebody}, data : D]]
    BY DEF GTypes
  <1>2. [gh[w] EXCEPT !.pc = x] = [pc |-> x, player |-> gh[w].player, data |-> gh[w].data]
    BY <1>1
  <1>3. gh' = [gh EXCEPT ![w] = [pc |-> x, player |-> gh[w].player, data |-> gh[w].data]]
    BY <1>1, <1>2 DEF GTo
  <1>4. gh[w].player \in Player \union {Somebody}
    BY <1>1
  <1> QED BY <1>3, <1>4, GMoved

LEMMA GRestMoves ==
  ASSUME GTypes, NEW w \in GProcess, GRest(w)
  PROVE  GMoves(w, "idle", Somebody, 0)
  BY GMoved DEF GRest, GIdle, GSteps

LEMMA GAnnounced ==
  ASSUME Combo
  PROVE  Announced \in Nat /\ Announced >= 1
  <1>1. PICK m \in {1, WinnersCount} : \A y \in {1, WinnersCount} : m >= y
    <2>1. CASE 1 >= WinnersCount
      BY <2>1 DEF Combo
    <2>2. CASE WinnersCount >= 1
      BY <2>2 DEF Combo
    <2> QED BY <2>1, <2>2 DEF Combo
  <1>2. /\ Announced \in {1, WinnersCount} /\ \A y \in {1, WinnersCount} : Announced >= y
    BY <1>1 DEF Announced, Max
  <1> QED BY <1>2 DEF Combo

LEMMA GStart == ASSUME Combo PROVE GInit => ComboInv
  <1> SUFFICES ASSUME GInit PROVE ComboInv
    OBVIOUS
  <1>1. /\ game.status = "none" /\ winners = {} /\ told = 0 /\ draws = 0 /\ undone = FALSE
        /\ \A w \in GProcess : gh[w].pc = "idle"
    BY DEF GInit, NoGame, GIdle, GProcess
  <1>2. GTypes
    <2>1. game \in [status : GStatus, window : {<<0, 0>>}]
      BY DEF GInit, NoGame, GStatus
    <2>2. gh \in [GProcess -> [pc : GSteps, player : Player \union {Somebody}, data : {0}]]
      BY DEF GInit, GIdle, GProcess, GSteps
    <2>3. /\ tries \in [Player -> Nat] /\ found \in [Player -> BOOLEAN] /\ gifts \in [Player -> Nat]
          /\ crossed \in SUBSET Player
      BY DEF GInit
    <2>4. \E W : game \in [status : GStatus, window : W]
      BY <2>1
    <2>5. \E D : gh \in [GProcess -> [pc : GSteps, player : Player \union {Somebody}, data : D]]
      BY <2>2
    <2> QED BY <1>1, <2>3, <2>4, <2>5 DEF GTypes
  <1>3. OpeningInv /\ TryInv /\ FoundInv
    BY <1>1 DEF Combo, GInit, OpeningInv, TryInv, FoundInv, Trying
  <1>4. Gifted = {}
    BY DEF GInit, Gifted
  <1>5. Cardinality(winners) = 0
    BY <1>1, FS_EmptySet
  <1>6. SettleInv
    BY <1>1, <1>4, <1>5, GAnnounced DEF SettleInv, Drawing, GInit
  <1> QED BY <1>2, <1>3, <1>6 DEF ComboInv

(* What a step leaves as it is, when one process goes on.                  *)
LEMMA GTypesKept ==
  ASSUME GTypes, NEW w \in GProcess, NEW x \in GSteps, NEW y, NEW z, GMoves(w, x, y, z),
         x = "try" => w \in Front /\ y \in Player,
         x \in {"gift", "record"} => w \in Backend /\ z \in SUBSET Player,
         x = "record" => y \in Player,
         \E W : game' \in [status : GStatus, window : W],
         tries' \in [Player -> Nat], found' \in [Player -> BOOLEAN], told' \in Nat, draws' \in Nat,
         winners' \in SUBSET Player, gifts' \in [Player -> Nat], crossed' \in SUBSET Player,
         undone' \in BOOLEAN
  PROVE  GTypes'
  <1>1. \E D : gh' \in [GProcess -> [pc : GSteps, player : Player \union {Somebody}, data : D]]
    BY DEF GMoves
  <1>2. ASSUME NEW v \in GProcess
        PROVE  /\ gh'[v].pc = "try" => v \in Front /\ gh'[v].player \in Player
               /\ gh'[v].pc \in {"gift", "record"} => v \in Backend /\ gh'[v].data \in SUBSET Player
               /\ gh'[v].pc = "record" => gh'[v].player \in Player
    <2>1. CASE v = w
      BY <2>1 DEF GMoves
    <2>2. CASE v # w
      BY <2>2 DEF GMoves, GTypes
    <2> QED BY <2>1, <2>2
  <1> QED BY <1>1, <1>2 DEF GTypes

LEMMA GSettleKept ==
  ASSUME SettleInv, NEW w \in GProcess, NEW x \in GSteps \ {"draw", "gift", "record"}, NEW y, NEW z,
         GMoves(w, x, y, z), ~Drawing(w), UNCHANGED <<winners, gifts, draws>>,
         game'.status # "SETTLED" => game.status # "SETTLED"
  PROVE  SettleInv'
  <1>1. \A v \in GProcess : \/ gh'[v] = gh[v]
                            \/ ~Drawing(v) /\ gh'[v].pc \notin {"draw", "gift", "record"}
    BY DEF GMoves
  <1>2. Gifted' = Gifted
    BY DEF Gifted
  <1> QED BY <1>1, <1>2 DEF SettleInv, Drawing

LEMMA GTryKept ==
  ASSUME TryInv, NEW w \in GProcess, NEW x \in GSteps \ {"try"}, NEW y, NEW z,
         GMoves(w, x, y, z), UNCHANGED tries, crossed \subseteq crossed'
  PROVE  TryInv'
  <1>1. \A v \in GProcess : \A p \in Player : Trying(v, p)' => Trying(v, p)
    BY DEF GMoves, Trying
  <1> QED BY <1>1 DEF TryInv

LEMMA GFoundKept ==
  ASSUME GTypes, FoundInv, NEW w \in GProcess, NEW x \in GSteps \ {"gift", "record"}, NEW y, NEW z,
         GMoves(w, x, y, z), UNCHANGED winners, \A p \in Player : found[p] => found'[p],
         game'.status = "deleted" <=> game.status = "deleted"
  PROVE  FoundInv'
  <1>1. Found \subseteq Found'
    BY DEF Found
  <1>2. \A v \in GProcess : gh'[v] = gh[v] \/ gh'[v].pc \notin {"gift", "record"}
    BY DEF GMoves
  <1> QED BY <1>1, <1>2 DEF FoundInv

LEMMA GQuiet ==
  ASSUME ComboInv, NEW w \in GProcess, NEW x \in GSteps \ {"try", "draw", "gift", "record"}, NEW y, NEW z,
         GMoves(w, x, y, z), ~Drawing(w),
         \E W : game' \in [status : GStatus, window : W],
         game'.status = "deleted" <=> game.status = "deleted",
         undone' \in BOOLEAN, undone => undone',
         undone' \/ (game'.status # "SETTLED" => game.status # "SETTLED"),
         told' \in Nat, OpeningInv', UNCHANGED <<tries, found, winners, gifts, draws, crossed>>
  PROVE  ComboInv'
  <1>1. GTypes'
    BY GTypesKept DEF ComboInv, GTypes
  <1>2. TryInv'
    BY GTryKept DEF ComboInv
  <1>3. FoundInv'
    BY GFoundKept DEF ComboInv
  <1>4. ~undone' => SettleInv'
    BY GSettleKept DEF ComboInv
  <1> QED BY <1>1, <1>2, <1>3, <1>4 DEF ComboInv

-----------------------------------------------------------------------------
(* The customers.                                                          *)
LEMMA StartAttemptKeeps ==
  ASSUME Combo, ComboInv, NEW w \in Front, NEW p \in Player, StartAttempt(w, p)
  PROVE  ComboInv'
  <1> DEFINE others == \E v \in Front : gh[v].player = p
  <1>0. w \in GProcess /\ GTypes
    BY DEF GProcess, ComboInv
  <1>1. GMoves(w, "try", p, tick)
    BY <1>0, GMoved DEF StartAttempt, GSteps
  <1>2. gh[w].pc = "idle"
    BY DEF StartAttempt, GIdle
  <1>3. /\ UNCHANGED <<game, tries, found, told, draws, winners, gifts, undone>>
        /\ tries[p] < MaxAttempts /\ crossed' = IF others THEN crossed \union {p} ELSE crossed
    BY DEF StartAttempt
  <1> HIDE DEF others
  <1>4. crossed \subseteq crossed' /\ crossed' \in SUBSET Player /\ (others => p \in crossed')
    BY <1>0, <1>3 DEF GTypes
  <1>5. GTypes'
    <2>1. "try" \in GSteps
      BY DEF GSteps
    <2> QED BY <1>0, <1>1, <1>3, <1>4, <2>1, GTypesKept DEF GTypes
  <1>6. OpeningInv'
    BY <1>3 DEF ComboInv, OpeningInv
  <1>7. TryInv'
    <2>1. ASSUME NEW q \in Player \ crossed'
          PROVE  /\ tries'[q] <= MaxAttempts
                 /\ \A v \in GProcess : Trying(v, q)' => tries'[q] < MaxAttempts
                 /\ \A u, v \in GProcess : Trying(u, q)' /\ Trying(v, q)' => u = v
      <3>1. q \notin crossed /\ tries' = tries
        BY <1>3, <1>4, <2>1
      <3>2. CASE q # p
        <4>1. \A v \in GProcess : Trying(v, q)' => Trying(v, q)
          BY <1>1, <3>2 DEF GMoves, Trying
        <4> QED BY <3>1, <4>1 DEF ComboInv, TryInv
      <3>3. CASE q = p
        <4>1. ~others
          BY <1>4, <2>1, <3>3
        <4>2. \A v \in GProcess : ~Trying(v, p)
          BY <1>0, <4>1 DEF GTypes, Trying, others
        <4>3. \A v \in GProcess : Trying(v, q)' => v = w
          BY <1>1, <3>3, <4>2 DEF GMoves, Trying
        <4> QED BY <1>3, <3>1, <3>3, <4>3 DEF ComboInv, TryInv
      <3> QED BY <3>2, <3>3
    <2> QED BY <2>1 DEF TryInv
  <1>8. FoundInv'
    BY <1>0, <1>1, <1>3, GFoundKept DEF ComboInv, GSteps
  <1>9. ~undone' => SettleInv'
    BY <1>0, <1>1, <1>2, <1>3, GSettleKept DEF ComboInv, GSteps, Drawing
  <1> QED BY <1>5, <1>6, <1>7, <1>8, <1>9 DEF ComboInv

LEMMA SubmitAttemptKeeps ==
  ASSUME Combo, ComboInv, NEW w \in Front, submitAttempt(w)
  PROVE  ComboInv'
  <1> DEFINE p == gh[w].player
  <1>0. w \in GProcess /\ GTypes
    BY DEF GProcess, ComboInv
  <1>1. GMoves(w, "idle", Somebody, 0)
    BY <1>0, GRestMoves DEF submitAttempt
  <1>2. gh[w].pc = "try" /\ p \in Player /\ Trying(w, p)
    BY <1>0 DEF submitAttempt, GAt, GTypes, Trying
  <1>3. UNCHANGED <<game, told, draws, winners, gifts, crossed, undone>>
    BY DEF submitAttempt
  <1>4. "idle" \in GSteps
    BY DEF GSteps
  <1>5. /\ tries' \in [Player -> Nat] /\ tries'[p] \in {tries[p], tries[p] + 1}
        /\ \A q \in Player \ {p} : tries'[q] = tries[q]
    <2>1. CASE game.status = "deleted"
      BY <1>0, <1>2, <2>1 DEF submitAttempt, GTypes
    <2>2. CASE game.status # "deleted"
      <3>1. tries' = [tries EXCEPT ![p] = tries[p] + 1] /\ tries \in [Player -> Nat]
        BY <1>0, <2>2 DEF submitAttempt, GTypes
      <3> HIDE DEF p
      <3> QED BY <1>2, <3>1
    <2> QED BY <2>1, <2>2
  <1>6. found' \in [Player -> BOOLEAN] /\ \A q \in Player : found[q] => found'[q]
    <2>1. CASE game.status = "deleted"
      BY <1>0, <2>1 DEF submitAttempt, GTypes
    <2>2. CASE game.status # "deleted"
      <3>1. PICK right \in BOOLEAN : found' = [found EXCEPT ![p] = found[p] \/ right]
        BY <2>2 DEF submitAttempt
      <3>2. found \in [Player -> BOOLEAN]
        BY <1>0 DEF GTypes
      <3>3. \A x \in BOOLEAN : found' = [found EXCEPT ![p] = x] => found' \in [Player -> BOOLEAN]
        BY <3>2
      <3>4. found' \in [Player -> BOOLEAN]
        BY <1>2, <3>1, <3>2, <3>3
      <3>5. ASSUME NEW q \in Player, found[q] PROVE found'[q]
        <4>1. CASE q = p
          BY <3>1, <3>2, <3>5, <4>1
        <4>2. CASE q # p
          BY <3>1, <3>2, <3>5, <4>2
        <4> QED BY <4>1, <4>2
      <3> QED BY <3>4, <3>5
    <2> QED BY <2>1, <2>2
  <1> HIDE DEF p
  <1>7. GTypes'
    BY <1>0, <1>1, <1>3, <1>4, <1>5, <1>6, GTypesKept DEF GTypes
  <1>8. OpeningInv'
    BY <1>3 DEF ComboInv, OpeningInv
  <1>9. TryInv'
    <2>1. \A v \in GProcess : \A q \in Player : Trying(v, q)' => v # w /\ Trying(v, q)
      BY <1>1 DEF GMoves, Trying
    <2>2. ASSUME NEW q \in Player \ crossed'
          PROVE  /\ tries'[q] <= MaxAttempts
                 /\ \A v \in GProcess : Trying(v, q)' => tries'[q] < MaxAttempts
                 /\ \A u, v \in GProcess : Trying(u, q)' /\ Trying(v, q)' => u = v
      <3>1. /\ tries[q] \in Nat /\ tries[q] <= MaxAttempts
            /\ \A v \in GProcess : Trying(v, q) => tries[q] < MaxAttempts
            /\ \A u, v \in GProcess : Trying(u, q) /\ Trying(v, q) => u = v
        BY <1>0, <1>3 DEF ComboInv, TryInv, GTypes
      <3>2. CASE q = p
        <4>1. \A v \in GProcess : ~Trying(v, q)'
          BY <1>0, <1>2, <2>1, <3>1, <3>2
        <4>2. tries[q] < MaxAttempts
          BY <1>0, <1>2, <3>1, <3>2
        <4> QED BY <1>5, <3>1, <3>2, <4>1, <4>2 DEF Combo
      <3>3. CASE q # p
        BY <1>5, <2>1, <3>1, <3>3
      <3> QED BY <3>2, <3>3
    <2> QED BY <2>2 DEF TryInv
  <1>10. FoundInv'
    BY <1>0, <1>1, <1>3, <1>4, <1>6, GFoundKept DEF ComboInv
  <1>11. ~undone' => SettleInv'
    BY <1>0, <1>1, <1>2, <1>3, <1>4, GSettleKept DEF ComboInv, Drawing
  <1> QED BY <1>7, <1>8, <1>9, <1>10, <1>11 DEF ComboInv

(* A row that is written keeps its shape.                                  *)
LEMMA GRowWritten ==
  ASSUME GTypes
  PROVE  /\ \E W : game \in [status : GStatus, window : W]
         /\ \A x \in GStatus : /\ \E W : [game EXCEPT !.status = x] \in [status : GStatus, window : W]
                               /\ [game EXCEPT !.status = x].status = x
         /\ \A y : /\ \E W : [game EXCEPT !.window = y] \in [status : GStatus, window : W]
                   /\ [game EXCEPT !.window = y].status = game.status
  <1>1. PICK W : game \in [status : GStatus, window : W]
    BY DEF GTypes
  <1>2. ASSUME NEW x \in GStatus
        PROVE  /\ \E V : [game EXCEPT !.status = x] \in [status : GStatus, window : V]
               /\ [game EXCEPT !.status = x].status = x
    <2>1. [game EXCEPT !.status = x] \in [status : GStatus, window : W] /\ [game EXCEPT !.status = x].status = x
      BY <1>1
    <2> QED BY <2>1
  <1>3. ASSUME NEW y
        PROVE  /\ \E V : [game EXCEPT !.window = y] \in [status : GStatus, window : V]
               /\ [game EXCEPT !.window = y].status = game.status
    <2>1. [game EXCEPT !.window = y] \in [status : GStatus, window : {y}]
      BY <1>1
    <2>2. [game EXCEPT !.window = y].status = game.status
      BY <1>1
    <2> QED BY <2>1, <2>2
  <1> QED BY <1>1, <1>2, <1>3

LEMMA StartLifecycleKeeps ==
  ASSUME Combo, ComboInv, NEW w \in Backend, StartLifecycle(w)
  PROVE  ComboInv'
  <1> DEFINE x == IF game.status = "SCHEDULED" /\ InWindow(game, tick) THEN "open" ELSE "close"
  <1>1. w \in GProcess /\ GTypes /\ OpeningInv
    BY DEF GProcess, ComboInv
  <1>2. x \in {"open", "close"}
    OBVIOUS
  <1>3. gh' = [gh EXCEPT ![w] = [pc |-> x, player |-> Somebody, data |-> tick]] /\ gh[w].pc = "idle"
    BY DEF StartLifecycle, GIdle
  <1>4. UNCHANGED <<game, tries, found, told, draws, winners, gifts, crossed, undone>>
    BY DEF StartLifecycle
  <1> HIDE DEF x
  <1>5. x \in GSteps /\ x \in GSteps \ {"try", "draw", "gift", "record"}
    BY <1>2 DEF GSteps
  <1>6. GMoves(w, x, Somebody, tick)
    BY <1>1, <1>3, <1>5, GMoved
  <1>7. OpeningInv' /\ ~Drawing(w)
    BY <1>1, <1>3, <1>4 DEF OpeningInv, Drawing
  <1> QED BY <1>1, <1>4, <1>5, <1>6, <1>7, GQuiet DEF GTypes

LEMMA ClaimOpeningKeeps ==
  ASSUME Combo, ComboInv, NEW w \in Backend, ClaimOpening(w)
  PROVE  ComboInv'
  <1>1. w \in GProcess /\ GTypes /\ OpeningInv
    BY DEF GProcess, ComboInv
  <1>2. "close" \in GSteps \ {"try", "draw", "gift", "record"} /\ "OPEN" \in GStatus
    BY DEF GSteps, GStatus
  <1>3. GMoves(w, "close", gh[w].player, gh[w].data) /\ gh[w].pc = "open"
    BY <1>1, <1>2, GToMoves DEF ClaimOpening, GAt
  <1>4. UNCHANGED <<tries, found, draws, winners, gifts, crossed, undone>> /\ ~Drawing(w)
    BY <1>3 DEF ClaimOpening, Drawing
  <1>5. CASE game.status = "SCHEDULED"
    <2>1. game' = [game EXCEPT !.status = "OPEN"] /\ told' = told + 1
      BY <1>5 DEF ClaimOpening
    <2>2. game'.status = "OPEN" /\ \E W : game' \in [status : GStatus, window : W]
      BY <1>1, <1>2, <2>1, GRowWritten
    <2>3. OpeningInv' /\ told' \in Nat
      BY <1>1, <1>5, <2>1, <2>2 DEF OpeningInv, GTypes
    <2> QED BY <1>1, <1>2, <1>3, <1>4, <1>5, <2>2, <2>3, GQuiet DEF GTypes
  <1>6. CASE game.status # "SCHEDULED"
    <2>1. UNCHANGED <<game, told>>
      BY <1>6 DEF ClaimOpening
    <2>2. OpeningInv'
      BY <1>1, <2>1 DEF OpeningInv
    <2> QED BY <1>1, <1>2, <1>3, <1>4, <2>1, <2>2, GQuiet DEF GTypes
  <1> QED BY <1>5, <1>6

LEMMA CloseKeeps ==
  ASSUME Combo, ComboInv, NEW w \in Backend, Close(w)
  PROVE  ComboInv'
  <1>1. w \in GProcess /\ GTypes /\ OpeningInv
    BY DEF GProcess, ComboInv
  <1>2. "due" \in GSteps \ {"try", "draw", "gift", "record"} /\ "CLOSED" \in GStatus
    BY DEF GSteps, GStatus
  <1>3. GMoves(w, "due", gh[w].player, gh[w].data) /\ gh[w].pc = "close"
    BY <1>1, <1>2, GToMoves DEF Close, GAt
  <1>4. UNCHANGED <<tries, found, draws, winners, gifts, crossed, undone, told>> /\ ~Drawing(w)
    BY <1>3 DEF Close, Drawing
  <1>5. \/ game' = game
        \/ game.status \in {"OPEN", "SCHEDULED"} /\ game' = [game EXCEPT !.status = "CLOSED"]
    BY DEF Close
  <1>6. /\ \E W : game' \in [status : GStatus, window : W]
        /\ game' = game \/ (game.status \in {"OPEN", "SCHEDULED"} /\ game'.status = "CLOSED")
    BY <1>1, <1>2, <1>5, GRowWritten
  <1>7. OpeningInv'
    BY <1>1, <1>4, <1>6 DEF OpeningInv
  <1> QED BY <1>1, <1>2, <1>3, <1>4, <1>6, <1>7, GQuiet DEF GTypes

LEMMA FindClosedKeeps ==
  ASSUME Combo, ComboInv, NEW w \in Backend, FindClosed(w)
  PROVE  ComboInv'
  <1>1. w \in GProcess /\ GTypes /\ OpeningInv
    BY DEF GProcess, ComboInv
  <1>2. "claim" \in GSteps \ {"try", "draw", "gift", "record"} /\ "idle" \in GSteps \ {"try", "draw", "gift", "record"}
    BY DEF GSteps
  <1>3. GMoves(w, "claim", gh[w].player, gh[w].data) \/ GMoves(w, "idle", Somebody, 0)
    BY <1>1, <1>2, GToMoves, GRestMoves DEF FindClosed
  <1>4. UNCHANGED <<game, tries, found, draws, winners, gifts, crossed, undone, told>> /\ ~Drawing(w)
    BY DEF FindClosed, Drawing, GAt
  <1>5. OpeningInv'
    BY <1>1, <1>4 DEF OpeningInv
  <1> QED BY <1>1, <1>2, <1>3, <1>4, <1>5, GQuiet DEF GTypes

-----------------------------------------------------------------------------
(* The back office.                                                        *)
LEMMA GCreateKeeps ==
  ASSUME Combo, ComboInv, NEW w \in Office, NEW window \in Windows, create(w, window)
  PROVE  ComboInv'
  <1> DEFINE opens == window[1] <= tick
             x == IF opens THEN "OPEN" ELSE "SCHEDULED"
  <1>1. GTypes /\ OpeningInv /\ TryInv /\ FoundInv /\ (~undone => SettleInv)
    BY DEF ComboInv
  <1>2. /\ game.status = "none" /\ game' = [status |-> x, window |-> window]
        /\ told' = IF opens THEN told + 1 ELSE told
        /\ UNCHANGED <<tries, found, draws, winners, gifts, gh, crossed, undone>>
    BY DEF create
  <1>3. x \in {"OPEN", "SCHEDULED"} /\ (x = "SCHEDULED" => ~opens)
    OBVIOUS
  <1> HIDE DEF opens, x
  <1>4. game'.status = x /\ \E W : game' \in [status : GStatus, window : W]
    <2>1. game' \in [status : GStatus, window : {window}]
      BY <1>2, <1>3 DEF GStatus
    <2> QED BY <1>2, <2>1
  <1>5. told = 0 /\ told' \in Nat /\ OpeningInv'
    BY <1>1, <1>2, <1>3, <1>4 DEF GTypes, OpeningInv
  <1>6. GTypes'
    BY <1>1, <1>2, <1>4, <1>5 DEF GTypes
  <1>7. TryInv' /\ FoundInv'
    BY <1>1, <1>2, <1>3, <1>4 DEF TryInv, FoundInv, Trying, Found
  <1>8. ~undone' => SettleInv'
    BY <1>1, <1>2, <1>3, <1>4 DEF SettleInv, Drawing, Gifted
  <1> QED BY <1>5, <1>6, <1>7, <1>8 DEF ComboInv

LEMMA StartUpdateKeeps ==
  ASSUME Combo, ComboInv, NEW w \in Office, NEW window \in Windows, StartUpdate(w, window)
  PROVE  ComboInv'
  <1>1. w \in GProcess /\ GTypes /\ OpeningInv
    BY DEF GProcess, ComboInv
  <1>2. "edit" \in GSteps \ {"try", "draw", "gift", "record"}
    BY DEF GSteps
  <1>3. GMoves(w, "edit", Somebody, window)
    BY <1>1, <1>2, GMoved DEF StartUpdate
  <1>4. UNCHANGED <<game, tries, found, draws, winners, gifts, crossed, undone, told>> /\ ~Drawing(w)
    BY DEF StartUpdate, Acts, GIdle, Drawing
  <1>5. OpeningInv'
    BY <1>1, <1>4 DEF OpeningInv
  <1> QED BY <1>1, <1>2, <1>3, <1>4, <1>5, GQuiet DEF GTypes

LEMMA UpdateKeeps ==
  ASSUME Combo, ComboInv, NEW w \in Office, update(w)
  PROVE  ComboInv'
  <1>1. w \in GProcess /\ GTypes /\ OpeningInv
    BY DEF GProcess, ComboInv
  <1>2. "idle" \in GSteps \ {"try", "draw", "gift", "record"}
    BY DEF GSteps
  <1>3. GMoves(w, "idle", Somebody, 0) /\ ~Drawing(w)
    BY <1>1, GRestMoves DEF update, GAt, Drawing
  <1>4. UNCHANGED <<tries, found, draws, winners, gifts, crossed, undone, told>>
    BY DEF update
  <1>5. game'.status = game.status /\ \E W : game' \in [status : GStatus, window : W]
    BY <1>1, GRowWritten DEF update
  <1>6. OpeningInv'
    BY <1>1, <1>4, <1>5 DEF OpeningInv
  <1> QED BY <1>1, <1>2, <1>3, <1>4, <1>5, <1>6, GQuiet DEF GTypes

LEMMA StartRemoveKeeps ==
  ASSUME Combo, ComboInv, NEW w \in Office, StartRemove(w)
  PROVE  ComboInv'
  <1> DEFINE x == IF \E p \in Player : tries[p] > 0 THEN "remove" ELSE "delete"
  <1>1. w \in GProcess /\ GTypes /\ OpeningInv
    BY DEF GProcess, ComboInv
  <1>2. x \in GSteps \ {"try", "draw", "gift", "record"}
    BY DEF GSteps
  <1>3. GMoves(w, x, Somebody, 0)
    <2>1. gh' = [gh EXCEPT ![w] = [pc |-> x, player |-> Somebody, data |-> 0]]
      BY DEF StartRemove
    <2> HIDE DEF x
    <2> QED BY <1>1, <1>2, <2>1, GMoved
  <1>4. UNCHANGED <<game, tries, found, draws, winners, gifts, crossed, undone, told>> /\ ~Drawing(w)
    BY DEF StartRemove, Acts, GIdle, Drawing
  <1>5. OpeningInv'
    BY <1>1, <1>4 DEF OpeningInv
  <1> HIDE DEF x
  <1> QED BY <1>1, <1>2, <1>3, <1>4, <1>5, GQuiet DEF GTypes

(* A removal that finds the game settled is the one that undoes it; a game *)
(* that is not settled has no winner to delete.                            *)
LEMMA RemoveKeeps ==
  ASSUME Combo, ComboInv, NEW w \in Office, remove(w)
  PROVE  ComboInv'
  <1>1. w \in GProcess /\ GTypes /\ OpeningInv /\ TryInv /\ (~undone => SettleInv)
    BY DEF GProcess, ComboInv
  <1>2. /\ "idle" \in GSteps \ {"try", "draw", "gift", "record"}
        /\ "CLOSED" \in GStatus /\ "deleted" \in GStatus
    BY DEF GSteps, GStatus
  <1>3. GMoves(w, "idle", Somebody, 0) /\ ~Drawing(w)
    BY <1>1, GRestMoves DEF remove, GAt, Drawing
  <1>4. UNCHANGED <<told, draws, gifts, crossed>> /\ undone' = (undone \/ game.status = "SETTLED")
    BY DEF remove
  <1>5. undone' \in BOOLEAN /\ (undone => undone') /\ (game.status = "SETTLED" => undone')
    <2>1. undone \in BOOLEAN
      BY <1>1 DEF GTypes
    <2> QED BY <1>4, <2>1
  <1>6. CASE gh[w].pc = "remove"
    <2>1. UNCHANGED <<tries, found, winners>>
      BY <1>6 DEF remove, GAt
    <2>2. game' = game \/ (game.status # "deleted" /\ game' = [game EXCEPT !.status = "CLOSED"])
      BY <1>6 DEF remove, GAt
    <2>3. /\ \E W : game' \in [status : GStatus, window : W]
          /\ game' = game \/ (game.status # "deleted" /\ game'.status = "CLOSED")
      BY <1>1, <1>2, <2>2, GRowWritten
    <2>4. CASE game' = game
      <3>1. OpeningInv'
        BY <1>1, <1>4, <2>4 DEF OpeningInv
      <3> QED BY <1>1, <1>2, <1>3, <1>4, <1>5, <2>1, <2>3, <2>4, <3>1, GQuiet DEF GTypes
    <2>5. CASE game.status # "deleted" /\ game'.status = "CLOSED"
      <3>1. OpeningInv'
        BY <1>1, <1>4, <2>5 DEF OpeningInv
      <3> QED BY <1>1, <1>2, <1>3, <1>4, <1>5, <2>1, <2>3, <2>5, <3>1, GQuiet DEF GTypes
    <2> QED BY <2>3, <2>4, <2>5
  <1>7. CASE gh[w].pc = "delete"
    <2>1. /\ game' = [game EXCEPT !.status = "deleted"] /\ winners' = {}
          /\ tries' = [p \in Player |-> 0] /\ found' = [p \in Player |-> FALSE]
      BY <1>7 DEF remove, GAt
    <2>2. game'.status = "deleted" /\ \E W : game' \in [status : GStatus, window : W]
      BY <1>1, <1>2, <2>1, GRowWritten
    <2>3. tries' \in [Player -> Nat] /\ found' \in [Player -> BOOLEAN] /\ winners' \in SUBSET Player
      BY <2>1
    <2>4. GTypes'
      BY <1>1, <1>2, <1>3, <1>4, <1>5, <2>2, <2>3, GTypesKept DEF GTypes
    <2>5. OpeningInv'
      BY <1>1, <1>4, <2>2 DEF OpeningInv
    <2>6. TryInv'
      <3>1. \A v \in GProcess : \A p \in Player : Trying(v, p)' => Trying(v, p)
        BY <1>3 DEF GMoves, Trying
      <3>2. \A p \in Player : tries'[p] = 0 /\ tries[p] \in Nat
        BY <1>1, <2>1 DEF GTypes
      <3>3. \A p \in Player : tries[p] < MaxAttempts => tries'[p] < MaxAttempts
        BY <3>2 DEF Combo
      <3>4. \A p \in Player : tries'[p] <= MaxAttempts
        BY <3>2 DEF Combo
      <3> QED BY <1>1, <1>4, <3>1, <3>3, <3>4 DEF TryInv
    <2>7. FoundInv'
      BY <2>1, <2>2 DEF FoundInv
    <2>8. ~undone' => SettleInv'
      <3>1. SUFFICES ASSUME ~undone' PROVE SettleInv'
        OBVIOUS
      <3>2. SettleInv /\ game.status # "SETTLED"
        BY <1>1, <1>5, <3>1
      <3>3. UNCHANGED <<winners, gifts, draws>>
        BY <1>4, <2>1, <3>2 DEF SettleInv
      <3> QED BY <1>1, <1>2, <1>3, <3>2, <3>3, GSettleKept
    <2> QED BY <2>4, <2>5, <2>6, <2>7, <2>8 DEF ComboInv
  <1> QED BY <1>6, <1>7 DEF remove, GAt

-----------------------------------------------------------------------------
(* The settlement: who is at it is alone at it.                            *)
LEMMA GDraws ==
  ASSUME SettleInv, NEW w \in GProcess, NEW x \in GSteps, NEW y, NEW z, GMoves(w, x, y, z),
         \A v \in GProcess \ {w} : ~Drawing(v),
         game'.status = "SETTLED", draws' <= 1, draws' = 0 => winners' = {} /\ Gifted' = {},
         Cardinality(winners') <= Announced, \A p \in Player : gifts'[p] <= 1,
         x = "draw" => draws' = 0, x \in {"gift", "record"} => draws' = 1,
         x = "gift" => z \intersect Gifted' = {} /\ Cardinality(winners') + Cardinality(z) <= Announced,
         x = "record" => /\ z \intersect Gifted' = {} /\ y \in Gifted' /\ winners' = Gifted' \ {y}
                         /\ Cardinality(winners') + 1 + Cardinality(z) <= Announced,
         x # "record" => winners' = Gifted'
  PROVE  SettleInv'
  <1>1. gh'[w].pc = x /\ gh'[w].player = y /\ gh'[w].data = z
    BY DEF GMoves
  <1>2. \A v \in GProcess : v # w => ~Drawing(v)' /\ gh'[v].pc \notin {"draw", "gift", "record"}
    BY DEF GMoves, Drawing
  <1>3. \A u, v \in GProcess : Drawing(u)' /\ Drawing(v)' => u = v
    BY <1>2
  <1>4. ASSUME NEW v \in GProcess
        PROVE  /\ gh'[v].pc = "draw" => draws' = 0
               /\ gh'[v].pc \in {"gift", "record"} => draws' = 1
               /\ gh'[v].pc = "gift" =>
                    /\ gh'[v].data \intersect Gifted' = {}
                    /\ Cardinality(winners') + Cardinality(gh'[v].data) <= Announced
               /\ gh'[v].pc = "record" =>
                    /\ gh'[v].data \intersect Gifted' = {}
                    /\ gh'[v].player \in Gifted' /\ winners' = Gifted' \ {gh'[v].player}
                    /\ Cardinality(winners') + 1 + Cardinality(gh'[v].data) <= Announced
    <2>1. CASE v = w
      BY <1>1, <2>1
    <2>2. CASE v # w
      BY <1>2, <2>2
    <2> QED BY <2>1, <2>2
  <1>5. (\A v \in GProcess : gh'[v].pc # "record") => winners' = Gifted'
    BY <1>1
  <1>6. Announced' = Announced
    BY DEF Announced
  <1> QED BY <1>3, <1>4, <1>5, <1>6 DEF SettleInv

LEMMA GHalfGiven ==
  ASSUME SettleInv, NEW w \in GProcess, NEW y, NEW z, GMoves(w, "record", y, z),
         \A v \in GProcess \ {w} : ~Drawing(v),
         game'.status = "SETTLED", draws' = 1, \A p \in Player : gifts'[p] <= 1,
         Cardinality(winners') <= Announced, Cardinality(winners') + 1 + Cardinality(z) <= Announced,
         z \intersect Gifted' = {}, y \in Gifted', winners' = Gifted' \ {y}
  PROVE  SettleInv'
  <1>1. "record" \in GSteps
    BY DEF GSteps
  <1>2. draws' <= 1 /\ draws' # 0
    OBVIOUS
  <1> QED BY <1>1, <1>2, GDraws

LEMMA ClaimSettlementKeeps ==
  ASSUME Combo, ComboInv, NEW w \in Backend, ClaimSettlement(w)
  PROVE  ComboInv'
  <1>1. w \in GProcess /\ GTypes /\ OpeningInv /\ TryInv /\ FoundInv
    BY DEF GProcess, ComboInv
  <1>2. UNCHANGED <<tries, found, told, draws, winners, gifts, crossed, undone>> /\ gh[w].pc = "claim"
    BY DEF ClaimSettlement, GAt
  <1>3. ~Drawing(w)
    BY <1>2 DEF Drawing
  <1>4. CASE game.status = "CLOSED"
    <2>1. "draw" \in GSteps /\ "SETTLED" \in GStatus
      BY DEF GSteps, GStatus
    <2>2. GMoves(w, "draw", gh[w].player, gh[w].data)
      BY <1>1, <1>4, <2>1, GToMoves DEF ClaimSettlement
    <2>3. game' = [game EXCEPT !.status = "SETTLED"]
      BY <1>4 DEF ClaimSettlement
    <2>4. game'.status = "SETTLED" /\ \E W : game' \in [status : GStatus, window : W]
      BY <1>1, <2>1, <2>3, GRowWritten
    <2>5. GTypes'
      BY <1>1, <1>2, <2>1, <2>2, <2>4, GTypesKept DEF GTypes
    <2>6. OpeningInv'
      BY <1>1, <1>2, <2>4 DEF OpeningInv
    <2>7. TryInv'
      BY <1>1, <1>2, <2>1, <2>2, GTryKept
    <2>8. FoundInv'
      BY <1>1, <1>2, <1>4, <2>1, <2>2, <2>4, GFoundKept
    <2>9. ~undone' => SettleInv'
      <3>1. SUFFICES ASSUME ~undone' PROVE SettleInv'
        OBVIOUS
      <3>2. SettleInv
        BY <1>2, <3>1 DEF ComboInv
      <3>3. draws = 0 /\ winners = {} /\ Gifted = {} /\ \A v \in GProcess : ~Drawing(v)
        BY <1>4, <3>2 DEF SettleInv
      <3>4. Gifted' = Gifted
        BY <1>2 DEF Gifted
      <3>5. Cardinality(winners') <= Announced /\ \A p \in Player : gifts'[p] <= 1
        BY <1>2, <3>2 DEF SettleInv
      <3> QED BY <1>1, <1>2, <2>1, <2>2, <2>4, <3>2, <3>3, <3>4, <3>5, GDraws
    <2> QED BY <2>5, <2>6, <2>7, <2>8, <2>9 DEF ComboInv
  <1>5. CASE game.status # "CLOSED"
    <2>1. "idle" \in GSteps \ {"try", "draw", "gift", "record"}
      BY DEF GSteps
    <2>2. GMoves(w, "idle", Somebody, 0) /\ game' = game
      BY <1>1, <1>5, GRestMoves DEF ClaimSettlement
    <2>3. OpeningInv'
      BY <1>1, <1>2, <2>2 DEF OpeningInv
    <2> QED BY <1>1, <1>2, <1>3, <2>1, <2>2, <2>3, GQuiet DEF GTypes
  <1> QED BY <1>4, <1>5

(* The lesser of two numbers.                                              *)
LEMMA GLesser ==
  ASSUME NEW a \in Nat, NEW b \in Nat
  PROVE  Min({a, b}) \in Nat /\ Min({a, b}) <= a
  <1>1. PICK m \in {a, b} : \A y \in {a, b} : m <= y
    <2>1. CASE a <= b
      BY <2>1
    <2>2. CASE b <= a
      BY <2>2
    <2> QED BY <2>1, <2>2
  <1>2. Min({a, b}) \in {a, b} /\ \A y \in {a, b} : Min({a, b}) <= y
    BY <1>1 DEF Min
  <1> QED BY <1>2

(* What the steps of the settlement leave as it is.                        *)
LEMMA GSettles ==
  ASSUME ComboInv, NEW w \in Backend, NEW x \in GSteps \ {"try"}, NEW y, NEW z, GMoves(w, x, y, z),
         x \in {"gift", "record"} => z \in SUBSET Player, x = "record" => y \in Player,
         UNCHANGED <<game, tries, found, told, crossed, undone>>,
         draws' \in Nat, winners' \in SUBSET Player, gifts' \in [Player -> Nat],
         FoundInv', ~undone' => SettleInv'
  PROVE  ComboInv'
  <1>1. w \in GProcess /\ GTypes /\ OpeningInv /\ TryInv
    BY DEF GProcess, ComboInv
  <1>2. GTypes'
    BY <1>1, GTypesKept DEF GTypes
  <1>3. OpeningInv' /\ TryInv'
    BY <1>1, GTryKept DEF OpeningInv
  <1> QED BY <1>2, <1>3 DEF ComboInv

LEMMA SettleGameKeeps ==
  ASSUME Combo, ComboInv, NEW w \in Backend, settleGame(w)
  PROVE  ComboInv'
  <1>1. w \in GProcess /\ GTypes /\ FoundInv
    BY DEF GProcess, ComboInv
  <1>2. /\ UNCHANGED <<game, tries, found, told, winners, gifts, crossed, undone>>
        /\ gh[w].pc = "draw" /\ draws' = draws + 1
    BY DEF settleGame, GAt
  <1>3. PICK drawn \in SUBSET Found :
          /\ Cardinality(drawn) = Min({Announced, Cardinality(Found)})
          /\ gh' = [gh EXCEPT ![w] = [pc |-> "gift", player |-> Somebody, data |-> drawn]]
    BY DEF settleGame, Found, Announced
  <1>4. "gift" \in GSteps /\ drawn \in SUBSET Player
    BY DEF GSteps, Found
  <1>5. GMoves(w, "gift", Somebody, drawn)
    BY <1>1, <1>3, <1>4, GMoved
  <1>6. FoundInv'
    <2>1. Found' = Found
      BY <1>2 DEF Found
    <2>2. ASSUME NEW v \in GProcess, game.status # "deleted"
          PROVE  /\ gh'[v].pc \in {"gift", "record"} => gh'[v].data \subseteq Found
                 /\ gh'[v].pc = "record" => gh'[v].player \in Found
      <3>1. CASE v = w
        BY <1>3, <1>5, <3>1 DEF GMoves
      <3>2. CASE v # w
        BY <1>1, <1>5, <2>2, <3>2 DEF GMoves, FoundInv
      <3> QED BY <3>1, <3>2
    <2> QED BY <1>1, <1>2, <2>1, <2>2 DEF FoundInv
  <1>7. ~undone' => SettleInv'
    <2>1. SUFFICES ASSUME ~undone' PROVE SettleInv'
      OBVIOUS
    <2>2. SettleInv /\ Drawing(w)
      BY <1>2, <2>1 DEF ComboInv, Drawing
    <2>3. /\ draws = 0 /\ winners = {} /\ Gifted = {} /\ game.status = "SETTLED"
          /\ \A v \in GProcess \ {w} : ~Drawing(v)
      BY <1>1, <1>2, <2>2 DEF SettleInv
    <2>4. Gifted' = {} /\ \A p \in Player : gifts'[p] <= 1
      BY <1>2, <2>2, <2>3 DEF SettleInv, Gifted
    <2>5. Announced \in Nat /\ Cardinality(Found) \in Nat
      <3>1. Found \subseteq Player
        BY DEF Found
      <3> QED BY <3>1, GAnnounced, FS_Subset, FS_CardinalityType DEF Combo
    <2>6. Cardinality(drawn) \in Nat /\ Cardinality(drawn) <= Announced
      BY <1>3, <2>5, GLesser
    <2>7. Cardinality(winners') = 0
      BY <1>2, <2>3, FS_EmptySet
    <2>8. winners' = Gifted' /\ drawn \intersect Gifted' = {}
      BY <1>2, <2>3, <2>4
    <2>9. draws' = 1 /\ Cardinality(winners') <= Announced
          /\ Cardinality(winners') + Cardinality(drawn) <= Announced
      BY <1>2, <2>3, <2>5, <2>6, <2>7
    <2> QED BY <1>1, <1>2, <1>4, <1>5, <2>2, <2>3, <2>4, <2>8, <2>9, GDraws
  <1>8. draws' \in Nat
    BY <1>1, <1>2 DEF GTypes
  <1> QED BY <1>1, <1>2, <1>4, <1>5, <1>6, <1>7, <1>8, GSettles DEF GTypes

LEMMA GFoundMoves ==
  ASSUME FoundInv, NEW w \in GProcess, NEW x \in GSteps, NEW y, NEW z, GMoves(w, x, y, z),
         UNCHANGED <<game, found>>, winners' \subseteq Found, game.status = "deleted" => winners' = {},
         game.status # "deleted" /\ x \in {"gift", "record"} => z \subseteq Found,
         game.status # "deleted" /\ x = "record" => y \in Found
  PROVE  FoundInv'
  <1>1. Found' = Found
    BY DEF Found
  <1>2. ASSUME NEW v \in GProcess, game.status # "deleted"
        PROVE  /\ gh'[v].pc \in {"gift", "record"} => gh'[v].data \subseteq Found
               /\ gh'[v].pc = "record" => gh'[v].player \in Found
    <2>1. CASE v = w
      BY <1>2, <2>1 DEF GMoves
    <2>2. CASE v # w
      BY <1>2, <2>2 DEF GMoves, FoundInv
    <2> QED BY <2>1, <2>2
  <1> QED BY <1>1, <1>2 DEF FoundInv

(* The gift of one winner, and that winner is about to be recorded.        *)
LEMMA GiftGiven ==
  ASSUME Combo, ComboInv, NEW w \in Backend, gh[w].pc = "gift", NEW p \in gh[w].data,
         gifts' = [gifts EXCEPT ![p] = gifts[p] + 1],
         gh' = [gh EXCEPT ![w] = [pc |-> "record", player |-> p, data |-> gh[w].data \ {p}]],
         UNCHANGED <<game, tries, found, told, draws, winners, crossed, undone>>
  PROVE  ComboInv'
  <1> DEFINE left == gh[w].data \ {p}
  <1>1. w \in GProcess /\ GTypes /\ FoundInv
    BY DEF GProcess, ComboInv
  <1>2. gh[w].data \in SUBSET Player /\ p \in Player /\ left \in SUBSET Player
    BY <1>1 DEF GTypes
  <1>3. "record" \in GSteps
    BY DEF GSteps
  <1>4. GMoves(w, "record", p, left)
    BY <1>1, <1>2, <1>3, GMoved
  <1>5. left = gh[w].data \ {p}
    OBVIOUS
  <1> HIDE DEF left
  <1>6. FoundInv'
    <2>1. winners \subseteq Found /\ (game.status = "deleted" => winners = {})
      BY <1>1 DEF FoundInv
    <2>2. game.status # "deleted" => gh[w].data \subseteq Found
      BY <1>1 DEF FoundInv
    <2> QED BY <1>1, <1>3, <1>4, <1>5, <2>1, <2>2, GFoundMoves
  <1>7. /\ gifts' \in [Player -> Nat] /\ gifts'[p] = gifts[p] + 1 /\ gifts[p] \in Nat
        /\ \A q \in Player \ {p} : gifts'[q] = gifts[q]
    BY <1>1, <1>2 DEF GTypes
  <1>8. ~undone' => SettleInv'
    <2>1. SUFFICES ASSUME ~undone' PROVE SettleInv'
      OBVIOUS
    <2>2. SettleInv /\ Drawing(w)
      BY <2>1 DEF ComboInv, Drawing
    <2>3. game.status = "SETTLED" /\ \A v \in GProcess \ {w} : ~Drawing(v)
      BY <1>1, <2>2 DEF SettleInv
    <2>4. /\ draws <= 1 /\ (draws = 0 => winners = {} /\ Gifted = {})
          /\ Cardinality(winners) <= Announced /\ \A q \in Player : gifts[q] <= 1
          /\ gh[w].data \intersect Gifted = {} /\ Cardinality(winners) + Cardinality(gh[w].data) <= Announced
      BY <1>1, <2>2 DEF SettleInv
    <2>5. winners = Gifted
      <3>1. \A v \in GProcess : gh[v].pc # "record"
        BY <2>3 DEF Drawing
      <3> QED BY <2>2, <3>1 DEF SettleInv
    <2>6. p \notin Gifted /\ gifts[p] = 0
      BY <1>2, <1>7, <2>4 DEF Gifted
    <2>7. Gifted' = Gifted \union {p}
      BY <1>2, <1>7, <2>6 DEF Gifted
    <2>8. \A q \in Player : gifts'[q] <= 1
      <3>1. gifts'[p] = 1
        BY <1>7, <2>6
      <3> QED BY <1>7, <2>4, <3>1
    <2>9. /\ Cardinality(winners) \in Nat /\ Cardinality(left) \in Nat
          /\ Cardinality(gh[w].data) = Cardinality(left) + 1
      <3>1. IsFiniteSet(winners) /\ IsFiniteSet(gh[w].data)
        BY <1>1, <1>2, FS_Subset DEF Combo, GTypes
      <3>2. IsFiniteSet(left) /\ Cardinality(left) = Cardinality(gh[w].data) - 1
        BY <1>5, <3>1, FS_RemoveElement
      <3>3. /\ Cardinality(winners) \in Nat /\ Cardinality(gh[w].data) \in Nat
            /\ Cardinality(left) \in Nat
        BY <3>1, <3>2, FS_CardinalityType
      <3> QED BY <3>2, <3>3
    <2>10. Cardinality(winners') + 1 + Cardinality(left) <= Announced
      BY <2>4, <2>9, GAnnounced
    <2>11. /\ left \intersect Gifted' = {} /\ p \in Gifted' /\ winners' = Gifted' \ {p}
      BY <1>5, <2>4, <2>5, <2>6, <2>7
    <2>12. draws' <= 1 /\ Cardinality(winners') <= Announced /\ game'.status = "SETTLED"
      BY <2>3, <2>4
    <2>13. draws' = 1
      BY <1>1, <2>2 DEF SettleInv
    <2>14. \A v \in GProcess \ {w} : ~Drawing(v)
      BY <2>3
    <2>15. /\ SettleInv /\ draws' = 1 /\ draws' <= 1
      BY <2>2, <2>12, <2>13
    <2> QED BY <1>1, <1>4, <2>8, <2>10, <2>11, <2>12, <2>14, <2>15, GHalfGiven
  <1> QED BY <1>1, <1>2, <1>3, <1>4, <1>6, <1>7, <1>8, GSettles DEF GTypes

(* Between two gifts: none is half given, and nobody else draws.           *)
LEMMA BetweenGifts ==
  ASSUME ComboInv, ~undone, NEW w \in Backend, gh[w].pc = "gift"
  PROVE  /\ SettleInv /\ Drawing(w) /\ draws = 1 /\ winners = Gifted /\ game.status = "SETTLED"
         /\ \A v \in GProcess \ {w} : ~Drawing(v)
         /\ Cardinality(winners) <= Announced /\ \A q \in Player : gifts[q] <= 1
         /\ gh[w].data \intersect Gifted = {} /\ Cardinality(winners) + Cardinality(gh[w].data) <= Announced
  <1>1. w \in GProcess /\ SettleInv /\ Drawing(w)
    BY DEF GProcess, ComboInv, Drawing
  <1>2. game.status = "SETTLED" /\ \A v \in GProcess \ {w} : ~Drawing(v)
    BY <1>1 DEF SettleInv
  <1>3. \A v \in GProcess : gh[v].pc # "record"
    BY <1>2 DEF Drawing
  <1>4. winners = Gifted /\ draws = 1
    BY <1>1, <1>3 DEF SettleInv
  <1> QED BY <1>1, <1>2, <1>4 DEF SettleInv

LEMMA GiftFails ==
  ASSUME Combo, ComboInv, NEW w \in Backend, gh[w].pc = "gift", NEW p \in gh[w].data,
         gh' = [gh EXCEPT ![w].data = gh[w].data \ {p}],
         UNCHANGED <<game, tries, found, told, draws, winners, gifts, crossed, undone>>
  PROVE  ComboInv'
  <1> DEFINE left == gh[w].data \ {p}
  <1>1. w \in GProcess /\ GTypes /\ FoundInv
    BY DEF GProcess, ComboInv
  <1>2. gh[w].data \in SUBSET Player /\ p \in Player /\ left \in SUBSET Player
    BY <1>1 DEF GTypes
  <1>3. "gift" \in GSteps
    BY DEF GSteps
  <1>4. GMoves(w, "gift", gh[w].player, left)
    <2>1. PICK D : gh \in [GProcess -> [pc : GSteps, player : Player \union {Somebody}, data : D]]
      BY <1>1 DEF GTypes
    <2>2. [gh[w] EXCEPT !.data = left] = [pc |-> "gift", player |-> gh[w].player, data |-> left]
      BY <1>1, <2>1
    <2>3. gh' = [gh EXCEPT ![w] = [pc |-> "gift", player |-> gh[w].player, data |-> left]]
      BY <1>1, <2>1, <2>2
    <2>4. gh[w].player \in Player \union {Somebody}
      BY <1>1, <2>1
    <2> HIDE DEF left
    <2> QED BY <1>1, <1>3, <2>3, <2>4, GMoved
  <1>5. left = gh[w].data \ {p}
    OBVIOUS
  <1> HIDE DEF left
  <1>6. FoundInv'
    <2>1. winners \subseteq Found /\ (game.status = "deleted" => winners = {})
      BY <1>1 DEF FoundInv
    <2>2. game.status # "deleted" => gh[w].data \subseteq Found
      BY <1>1 DEF FoundInv
    <2> QED BY <1>1, <1>3, <1>4, <1>5, <2>1, <2>2, GFoundMoves
  <1>7. ~undone' => SettleInv'
    <2>1. SUFFICES ASSUME ~undone' PROVE SettleInv'
      OBVIOUS
    <2>2. /\ SettleInv /\ Drawing(w) /\ draws = 1 /\ winners = Gifted /\ game.status = "SETTLED"
          /\ \A v \in GProcess \ {w} : ~Drawing(v)
          /\ Cardinality(winners) <= Announced /\ \A q \in Player : gifts[q] <= 1
          /\ gh[w].data \intersect Gifted = {} /\ Cardinality(winners) + Cardinality(gh[w].data) <= Announced
      BY <2>1, BetweenGifts
    <2>3. Gifted' = Gifted
      BY DEF Gifted
    <2>4. IsFiniteSet(winners) /\ IsFiniteSet(gh[w].data)
      BY <1>1, <1>2, FS_Subset DEF Combo, GTypes
    <2>5. IsFiniteSet(left) /\ Cardinality(left) = Cardinality(gh[w].data) - 1
      BY <1>5, <2>4, FS_RemoveElement
    <2>6. Cardinality(winners) \in Nat /\ Cardinality(gh[w].data) \in Nat
      BY <2>4, FS_CardinalityType
    <2>7. Cardinality(winners) + Cardinality(left) <= Announced
      BY <2>2, <2>5, <2>6, GAnnounced
    <2>8. left \intersect Gifted = {}
      BY <1>5, <2>2
    <2> QED BY <1>1, <1>3, <1>4, <2>2, <2>3, <2>7, <2>8, GDraws
  <1> QED BY <1>1, <1>2, <1>3, <1>4, <1>6, <1>7, GSettles DEF GTypes

LEMMA GiftsOver ==
  ASSUME Combo, ComboInv, NEW w \in Backend, gh[w].pc = "gift", GRest(w),
         UNCHANGED <<game, tries, found, told, draws, winners, gifts, crossed, undone>>
  PROVE  ComboInv'
  <1>1. w \in GProcess /\ GTypes /\ FoundInv
    BY DEF GProcess, ComboInv
  <1>2. "idle" \in GSteps
    BY DEF GSteps
  <1>3. GMoves(w, "idle", Somebody, 0)
    BY <1>1, GRestMoves
  <1>4. FoundInv'
    <2>1. winners \subseteq Found /\ (game.status = "deleted" => winners = {})
      BY <1>1 DEF FoundInv
    <2> QED BY <1>1, <1>2, <1>3, <2>1, GFoundMoves
  <1>5. ~undone' => SettleInv'
    <2>1. SUFFICES ASSUME ~undone' PROVE SettleInv'
      OBVIOUS
    <2>2. /\ SettleInv /\ draws = 1 /\ winners = Gifted /\ game.status = "SETTLED"
          /\ \A v \in GProcess \ {w} : ~Drawing(v)
          /\ Cardinality(winners) <= Announced /\ \A q \in Player : gifts[q] <= 1
      BY <2>1, BetweenGifts
    <2>3. Gifted' = Gifted
      BY DEF Gifted
    <2> QED BY <1>1, <1>2, <1>3, <2>2, <2>3, GDraws
  <1> QED BY <1>1, <1>2, <1>3, <1>4, <1>5, GSettles DEF GTypes

LEMMA CreateGiftRewardKeeps ==
  ASSUME Combo, ComboInv, NEW w \in Backend, createGiftReward(w)
  PROVE  ComboInv'
  <1>1. gh[w].pc = "gift" /\ UNCHANGED <<game, tries, found, told, draws, winners, crossed, undone>>
    BY DEF createGiftReward, GAt
  <1>2. CASE GRest(w) /\ UNCHANGED gifts
    BY <1>1, <1>2, GiftsOver
  <1>3. ASSUME NEW p \in gh[w].data,
               gifts' = [gifts EXCEPT ![p] = gifts[p] + 1],
               gh' = [gh EXCEPT ![w] = [pc |-> "record", player |-> p, data |-> gh[w].data \ {p}]]
        PROVE  ComboInv'
    BY <1>1, <1>3, GiftGiven
  <1>4. ASSUME NEW p \in gh[w].data,
               gh' = [gh EXCEPT ![w].data = gh[w].data \ {p}], UNCHANGED gifts
        PROVE  ComboInv'
    BY <1>1, <1>4, GiftFails
  <1> QED BY <1>2, <1>3, <1>4 DEF createGiftReward

LEMMA RecordWinnerKeeps ==
  ASSUME Combo, ComboInv, NEW w \in Backend, RecordWinner(w)
  PROVE  ComboInv'
  <1> DEFINE p == gh[w].player
             d == gh[w].data
  <1>1. w \in GProcess /\ GTypes /\ FoundInv
    BY DEF GProcess, ComboInv
  <1>2. /\ UNCHANGED <<game, tries, found, told, draws, gifts, crossed, undone>>
        /\ gh[w].pc = "record" /\ gh' = [gh EXCEPT ![w] = [pc |-> "gift", player |-> Somebody, data |-> d]]
        /\ winners' = IF game.status = "deleted" THEN winners ELSE winners \union {p}
    BY DEF RecordWinner, GAt
  <1>3. d \in SUBSET Player /\ p \in Player /\ winners' \in SUBSET Player
    <2>1. d \in SUBSET Player /\ p \in Player /\ winners \in SUBSET Player
      BY <1>1, <1>2 DEF GTypes
    <2> QED BY <1>2, <2>1
  <1>4. "gift" \in GSteps
    BY DEF GSteps
  <1>5. /\ game.status # "deleted" => p \in Found /\ d \subseteq Found
        /\ winners \subseteq Found /\ (game.status = "deleted" => winners = {})
    BY <1>1, <1>2 DEF FoundInv
  <1>6. ~undone => /\ SettleInv /\ Drawing(w) /\ draws = 1
                   /\ d \intersect Gifted = {} /\ p \in Gifted /\ winners = Gifted \ {p}
                   /\ Cardinality(winners) + 1 + Cardinality(d) <= Announced
    BY <1>1, <1>2 DEF ComboInv, SettleInv, Drawing
  <1> HIDE DEF p, d
  <1>7. GMoves(w, "gift", Somebody, d)
    BY <1>1, <1>2, <1>4, GMoved
  <1>8. FoundInv'
    BY <1>1, <1>2, <1>4, <1>5, <1>7, GFoundMoves
  <1>9. ~undone' => SettleInv'
    <2>1. SUFFICES ASSUME ~undone' PROVE SettleInv'
      OBVIOUS
    <2>2. /\ SettleInv /\ Drawing(w) /\ draws = 1
          /\ d \intersect Gifted = {} /\ p \in Gifted /\ winners = Gifted \ {p}
          /\ Cardinality(winners) + 1 + Cardinality(d) <= Announced
      BY <1>2, <1>6, <2>1
    <2>3. game.status = "SETTLED" /\ \A v \in GProcess \ {w} : ~Drawing(v)
      BY <1>1, <2>2 DEF SettleInv
    <2>4. Gifted' = Gifted /\ \A q \in Player : gifts'[q] <= 1
      BY <1>2, <2>2 DEF Gifted, SettleInv
    <2>5. winners' = winners \union {p} /\ p \notin winners /\ winners' = Gifted'
      BY <1>2, <2>2, <2>3, <2>4
    <2>6. IsFiniteSet(winners) /\ IsFiniteSet(d)
      BY <1>1, <1>3, FS_Subset DEF Combo, GTypes
    <2>7. Cardinality(winners') = Cardinality(winners) + 1
      BY <2>5, <2>6, FS_AddElement
    <2>8. Cardinality(winners) \in Nat /\ Cardinality(d) \in Nat
      BY <2>6, FS_CardinalityType
    <2>9. Cardinality(winners') <= Announced /\ Cardinality(winners') + Cardinality(d) <= Announced
      BY <2>2, <2>7, <2>8, GAnnounced
    <2>10. d \intersect Gifted' = {} /\ draws' = 1 /\ game'.status = "SETTLED"
      BY <1>2, <2>2, <2>3, <2>4
    <2> QED BY <1>1, <1>4, <1>7, <2>2, <2>3, <2>4, <2>5, <2>9, <2>10, GDraws
  <1> QED BY <1>1, <1>2, <1>3, <1>4, <1>7, <1>8, <1>9, GSettles DEF GTypes

-----------------------------------------------------------------------------
LEMMA ComboQuiet ==
  ASSUME ComboInv, UNCHANGED <<game, tries, found, told, draws, winners, gifts, gh, crossed, undone>>
  PROVE  ComboInv'
  <1>1. GTypes'
    BY DEF ComboInv, GTypes
  <1>2. OpeningInv' /\ TryInv' /\ FoundInv'
    BY DEF ComboInv, OpeningInv, TryInv, Trying, FoundInv, Found
  <1>3. (~undone => SettleInv)'
    BY DEF ComboInv, SettleInv, Drawing, Gifted, Announced
  <1> QED BY <1>1, <1>2, <1>3 DEF ComboInv

LEMMA ComboStep == ASSUME Combo PROVE ComboInv /\ [GNext]_gvars => ComboInv'
  <1> SUFFICES ASSUME ComboInv, [GNext]_gvars PROVE ComboInv'
    OBVIOUS
  <1>1. CASE UNCHANGED gvars
    BY <1>1, ComboQuiet DEF gvars
  <1>2. CASE GTick
    BY <1>2, ComboQuiet DEF GTick
  <1>3. ASSUME NEW w \in Front, submitAttempt(w) \/ \E p \in Player : StartAttempt(w, p)
        PROVE  ComboInv'
    BY <1>3, StartAttemptKeeps, SubmitAttemptKeeps
  <1>4. ASSUME NEW w \in Backend, StartLifecycle(w) \/ LifecycleStep(w)
        PROVE  ComboInv'
    BY <1>4, StartLifecycleKeeps, ClaimOpeningKeeps, CloseKeeps, FindClosedKeeps, ClaimSettlementKeeps,
       SettleGameKeeps, CreateGiftRewardKeeps, RecordWinnerKeeps DEF LifecycleStep
  <1>5. ASSUME NEW w \in Office, update(w) \/ StartRemove(w) \/ remove(w)
        PROVE  ComboInv'
    BY <1>5, UpdateKeeps, StartRemoveKeeps, RemoveKeeps
  <1>6. ASSUME NEW w \in Office, NEW window \in Windows, create(w, window) \/ StartUpdate(w, window)
        PROVE  ComboInv'
    BY <1>6, GCreateKeeps, StartUpdateKeeps
  <1> QED BY <1>1, <1>2, <1>3, <1>4, <1>5, <1>6 DEF GNext

LEMMA ComboHolds == ASSUME Combo PROVE GSpec => []ComboInv
  <1>1. GInit => ComboInv
    BY GStart
  <1>2. ComboInv /\ [GNext]_gvars => ComboInv'
    BY ComboStep
  <1> QED BY <1>1, <1>2, PTL DEF GSpec

(* Any number of backends, customers and office hands, whatever dates the  *)
(* game is given: the customers are told once that it opens                *)
(* (combo-game.service.ts, `create` and the claim of the lifecycle cron).  *)
THEOREM ComboOpeningTold == ASSUME Combo PROVE GSpec => []OpeningToldOnce
  <1>1. ComboInv => OpeningToldOnce
    BY DEF ComboInv, OpeningInv, OpeningToldOnce
  <1> QED BY <1>1, ComboHolds, PTL

(* A customer who makes one attempt at a time makes at most the maximum    *)
(* (`submitAttempt`, which counts and then records).                       *)
THEOREM ComboAttemptsBounded == ASSUME Combo PROVE GSpec => []WithinAttempts
  <1>1. ComboInv => WithinAttempts
    BY DEF ComboInv, TryInv, WithinAttempts
  <1> QED BY <1>1, ComboHolds, PTL

(* The claim of the settlement lets one backend draw, once, as long as no  *)
(* removal closes a settled game again (`settleGame`).                     *)
THEOREM ComboDrawnOnce == ASSUME Combo PROVE GSpec => []DrawnOnce
  <1>1. ComboInv => DrawnOnce
    BY DEF ComboInv, SettleInv, DrawnOnce
  <1> QED BY <1>1, ComboHolds, PTL

(* Who is recorded has found the combination and has exactly one gift, and *)
(* they are no more than announced (`settleGame`, `createGiftReward`).     *)
THEOREM ComboWinnersHaveOneGift == ASSUME Combo PROVE GSpec => []WinnersHaveOneGift
  <1>1. ASSUME ComboInv PROVE WinnersHaveOneGift
    <2>1. \A p \in winners : found[p]
      BY <1>1 DEF ComboInv, FoundInv, Found
    <2>2. ASSUME ~undone
          PROVE  /\ \A p \in Player : gifts[p] <= 1 /\ Cardinality(winners) <= Max({1, WinnersCount})
                 /\ (\A w \in Backend : ~GAt(w, "record")) => winners = {q \in Player : gifts[q] > 0}
      <3>1. SettleInv /\ GTypes
        BY <1>1, <2>2 DEF ComboInv
      <3>2. (\A w \in Backend : ~GAt(w, "record")) => \A w \in GProcess : gh[w].pc # "record"
        BY <3>1 DEF GTypes, GAt
      <3> QED BY <3>1, <3>2 DEF SettleInv, Announced, Gifted
    <2>3. ~undone => Cardinality(winners) <= Max({1, WinnersCount})
      BY <1>1 DEF ComboInv, SettleInv, Announced
    <2> QED BY <2>1, <2>2, <2>3 DEF WinnersHaveOneGift
  <1>2. ComboInv => WinnersHaveOneGift
    BY <1>1
  <1> QED BY <1>2, ComboHolds, PTL

(* The rows of a game have their types.                                    *)
THEOREM ComboTypes == ASSUME Combo PROVE GSpec => []GTypeOK
  <1>1. ComboInv => GTypeOK
    BY DEF ComboInv, GTypes, GTypeOK, GStatus
  <1> QED BY <1>1, ComboHolds, PTL

-----------------------------------------------------------------------------
(***************************************************************************)
(* The earnings of a referral.                                             *)
(*                                                                         *)
(* Three layers.  Who earns what is settled by the update that rewards the *)
(* referral, so it holds for any number of jobs at once (EarningInv).  The *)
(* ceiling is read and the earning inserted in two statements: with one    *)
(* job at a time nothing but a cancellation changes the rows in between    *)
(* (CapInv), and the prime comes before anything else the referee earns,   *)
(* so that the ceiling cannot refuse it (PrimeInv).                        *)
(***************************************************************************)

(* The rows and the handlers. *)

EarningRow == [amount : Nat, status : {"none", "PENDING", "PAYABLE", "PAID", "CANCELLED"}]
Accruals ==
    [pc : {"idle"}, order : {NoOrder}]
    \union [pc : {"qualify", "prime", "commission"}, order : ROrder]
    \union [pc : {"cap", "insert"}, order : ROrder, type : EarningType, raw : Nat]

(* A job runs for an order that was paid.                                  *)
EarningTypes ==
    /\ referral = [status |-> referral.status, order |-> referral.order, gift |-> referral.gift]
    /\ referral.status \in {"none", "PENDING", "REWARDED"} /\ referral.order \in ROrder \union {NoOrder}
    /\ referral.order # NoOrder <=> referral.status = "REWARDED"
    /\ paid \in [ROrder -> {"new", "paid", "cancelled"}]
    /\ job \in [ROrder -> {"none", "queued", "run", "done"}]
    /\ earn \in [ROrder -> [EarningType -> EarningRow]]
    /\ rh \in [RWorker -> Accruals]
    /\ \A o \in ROrder : job[o] # "none" => paid[o] # "new"
    /\ \A o \in ROrder, t \in EarningType : earn[o][t].status # "none" => paid[o] # "new"
    /\ \A w \in RWorker : rh[w].order # NoOrder => paid[rh[w].order] # "new"

(* Who earns what is settled when the referral is rewarded, and stays so.  *)
Entitled(o, t) == referral.status = "REWARDED" /\ (t = "PRIME" <=> o = referral.order)
WhoEarns ==
    /\ \A o \in ROrder, t \in EarningType : earn[o][t].status # "none" => Entitled(o, t)
    /\ \A w \in RWorker :
         /\ rh[w].pc = "qualify" => referral.status # "none"
         /\ rh[w].pc = "prime" => Entitled(rh[w].order, "PRIME")
         /\ rh[w].pc = "commission" => referral.status = "REWARDED"
         /\ rh[w].pc \in {"cap", "insert"} => Entitled(rh[w].order, rh[w].type)

EarningInv == EarningTypes /\ WhoEarns

Programme ==
    /\ NoOrder \notin ROrder /\ IsFiniteSet(ROrder)
    /\ Prime \in Nat /\ Cap \in Nat /\ Commission \in [ROrder -> Nat]

LEMMA EarningStart ==
    ASSUME Programme, RInit PROVE EarningInv
BY DEF Programme, RInit, EarningInv, EarningTypes, WhoEarns, EarningRow, Accruals, NoEarning, RIdle, EarningType

LEMMA AccrualShape ==
    ASSUME Programme, NEW h \in Accruals
    PROVE  /\ h.pc \in {"idle", "qualify", "prime", "commission", "cap", "insert"}
           /\ h.pc = "idle" => h = RIdle
           /\ h.pc # "idle" => h.order \in ROrder /\ h.order # NoOrder
           /\ h.pc \in {"qualify", "prime", "commission"} => h = [pc |-> h.pc, order |-> h.order]
           /\ h.pc \in {"cap", "insert"} =>
                 /\ h = [pc |-> h.pc, order |-> h.order, type |-> h.type, raw |-> h.raw]
                 /\ h.type \in EarningType /\ h.raw \in Nat
BY DEF Programme, Accruals, RIdle

(* What a handler must be to take the place of another.                    *)
Sound(h) ==
    /\ h \in Accruals
    /\ h.order # NoOrder => paid[h.order] # "new"
    /\ h.pc = "qualify" => referral.status # "none"
    /\ h.pc = "prime" => Entitled(h.order, "PRIME")
    /\ h.pc = "commission" => referral.status = "REWARDED"
    /\ h.pc \in {"cap", "insert"} => Entitled(h.order, h.type)

Turns(w, h) == rh' = [rh EXCEPT ![w] = h]

LEMMA HandlerTurns ==
    ASSUME Programme, EarningInv, NEW w \in RWorker, NEW h, Turns(w, h), Sound(h),
           paid' = paid, referral' = referral, earn' = earn,
           job' \in [ROrder -> {"none", "queued", "run", "done"}],
           \A o \in ROrder : job'[o] # "none" => job[o] # "none" \/ o = h.order \/ o = rh[w].order
    PROVE  EarningInv'
<1>1. rh' \in [RWorker -> Accruals]
    BY DEF Turns, Sound, EarningInv, EarningTypes
<1>2. \A v \in RWorker : rh'[v] = IF v = w THEN h ELSE rh[v]
    BY DEF Turns, EarningInv, EarningTypes
<1>3. ASSUME NEW o \in ROrder, job'[o] # "none" PROVE paid[o] # "new"
    BY <1>3 DEF Sound, EarningInv, EarningTypes, Programme
<1>4. EarningTypes'
    BY <1>1, <1>2, <1>3 DEF Sound, EarningInv, EarningTypes
<1>5. WhoEarns'
    BY <1>1, <1>2 DEF Sound, EarningInv, WhoEarns, Entitled
<1> QED
    BY <1>4, <1>5 DEF EarningInv

LEMMA SoundIdle ==
    ASSUME Programme PROVE Sound(RIdle)
BY DEF Programme, Sound, RIdle, Accruals

LEMMA JobSet ==
    ASSUME EarningInv, NEW o, NEW j \in {"none", "queued", "run", "done"}
    PROVE  /\ [job EXCEPT ![o] = j] \in [ROrder -> {"none", "queued", "run", "done"}]
           /\ \A p \in ROrder : [job EXCEPT ![o] = j][p] # "none" => job[p] # "none" \/ p = o
BY DEF EarningInv, EarningTypes

LEMMA JobFinished ==
    ASSUME Programme, EarningInv, NEW w \in RWorker, FinishJob(w),
           paid' = paid, referral' = referral, earn' = earn
    PROVE  EarningInv'
<1>1. Turns(w, RIdle)
    BY DEF FinishJob, Turns
<1> QED
    BY <1>1, SoundIdle, HandlerTurns, JobSet DEF FinishJob

(* What counts under the ceiling.                                          *)
Rows == ROrder \X EarningType
Owed(e) == [p \in Rows |-> IF e[p[1]][p[2]].status \notin {"none", "CANCELLED"}
                           THEN e[p[1]][p[2]].amount ELSE 0]
Total(e) == Weight(Owed(e), Rows)

LEMMA RowsFinite == Programme => IsFiniteSet(Rows)
<1>1. EarningType = {"PRIME"} \union {"COMMISSION"}
    BY DEF EarningType
<1>2. IsFiniteSet(EarningType)
    BY <1>1, FS_Singleton, FS_Union
<1> QED
    BY <1>2, FS_Product DEF Rows, Programme

LEMMA OwedNat ==
    ASSUME NEW e \in [ROrder -> [EarningType -> EarningRow]]
    PROVE  Owed(e) \in [Rows -> Nat]
<1>1. ASSUME NEW p \in Rows PROVE e[p[1]][p[2]].amount \in Nat
    BY DEF Rows, EarningRow
<1> QED
    BY <1>1 DEF Owed

LEMMA TotalNat ==
    ASSUME Programme, NEW e \in [ROrder -> [EarningType -> EarningRow]]
    PROVE  Total(e) \in Nat
BY RowsFinite, OwedNat, UnitsFinite DEF Total

LEMMA AlreadyIsTotal ==
    ASSUME Programme, EarningInv PROVE Already = Total(earn)
<1> DEFINE pick(s) == CHOOSE x \in s : TRUE
           w == Owed(earn)
           Def(f) == [s \in SUBSET Rows |-> IF s = {} THEN 0 ELSE Amount(pick(s)[1], pick(s)[2]) + f[s \ {pick(s)}]]
           g == [s \in SUBSET Rows |-> Weight(w, s)]
           it == CHOOSE f : f = Def(f)
<1>1. Already = it[Rows]
    BY DEF Already, FoldSet, MapThenFoldSet, Rows
<1>2. \A s \in SUBSET Rows : s # {} => pick(s) \in s
    OBVIOUS
<1>a. IsFiniteSet(Rows) /\ w \in [Rows -> Nat]
    BY RowsFinite, OwedNat DEF EarningInv, EarningTypes
<1>b. \A p \in Rows : Amount(p[1], p[2]) = w[p]
    BY DEF Amount, Counted, Owed
<1> HIDE DEF pick, w
<1>3. g = Def(g)
  <2>1. ASSUME NEW s \in SUBSET Rows
        PROVE  Weight(w, s) = IF s = {} THEN 0 ELSE Amount(pick(s)[1], pick(s)[2]) + g[s \ {pick(s)}]
    <3>1. CASE s = {}
        BY <3>1, WeightNone
    <3>2. CASE s # {}
      <4>1. pick(s) \in s
          BY <1>2, <3>2
      <4>2. Weight(w, s) = Weight(w, s \ {pick(s)}) + w[pick(s)]
          BY <1>a, <4>1, WeightSplit
      <4>3. Weight(w, s \ {pick(s)}) \in Nat /\ w[pick(s)] \in Nat
          BY <1>a, <4>1, UnitsFinite
      <4>4. Amount(pick(s)[1], pick(s)[2]) = w[pick(s)]
          BY <1>b, <4>1
      <4> QED
          BY <3>2, <4>1, <4>2, <4>3, <4>4
    <3> QED
        BY <3>1, <3>2
  <2> QED
      BY <2>1
<1> HIDE DEF g
<1>4. it = Def(it)
    BY <1>3
<1> HIDE DEF it
<1>5. Adds(it, w, Rows)
  <2>1. it[{}] = 0
      BY <1>4
  <2>2. ASSUME NEW s \in SUBSET Rows, s # {}
        PROVE  \E x \in s : it[s \ {x}] \in Nat => it[s] = it[s \ {x}] + w[x]
    <3>1. pick(s) \in s
        BY <1>2, <2>2
    <3>2. it[s] = Amount(pick(s)[1], pick(s)[2]) + it[s \ {pick(s)}]
        BY <1>4, <2>2
    <3>3. Amount(pick(s)[1], pick(s)[2]) = w[pick(s)] /\ w[pick(s)] \in Nat
        BY <1>a, <1>b, <3>1
    <3>4. it[s \ {pick(s)}] \in Nat => it[s] = it[s \ {pick(s)}] + w[pick(s)]
        BY <3>2, <3>3
    <3> QED
        BY <3>1, <3>4
  <2> QED
      BY <2>1, <2>2 DEF Adds
<1>6. it[Rows] = Weight(w, Rows)
    BY <1>a, <1>5, FoldIsWeight
<1> QED
    BY <1>1, <1>6 DEF Total, w

(* What the ceiling leaves of an amount.                                   *)
Insertion(w, n) == [pc |-> "insert", order |-> rh[w].order, type |-> rh[w].type, raw |-> n]

LEMMA CapTurns ==
    ASSUME Programme, EarningInv, NEW w \in RWorker, CapEarning(w), ~FinishJob(w)
    PROVE  \E n \in Nat :
              /\ Turns(w, Insertion(w, n)) /\ earn' = earn /\ job' = job /\ rh[w].pc = "cap"
              /\ rh[w].order \in ROrder /\ rh[w].type \in EarningType
              /\ Cap > 0 => Total(earn) + n <= Cap
<1>0. rh[w].pc = "cap" /\ earn' = earn /\ job' = job /\ ~(Cap > 0 /\ Already >= Cap)
    BY DEF CapEarning
<1>1. /\ rh[w].order \in ROrder /\ rh[w].type \in EarningType /\ rh[w].raw \in Nat
      /\ rh[w] = [pc |-> "cap", order |-> rh[w].order, type |-> rh[w].type, raw |-> rh[w].raw]
  <2>1. rh[w] \in Accruals
      BY DEF EarningInv, EarningTypes
  <2> QED
      BY <1>0, <2>1, AccrualShape
<1>2. PICK n : n = IF Cap = 0 THEN rh[w].raw ELSE Smaller(rh[w].raw, Cap - Already)
    OBVIOUS
<1>3. Already \in Nat /\ Already = Total(earn)
    BY AlreadyIsTotal, TotalNat DEF EarningInv, EarningTypes
<1>4. n \in Nat /\ (Cap > 0 => Total(earn) + n <= Cap)
    BY <1>0, <1>1, <1>2, <1>3 DEF Programme, Smaller
<1>5. Turns(w, Insertion(w, n))
  <2>1. rh' = [rh EXCEPT ![w] = [[@ EXCEPT !.pc = "insert"] EXCEPT !.raw = n]]
      BY <1>2 DEF CapEarning, EarningInv, EarningTypes
  <2>2. PICK i : i = [rh[w] EXCEPT !.pc = "insert"]
      OBVIOUS
  <2>3. i = [pc |-> "insert", order |-> rh[w].order, type |-> rh[w].type, raw |-> rh[w].raw]
    <3>1. \A o, t, m : [[pc |-> "cap", order |-> o, type |-> t, raw |-> m] EXCEPT !.pc = "insert"]
                          = [pc |-> "insert", order |-> o, type |-> t, raw |-> m]
        OBVIOUS
    <3> QED
        BY <1>1, <2>2, <3>1
  <2>4. [i EXCEPT !.raw = n] = Insertion(w, n)
      BY <2>3 DEF Insertion
  <2> QED
      BY <2>1, <2>2, <2>4 DEF Turns
<1> QED
    BY <1>0, <1>1, <1>4, <1>5

LEMMA WorkerSteps ==
    ASSUME Programme, EarningInv, NEW w \in RWorker,
           ChoosePrime(w) \/ ChooseCommission(w) \/ CapEarning(w)
    PROVE  EarningInv'
<1>0. rh[w] \in Accruals /\ paid' = paid /\ referral' = referral /\ earn' = earn
    BY DEF EarningInv, EarningTypes, ChoosePrime, ChooseCommission, CapEarning
<1>j. job \in [ROrder -> {"none", "queued", "run", "done"}]
    BY DEF EarningInv, EarningTypes
<1>1. CASE FinishJob(w)
    BY <1>0, <1>1, JobFinished
<1>2. ASSUME job' = job, NEW h, Turns(w, h), Sound(h) PROVE EarningInv'
    BY <1>0, <1>j, <1>2, HandlerTurns
<1>3. ASSUME ChoosePrime(w), ~FinishJob(w) PROVE EarningInv'
  <2>1. PICK h : h = [pc |-> "cap", order |-> rh[w].order, type |-> "PRIME", raw |-> Prime]
      OBVIOUS
  <2>2. rh[w].pc = "prime" /\ job' = job /\ Turns(w, h)
      BY <1>3, <2>1, <1>0 DEF ChoosePrime, Turns, EarningInv, EarningTypes
  <2>3. rh[w].order \in ROrder /\ rh[w].order # NoOrder
      BY <1>0, <2>2, AccrualShape
  <2>4. h \in Accruals
      BY <2>1, <2>3 DEF Accruals, Programme, EarningType
  <2>5. Sound(h)
      BY <2>1, <2>2, <2>3, <2>4 DEF Sound, EarningInv, EarningTypes, WhoEarns
  <2> QED
      BY <1>2, <2>2, <2>5
<1>4. ASSUME ChooseCommission(w), ~FinishJob(w) PROVE EarningInv'
  <2>1. PICK h : h = [pc |-> "cap", order |-> rh[w].order, type |-> "COMMISSION", raw |-> Commission[rh[w].order]]
      OBVIOUS
  <2>2. rh[w].pc = "commission" /\ job' = job /\ Turns(w, h) /\ referral.order # rh[w].order
      BY <1>4, <2>1, <1>0 DEF ChooseCommission, Turns
  <2>3. rh[w].order \in ROrder /\ rh[w].order # NoOrder
      BY <1>0, <2>2, AccrualShape
  <2>4. h \in Accruals
      BY <2>1, <2>3 DEF Accruals, Programme, EarningType
  <2>5. Sound(h)
      BY <2>1, <2>2, <2>3, <2>4 DEF Sound, EarningInv, EarningTypes, WhoEarns, Entitled
  <2> QED
      BY <1>2, <2>2, <2>5
<1>5. ASSUME CapEarning(w), ~FinishJob(w) PROVE EarningInv'
  <2>1. PICK n \in Nat : /\ Turns(w, Insertion(w, n)) /\ job' = job /\ rh[w].pc = "cap"
                         /\ rh[w].order \in ROrder /\ rh[w].type \in EarningType
      BY <1>5, CapTurns
  <2>2. PICK h : h = Insertion(w, n)
      OBVIOUS
  <2>3. h \in Accruals
      BY <2>1, <2>2 DEF Accruals, Insertion
  <2>4. Sound(h)
      BY <2>1, <2>2, <2>3 DEF Insertion, Sound, EarningInv, EarningTypes, WhoEarns, Entitled
  <2> QED
      BY <1>2, <2>1, <2>2, <2>4
<1> QED
    BY <1>3, <1>4, <1>5, <1>1

(* What a cancellation or the back office does to the rows.                *)
Advances(a, b) ==
    /\ b \in [ROrder -> [EarningType -> EarningRow]]
    /\ \A o \in ROrder, t \in EarningType :
          \/ b[o][t] = a[o][t]
          \/ /\ a[o][t].status \in {"PENDING", "PAYABLE"}
             /\ b[o][t].status \in {"PAYABLE", "PAID", "CANCELLED"}
             /\ b[o][t].amount = a[o][t].amount

BackOffice ==
    \/ adminApplyPayoutThreshold
    \/ \E o \in ROrder : revokeEarningsForCancelledOrder(o)
    \/ \E o \in ROrder, t \in EarningType : adminMarkPayable(o, t) \/ adminMarkPaid(o, t)

Moved(r, s) == [r EXCEPT !.status = s]

LEMMA StatusChange ==
    ASSUME NEW r \in EarningRow, NEW s \in {"PAYABLE", "PAID", "CANCELLED"}
    PROVE  Moved(r, s) \in EarningRow /\ Moved(r, s).status = s /\ Moved(r, s).amount = r.amount
BY DEF EarningRow, Moved

LEMMA OneAdvances ==
    ASSUME EarningInv, NEW o \in ROrder, NEW t \in EarningType, earn[o][t].status \in {"PENDING", "PAYABLE"},
           NEW s \in {"PAYABLE", "PAID", "CANCELLED"}, NEW b, b = [earn EXCEPT ![o][t].status = s]
    PROVE  Advances(earn, b)
<1>1. earn \in [ROrder -> [EarningType -> EarningRow]]
    BY DEF EarningInv, EarningTypes
<1>2. PICK r : r = Moved(earn[o][t], s)
    OBVIOUS
<1>3. r \in EarningRow /\ r.status = s /\ r.amount = earn[o][t].amount
    BY <1>1, <1>2, StatusChange
<1>4. b = [earn EXCEPT ![o] = [earn[o] EXCEPT ![t] = r]]
    BY <1>1, <1>2 DEF Moved
<1> QED
    BY <1>1, <1>3, <1>4 DEF Advances

LEMMA OfficeAdvances ==
    ASSUME EarningInv, BackOffice
    PROVE  /\ Advances(earn, earn')
           /\ UNCHANGED <<referral, paid, job, rh>>
<1>0. earn \in [ROrder -> [EarningType -> EarningRow]]
    BY DEF EarningInv, EarningTypes
<1>1. UNCHANGED <<referral, paid, job, rh>>
    BY DEF BackOffice, adminApplyPayoutThreshold, revokeEarningsForCancelledOrder, adminMarkPayable, adminMarkPaid
<1>2. ASSUME NEW o \in ROrder, NEW t \in EarningType, adminMarkPayable(o, t) PROVE Advances(earn, earn')
    BY <1>2, OneAdvances DEF adminMarkPayable
<1>3. ASSUME NEW o \in ROrder, NEW t \in EarningType, adminMarkPaid(o, t) PROVE Advances(earn, earn')
    BY <1>3, OneAdvances DEF adminMarkPaid
<1>4. ASSUME NEW o \in ROrder, revokeEarningsForCancelledOrder(o) PROVE Advances(earn, earn')
  <2>1. \A t \in EarningType : Moved(earn[o][t], "CANCELLED") \in EarningRow
      BY <1>0, StatusChange
  <2>2. PICK c : c = [t \in EarningType |-> IF earn[o][t].status \in {"PENDING", "PAYABLE"}
                                            THEN Moved(earn[o][t], "CANCELLED") ELSE earn[o][t]]
      OBVIOUS
  <2>3. earn' = [earn EXCEPT ![o] = c]
      BY <1>0, <1>4, <2>2 DEF revokeEarningsForCancelledOrder, Moved
  <2>4. c \in [EarningType -> EarningRow]
      BY <1>0, <2>1, <2>2
  <2>5. \A t \in EarningType : \/ c[t] = earn[o][t]
                               \/ /\ earn[o][t].status \in {"PENDING", "PAYABLE"}
                                  /\ c[t].status = "CANCELLED" /\ c[t].amount = earn[o][t].amount
      BY <1>0, <2>2, StatusChange
  <2> QED
      BY <1>0, <2>3, <2>4, <2>5 DEF Advances
<1>5. ASSUME adminApplyPayoutThreshold PROVE Advances(earn, earn')
  <2>1. \A o \in ROrder, t \in EarningType :
            /\ Moved(earn[o][t], "PAYABLE") \in EarningRow
            /\ Moved(earn[o][t], "PAYABLE").status = "PAYABLE"
            /\ Moved(earn[o][t], "PAYABLE").amount = earn[o][t].amount
      BY <1>0, StatusChange
  <2>2. \A o \in ROrder, t \in EarningType : <<o, t>> \in Pending => earn[o][t].status = "PENDING"
      BY DEF Pending
  <2>3. earn' = [o \in ROrder |-> [t \in EarningType |->
                    IF <<o, t>> \in Pending THEN Moved(earn[o][t], "PAYABLE") ELSE earn[o][t]]]
      BY <1>5 DEF adminApplyPayoutThreshold, Moved
  <2> QED
      BY <1>0, <2>1, <2>2, <2>3 DEF Advances
<1> QED
    BY <1>1, <1>2, <1>3, <1>4, <1>5 DEF BackOffice

LEMMA OfficeKeeps ==
    ASSUME EarningInv, BackOffice PROVE EarningInv'
<1>1. Advances(earn, earn') /\ UNCHANGED <<referral, paid, job, rh>>
    BY OfficeAdvances
<1>2. \A o \in ROrder, t \in EarningType : earn'[o][t].status # "none" => earn[o][t].status # "none"
    BY <1>1 DEF Advances
<1>3. EarningTypes'
    BY <1>1, <1>2 DEF EarningInv, EarningTypes, Advances
<1>4. WhoEarns'
    BY <1>1, <1>2 DEF EarningInv, WhoEarns, Entitled
<1> QED
    BY <1>3, <1>4 DEF EarningInv

(* The insertion of an earning.                                            *)
Inserts(w, e) ==
    \A o \in ROrder, t \in EarningType :
        \/ e[o][t] = earn[o][t]
        \/ /\ o = rh[w].order /\ t = rh[w].type /\ earn[o][t].status = "none"
           /\ e[o][t].amount = rh[w].raw /\ e[o][t].status = "PENDING"

LEMMA Inserted ==
    ASSUME Programme, EarningInv, NEW w \in RWorker, createEarning(w)
    PROVE  /\ rh[w].order \in ROrder /\ rh[w].type \in EarningType /\ rh[w].raw \in Nat
           /\ earn' \in [ROrder -> [EarningType -> EarningRow]]
           /\ Inserts(w, earn')
<1>0. earn \in [ROrder -> [EarningType -> EarningRow]] /\ rh[w] \in Accruals
    BY DEF EarningInv, EarningTypes
<1>1. rh[w].order \in ROrder /\ rh[w].type \in EarningType /\ rh[w].raw \in Nat
    BY <1>0, AccrualShape DEF createEarning
<1>2. PICK r : r = [amount |-> rh[w].raw, status |-> "PENDING"]
    OBVIOUS
<1>3. r \in EarningRow
    BY <1>1, <1>2 DEF EarningRow
<1>4. CASE earn' = earn
    BY <1>0, <1>1, <1>4 DEF Inserts
<1>5. CASE earn[rh[w].order][rh[w].type].status = "none" /\ earn' # earn
  <2>1. earn' = [earn EXCEPT ![rh[w].order] = [earn[rh[w].order] EXCEPT ![rh[w].type] = r]]
      BY <1>0, <1>1, <1>2, <1>5 DEF createEarning
  <2> QED
      BY <1>0, <1>1, <1>2, <1>3, <1>5, <2>1 DEF Inserts
<1> QED
    BY <1>4, <1>5 DEF createEarning

LEMMA InsertKeeps ==
    ASSUME Programme, EarningInv, NEW w \in RWorker, createEarning(w) PROVE EarningInv'
<1>1. /\ rh[w].pc = "insert" /\ rh' = [rh EXCEPT ![w] = RIdle]
      /\ job' = [job EXCEPT ![rh[w].order] = "done"]
      /\ referral' = referral /\ paid' = paid
    BY DEF createEarning, FinishJob
<1>2. rh[w] \in Accruals /\ RIdle \in Accruals /\ RIdle.pc = "idle" /\ RIdle.order = NoOrder
    BY DEF EarningInv, EarningTypes, Accruals, RIdle
<1>3. rh[w].order \in ROrder /\ rh[w].order # NoOrder
    BY <1>1, <1>2, AccrualShape
<1>4. rh' \in [RWorker -> Accruals] /\ \A v \in RWorker : rh'[v] = IF v = w THEN RIdle ELSE rh[v]
    BY <1>1, <1>2 DEF EarningInv, EarningTypes
<1>5. \A o \in ROrder, t \in EarningType :
          earn'[o][t].status # "none" => earn[o][t].status # "none" \/ (o = rh[w].order /\ t = rh[w].type)
  <2>1. ASSUME NEW o \in ROrder, NEW t \in EarningType
        PROVE  earn'[o][t] = earn[o][t] \/ (o = rh[w].order /\ t = rh[w].type)
    <3>1. Inserts(w, earn')
        BY Inserted
    <3> QED
        BY <3>1 DEF Inserts
  <2> QED
      BY <2>1
<1>6. paid[rh[w].order] # "new" /\ Entitled(rh[w].order, rh[w].type)
    BY <1>1, <1>3 DEF EarningInv, EarningTypes, WhoEarns
<1>7. earn' \in [ROrder -> [EarningType -> EarningRow]]
    BY Inserted
<1>8. EarningTypes'
    BY <1>1, <1>2, <1>3, <1>4, <1>5, <1>6, <1>7 DEF EarningInv, EarningTypes
<1>9. WhoEarns'
    BY <1>1, <1>2, <1>4, <1>5, <1>6 DEF EarningInv, WhoEarns, Entitled
<1> QED
    BY <1>8, <1>9 DEF EarningInv

LEMMA StartOrRetry ==
    ASSUME Programme, EarningInv, NEW w \in RWorker, NEW o \in ROrder,
           accrueForPaidOrder(w, o) \/ RetryJob(w, o)
    PROVE  EarningInv'
<1>0. /\ paid' = paid /\ referral' = referral /\ earn' = earn
      /\ job \in [ROrder -> {"none", "queued", "run", "done"}]
      /\ rh \in [RWorker -> Accruals]
    BY DEF EarningInv, EarningTypes, accrueForPaidOrder, RetryJob
<1>1. CASE RetryJob(w, o)
  <2>1. job' = [job EXCEPT ![o] = "queued"]
      BY <1>1 DEF RetryJob
  <2>2. job' \in [ROrder -> {"none", "queued", "run", "done"}]
      BY <1>0, <2>1
  <2>3. CASE rh[w].order = o /\ rh' = [rh EXCEPT ![w] = RIdle]
    <3>1. Turns(w, RIdle)
        BY <2>3 DEF Turns
    <3> QED
        BY <1>0, <2>1, <2>2, <2>3, <3>1, SoundIdle, HandlerTurns
  <2>4. CASE job[o] = "done" /\ rh' = rh
    <3>1. \A p \in ROrder : job'[p] # "none" => job[p] # "none"
        BY <1>0, <2>1, <2>4
    <3> QED
        BY <1>0, <2>2, <2>4, <3>1 DEF EarningInv, EarningTypes, WhoEarns, Entitled
  <2> QED
      BY <1>1, <2>3, <2>4 DEF RetryJob
<1>2. CASE accrueForPaidOrder(w, o)
  <2>1. job[o] = "queued" /\ rh[w] = RIdle
      BY <1>2 DEF accrueForPaidOrder
  <2>2. CASE job' = [job EXCEPT ![o] = "done"] /\ rh' = rh
    <3>1. /\ \A p \in ROrder : job'[p] # "none" => job[p] # "none"
          /\ job' \in [ROrder -> {"none", "queued", "run", "done"}]
        BY <1>0, <2>1, <2>2
    <3> QED
        BY <1>0, <2>2, <3>1 DEF EarningInv, EarningTypes, WhoEarns, Entitled
  <2>3. CASE ~(job' = [job EXCEPT ![o] = "done"] /\ rh' = rh)
    <3>1. PICK h : h = [pc |-> "qualify", order |-> o]
        OBVIOUS
    <3>2. Turns(w, h) /\ job' = [job EXCEPT ![o] = "run"] /\ referral.status # "none"
        BY <1>2, <2>3, <3>1 DEF accrueForPaidOrder, Turns
    <3>3. Sound(h)
        BY <1>0, <2>1, <3>1, <3>2 DEF Sound, Accruals, EarningInv, EarningTypes
    <3>4. /\ job' \in [ROrder -> {"none", "queued", "run", "done"}]
          /\ \A p \in ROrder : job'[p] # "none" => job[p] # "none" \/ p = o
        BY <3>2, JobSet
    <3> QED
        BY <1>0, <3>1, <3>2, <3>3, <3>4, HandlerTurns
  <2> QED
      BY <2>2, <2>3
<1> QED
    BY <1>1, <1>2

LEMMA Qualifies ==
    ASSUME Programme, EarningInv, NEW w \in RWorker, qualifyReferralForPaidOrder(w)
    PROVE  EarningInv'
<1>0. /\ rh[w].pc = "qualify" /\ paid' = paid /\ job' = job /\ earn' = earn
      /\ rh[w] \in Accruals
    BY DEF EarningInv, EarningTypes, qualifyReferralForPaidOrder
<1>1. /\ rh[w].order \in ROrder /\ rh[w].order # NoOrder
      /\ rh[w] = [pc |-> "qualify", order |-> rh[w].order]
    BY <1>0, AccrualShape
<1>2. PICK pc \in {"prime", "commission"} :
          /\ rh' = [rh EXCEPT ![w].pc = pc]
          /\ pc = "prime" => /\ referral.status = "PENDING"
                             /\ referral' = [referral EXCEPT !.status = "REWARDED", !.order = rh[w].order]
          /\ pc = "commission" => referral.status # "PENDING" /\ referral' = referral
    BY <1>0 DEF qualifyReferralForPaidOrder, RPut
<1>3. PICK h : h = [pc |-> pc, order |-> rh[w].order]
    OBVIOUS
<1>4. Turns(w, h)
  <2>1. \A o : [[pc |-> "qualify", order |-> o] EXCEPT !.pc = pc] = [pc |-> pc, order |-> o]
      OBVIOUS
  <2>2. [rh[w] EXCEPT !.pc = pc] = h
      BY <1>1, <1>3, <2>1
  <2> QED
      BY <1>2, <2>2 DEF Turns
<1>5. h \in Accruals
    BY <1>1, <1>3 DEF Accruals
<1>6. CASE pc = "commission"
  <2>1. referral.status = "REWARDED"
      BY <1>0, <1>2, <1>6 DEF EarningInv, EarningTypes, WhoEarns
  <2>2. Sound(h)
      BY <1>0, <1>1, <1>3, <1>5, <1>6, <2>1 DEF Sound, EarningInv, EarningTypes
  <2> QED
      BY <1>0, <1>2, <1>4, <1>6, <2>2, HandlerTurns DEF EarningInv, EarningTypes
<1>7. CASE pc = "prime"
  <2>1. /\ referral.status = "PENDING"
        /\ referral'.status = "REWARDED" /\ referral'.order = rh[w].order
        /\ referral' = [status |-> referral'.status, order |-> referral'.order, gift |-> referral'.gift]
      BY <1>2, <1>7 DEF EarningInv, EarningTypes
  <2>2. /\ rh' \in [RWorker -> Accruals]
        /\ \A v \in RWorker : rh'[v] = IF v = w THEN h ELSE rh[v]
      BY <1>4, <1>5 DEF Turns, EarningInv, EarningTypes
  <2>3. EarningTypes'
      BY <1>0, <1>1, <1>3, <2>1, <2>2 DEF EarningInv, EarningTypes
  <2>4. \A o \in ROrder, t \in EarningType : earn[o][t].status = "none"
      BY <2>1 DEF EarningInv, WhoEarns, Entitled
  <2>5. \A v \in RWorker : rh[v].pc \notin {"prime", "commission", "cap", "insert"}
      BY <2>1 DEF EarningInv, WhoEarns, Entitled
  <2>6. WhoEarns'
      BY <1>0, <1>1, <1>3, <1>7, <2>1, <2>2, <2>4, <2>5 DEF WhoEarns, Entitled
  <2> QED
      BY <2>3, <2>6 DEF EarningInv
<1> QED
    BY <1>2, <1>6, <1>7

(* The referee: his code, his gift, his orders.                            *)
Referee ==
    \/ applyReferralCode \/ createWelcomeGift \/ WindowCloses
    \/ \E o \in ROrder : PayOrder(o) \/ CancelPaid(o) \/ restoreConsumedGiftsForOrder(o)

LEMMA RefereeSteps ==
    ASSUME Programme, EarningInv, Referee PROVE EarningInv'
<1>0. earn' = earn /\ rh' = rh
    BY DEF Referee, applyReferralCode, createWelcomeGift, WindowCloses, PayOrder, CancelPaid,
           restoreConsumedGiftsForOrder
<1>1. CASE applyReferralCode \/ createWelcomeGift
  <2>1. /\ paid' = paid /\ job' = job
        /\ \A o \in ROrder : paid[o] = "new"
        /\ referral.status \in {"none", "PENDING"} /\ referral'.status = "PENDING" /\ referral'.order = referral.order
        /\ referral' = [status |-> referral'.status, order |-> referral'.order, gift |-> referral'.gift]
      BY <1>1 DEF applyReferralCode, createWelcomeGift, EarningInv, EarningTypes
  <2>2. \A w \in RWorker : rh[w].pc = "idle"
    <3>1. ASSUME NEW w \in RWorker PROVE rh[w].pc = "idle"
      <4>1. rh[w] \in Accruals /\ (rh[w].order # NoOrder => paid[rh[w].order] # "new")
          BY DEF EarningInv, EarningTypes
      <4> QED
          BY <2>1, <4>1, AccrualShape
    <3> QED
        BY <3>1
  <2>3. \A o \in ROrder, t \in EarningType : earn[o][t].status = "none"
      BY <2>1 DEF EarningInv, EarningTypes
  <2> QED
      BY <1>0, <2>1, <2>2, <2>3 DEF EarningInv, EarningTypes, WhoEarns
<1>2. CASE WindowCloses \/ \E o \in ROrder : restoreConsumedGiftsForOrder(o)
    BY <1>0, <1>2 DEF WindowCloses, restoreConsumedGiftsForOrder, EarningInv, EarningTypes, WhoEarns, Entitled
<1>3. ASSUME NEW o \in ROrder, PayOrder(o) \/ CancelPaid(o) PROVE EarningInv'
  <2>1. /\ paid' \in [ROrder -> {"new", "paid", "cancelled"}]
        /\ paid'[o] # "new" /\ \A p \in ROrder : p # o => paid'[p] = paid[p]
      BY <1>3 DEF PayOrder, CancelPaid, EarningInv, EarningTypes
  <2>2. /\ job' \in [ROrder -> {"none", "queued", "run", "done"}]
        /\ \A p \in ROrder : p # o => job'[p] = job[p]
        /\ referral' = referral
      BY <1>3 DEF PayOrder, CancelPaid, EarningInv, EarningTypes
  <2>3. \A p : paid[p] # "new" /\ p \in ROrder => paid'[p] # "new"
      BY <2>1
  <2>4. \A w \in RWorker : rh[w].order # NoOrder => rh[w].order \in ROrder
    <3>1. ASSUME NEW w \in RWorker PROVE rh[w] \in Accruals
        BY DEF EarningInv, EarningTypes
    <3> QED
        BY <3>1, AccrualShape DEF RIdle
  <2>5. EarningTypes'
      BY <1>0, <2>1, <2>2, <2>3, <2>4 DEF EarningInv, EarningTypes
  <2>6. WhoEarns'
      BY <1>0, <2>2 DEF EarningInv, WhoEarns, Entitled
  <2> QED
      BY <2>5, <2>6 DEF EarningInv
<1> QED
    BY <1>1, <1>2, <1>3 DEF Referee

(* The steps of the model, by who takes them.                              *)
LEMMA ByActor ==
    ASSUME RNext
    PROVE  \/ Referee \/ BackOffice
           \/ \E w \in RWorker :
                 \/ qualifyReferralForPaidOrder(w) \/ createEarning(w)
                 \/ ChoosePrime(w) \/ ChooseCommission(w) \/ CapEarning(w)
                 \/ \E o \in ROrder : accrueForPaidOrder(w, o) \/ RetryJob(w, o)
BY DEF RNext, RStep, Referee, BackOffice

LEMMA EarningAlways ==
    ASSUME Programme PROVE RSpec => []EarningInv
<1>1. EarningInv /\ [RNext]_rvars => EarningInv'
  <2>1. ASSUME EarningInv, RNext PROVE EarningInv'
      BY <2>1, ByActor, RefereeSteps, OfficeKeeps, Qualifies, InsertKeeps, WorkerSteps, StartOrRetry
  <2>2. ASSUME EarningInv, UNCHANGED rvars PROVE EarningInv'
      BY <2>2 DEF rvars, EarningInv, EarningTypes, WhoEarns, Entitled
  <2> QED
      BY <2>1, <2>2
<1> QED
    BY <1>1, EarningStart, PTL DEF RSpec

(* The rows of the referral keep their types, and an earning is for an     *)
(* order that was paid.                                                    *)
THEOREM ReferralTypeCorrect ==
    ASSUME Programme PROVE RSpec => []RTypeOK
<1>1. EarningInv => RTypeOK
  <2>1. ASSUME EarningInv, NEW o \in ROrder, NEW t \in EarningType
        PROVE  earn[o][t] \in EarningRow
      BY <2>1 DEF EarningInv, EarningTypes
  <2> QED
      BY <2>1 DEF EarningInv, EarningTypes, EarningRow, RTypeOK
<1> QED
    BY <1>1, EarningAlways, PTL

(* The order that qualifies earns the prime and no commission, and no      *)
(* other order a prime, for any number of jobs at once, run again or not   *)
(* (accrueForPaidOrder, qualifyReferralForPaidOrder).                      *)
THEOREM PrimeIsForTheQualifier ==
    ASSUME Programme PROVE RSpec => []QualifyingEarnsPrimeOnly
<1>1. EarningInv => QualifyingEarnsPrimeOnly
    BY DEF EarningInv, WhoEarns, Entitled, QualifyingEarnsPrimeOnly, EarningType
<1> QED
    BY <1>1, EarningAlways, PTL

(* What was paid out or cancelled stays so, whatever jobs, cancellations   *)
(* and payouts interleave.                                                 *)
THEOREM EarningStays ==
    ASSUME Programme PROVE RSpec => EarningIsFinal
<1> DEFINE Stays == \A o \in ROrder, t \in EarningType :
                        earn[o][t].status \in {"PAID", "CANCELLED"} => earn'[o][t] = earn[o][t]
<1>1. EarningInv /\ [RNext]_rvars => [Stays]_rvars
  <2>1. ASSUME EarningInv, RNext PROVE Stays
    <3>1. CASE earn' = earn
        BY <3>1
    <3>2. CASE BackOffice
      <4>1. Advances(earn, earn')
          BY <2>1, <3>2, OfficeAdvances
      <4> QED
          BY <4>1 DEF Advances
    <3>3. ASSUME NEW w \in RWorker, createEarning(w) PROVE Stays
      <4>1. Inserts(w, earn')
          BY <2>1, <3>3, Inserted
      <4> QED
          BY <4>1 DEF Inserts
    <3>4. earn' = earn \/ BackOffice \/ \E w \in RWorker : createEarning(w)
        BY <2>1, ByActor DEF Referee, applyReferralCode, createWelcomeGift, WindowCloses, PayOrder, CancelPaid,
           restoreConsumedGiftsForOrder, qualifyReferralForPaidOrder, ChoosePrime, ChooseCommission, CapEarning,
           accrueForPaidOrder, RetryJob
    <3> QED
        BY <3>1, <3>2, <3>3, <3>4
  <2> QED
      BY <2>1
<1> QED
    BY <1>1, EarningAlways, PTL DEF RSpec, EarningIsFinal

-----------------------------------------------------------------------------
(* One job at a time. *)

OneJob == \E w : RWorker = {w}

(* A handler about to insert an earning leaves the others the rest of the  *)
(* ceiling.                                                                *)
CapInv ==
    Cap > 0 => /\ Total(earn) <= Cap
               /\ \A w \in RWorker : rh[w].pc = "insert" => Total(earn) + rh[w].raw <= Cap

NoEarningYet == \A o \in ROrder, t \in EarningType : earn[o][t].status = "none"
PrimeDue(o) == o = referral.order /\ Basket[o] >= MinBasket /\ Prime > 0 /\ o \notin retried

(* The order that has qualified has its prime, or the handler that will    *)
(* give it, which nothing earned before can stop.                          *)
PrimeInv ==
    /\ \A w \in RWorker : rh[w].pc # "idle" => job[rh[w].order] = "run"
    /\ \A w \in RWorker :
          rh[w].pc = "prime" \/ (rh[w].pc = "cap" /\ rh[w].type = "PRIME") => NoEarningYet
    /\ \A o \in ROrder :
          PrimeDue(o) => \/ earn[o]["PRIME"].status # "none"
                         \/ \E w \in RWorker : rh[w].order = o /\ rh[w].pc \in {"prime", "cap", "insert"}

LEMMA NothingOwed ==
    ASSUME EarningInv, NoEarningYet PROVE Total(earn) = 0
<1>1. \A p \in Rows : Owed(earn)[p] = 0
    BY DEF NoEarningYet, Rows, Owed
<1>2. Weight(Owed(earn), Rows) = Weight(Owed(earn), {})
    BY <1>1, WeightRest
<1> QED
    BY <1>2, WeightNone DEF Total

LEMMA AdvanceOwesLess ==
    ASSUME Programme, NEW a \in [ROrder -> [EarningType -> EarningRow]], NEW b, Advances(a, b)
    PROVE  Total(b) <= Total(a)
<1>1. b \in [ROrder -> [EarningType -> EarningRow]]
    BY DEF Advances
<1>2. Owed(a) \in [Rows -> Nat] /\ Owed(b) \in [Rows -> Nat]
    BY <1>1, OwedNat
<1>3. ASSUME NEW p \in Rows PROVE Owed(b)[p] # 0 => Owed(b)[p] <= Owed(a)[p]
  <2>1. p[1] \in ROrder /\ p[2] \in EarningType
      BY DEF Rows
  <2>2. PICK x \in EarningRow : x = a[p[1]][p[2]]
      BY <2>1
  <2>3. PICK y \in EarningRow : y = b[p[1]][p[2]]
      BY <1>1, <2>1
  <2>4. \/ y = x
        \/ /\ x.status \in {"PENDING", "PAYABLE"} /\ y.amount = x.amount
      BY <2>1, <2>2, <2>3 DEF Advances
  <2>5. /\ Owed(a)[p] = IF x.status \notin {"none", "CANCELLED"} THEN x.amount ELSE 0
        /\ Owed(b)[p] = IF y.status \notin {"none", "CANCELLED"} THEN y.amount ELSE 0
      BY <2>2, <2>3 DEF Owed
  <2>6. x.amount \in Nat /\ y.amount \in Nat
      BY <2>2, <2>3 DEF EarningRow
  <2> QED
      BY <2>4, <2>5, <2>6
<1> QED
    BY <1>2, <1>3, RowsFinite, WeightGrows DEF Total

LEMMA InsertOwes ==
    ASSUME Programme, EarningInv, NEW w \in RWorker, createEarning(w)
    PROVE  Total(earn') <= Total(earn) + rh[w].raw
<1>0. /\ earn \in [ROrder -> [EarningType -> EarningRow]]
      /\ earn' \in [ROrder -> [EarningType -> EarningRow]]
      /\ rh[w].order \in ROrder /\ rh[w].type \in EarningType /\ rh[w].raw \in Nat
      /\ Inserts(w, earn')
    BY Inserted DEF EarningInv, EarningTypes
<1>1. PICK e \in [ROrder -> [EarningType -> EarningRow]] : e = earn'
    BY <1>0
<1>2. PICK x \in Rows : x = <<rh[w].order, rh[w].type>>
    BY <1>0 DEF Rows
<1>3. Owed(earn) \in [Rows -> Nat] /\ Owed(e) \in [Rows -> Nat]
    BY <1>0, <1>1, OwedNat
<1>4. ASSUME NEW p \in Rows \ {x} PROVE Owed(e)[p] = Owed(earn)[p]
  <2>1. p[1] \in ROrder /\ p[2] \in EarningType /\ p = <<p[1], p[2]>>
      BY DEF Rows
  <2>2. e[p[1]][p[2]] = earn[p[1]][p[2]]
      BY <1>0, <1>1, <1>2, <1>4, <2>1 DEF Inserts
  <2> QED
      BY <2>2 DEF Owed
<1>5. Owed(e)[x] <= Owed(earn)[x] + rh[w].raw
  <2>1. x[1] = rh[w].order /\ x[2] = rh[w].type
      BY <1>2
  <2>2. e[x[1]][x[2]] = earn[x[1]][x[2]] \/ e[x[1]][x[2]].amount = rh[w].raw
      BY <1>0, <1>1, <2>1 DEF Inserts
  <2>3. Owed(e)[x] \in {0, e[x[1]][x[2]].amount}
      BY DEF Owed
  <2>4. e[x[1]][x[2]] = earn[x[1]][x[2]] => Owed(e)[x] = Owed(earn)[x]
      BY DEF Owed
  <2>5. Owed(e)[x] = Owed(earn)[x] \/ Owed(e)[x] \in {0, rh[w].raw}
      BY <2>2, <2>3, <2>4
  <2>6. Owed(e)[x] \in Nat /\ Owed(earn)[x] \in Nat
      BY <1>3
  <2> QED
      BY <1>0, <2>5, <2>6
<1>6. Total(e) = Total(earn) - Owed(earn)[x] + Owed(e)[x]
    BY <1>3, <1>4, RowsFinite, WeightChange DEF Total
<1>7. Total(e) \in Nat /\ Total(earn) \in Nat /\ Owed(e)[x] \in Nat /\ Owed(earn)[x] \in Nat
    BY <1>0, <1>1, <1>3, TotalNat
<1>8. Total(e) <= Total(earn) + rh[w].raw
    BY <1>0, <1>5, <1>6, <1>7
<1> QED
    BY <1>1, <1>8

(* The steps that end or start no insertion.                               *)
LEMMA CapUntouched ==
    ASSUME CapInv, earn' = earn,
           \A w \in RWorker : rh'[w] = rh[w] \/ rh'[w].pc # "insert"
    PROVE  CapInv'
BY DEF CapInv

LEMMA CapStart ==
    ASSUME Programme, RInit PROVE CapInv
<1>1. EarningInv
    BY EarningStart
<1>2. NoEarningYet
    BY DEF RInit, NoEarningYet, NoEarning
<1>3. \A w \in RWorker : rh[w].pc = "idle"
    BY DEF RInit, RIdle
<1> QED
    BY <1>1, <1>2, <1>3, NothingOwed DEF CapInv, Programme

(* What the handlers do to each other: nothing.                            *)
LEMMA StepsElsewhere ==
    ASSUME Programme, EarningInv, NEW w \in RWorker,
           \/ qualifyReferralForPaidOrder(w) \/ ChoosePrime(w) \/ ChooseCommission(w)
           \/ (CapEarning(w) /\ FinishJob(w))
           \/ \E o \in ROrder : accrueForPaidOrder(w, o) \/ RetryJob(w, o)
    PROVE  /\ earn' = earn
           /\ \A v \in RWorker : rh'[v] = rh[v] \/ rh'[v].pc # "insert"
<1>0. /\ rh \in [RWorker -> Accruals] /\ RIdle.pc # "insert"
    BY DEF EarningInv, EarningTypes, RIdle
<1>1. ASSUME NEW h, Turns(w, h), h.pc # "insert" PROVE \A v \in RWorker : rh'[v] = rh[v] \/ rh'[v].pc # "insert"
    BY <1>0, <1>1 DEF Turns
<1>2. ASSUME FinishJob(w) PROVE \A v \in RWorker : rh'[v] = rh[v] \/ rh'[v].pc # "insert"
    BY <1>0, <1>1, <1>2 DEF FinishJob, Turns
<1>3. earn' = earn
    BY DEF qualifyReferralForPaidOrder, ChoosePrime, ChooseCommission, CapEarning, accrueForPaidOrder, RetryJob
<1>4. CASE qualifyReferralForPaidOrder(w)
  <2>1. PICK pc \in {"prime", "commission"} : rh' = [rh EXCEPT ![w].pc = pc]
      BY <1>4 DEF qualifyReferralForPaidOrder, RPut
  <2>2. rh[w] = [pc |-> "qualify", order |-> rh[w].order]
      BY <1>0, <1>4, AccrualShape DEF qualifyReferralForPaidOrder
  <2>3. PICK h : h = [rh[w] EXCEPT !.pc = pc]
      OBVIOUS
  <2>4. h.pc = pc
      BY <2>2, <2>3
  <2> QED
      BY <1>1, <1>3, <2>1, <2>3, <2>4 DEF Turns
<1>5. CASE ChoosePrime(w)
  <2>1. PICK h : h = [pc |-> "cap", order |-> rh[w].order, type |-> "PRIME", raw |-> Prime]
      OBVIOUS
  <2>2. FinishJob(w) \/ Turns(w, h)
      BY <1>0, <1>5, <2>1 DEF ChoosePrime, Turns
  <2> QED
      BY <1>1, <1>3, <1>2, <2>1, <2>2
<1>6. CASE ChooseCommission(w)
  <2>1. PICK h : h = [pc |-> "cap", order |-> rh[w].order, type |-> "COMMISSION", raw |-> Commission[rh[w].order]]
      OBVIOUS
  <2>2. FinishJob(w) \/ Turns(w, h)
      BY <1>6, <2>1 DEF ChooseCommission, Turns
  <2> QED
      BY <1>1, <1>3, <1>2, <2>1, <2>2
<1>7. ASSUME NEW o \in ROrder, accrueForPaidOrder(w, o)
      PROVE  \A v \in RWorker : rh'[v] = rh[v] \/ rh'[v].pc # "insert"
  <2>1. PICK h : h = [pc |-> "qualify", order |-> o]
      OBVIOUS
  <2>2. rh' = rh \/ Turns(w, h)
      BY <1>7, <2>1 DEF accrueForPaidOrder, Turns
  <2> QED
      BY <1>1, <2>1, <2>2
<1>8. ASSUME NEW o \in ROrder, RetryJob(w, o)
      PROVE  \A v \in RWorker : rh'[v] = rh[v] \/ rh'[v].pc # "insert"
  <2>1. rh' = rh \/ Turns(w, RIdle)
      BY <1>8 DEF RetryJob, Turns
  <2> QED
      BY <1>0, <1>1, <2>1
<1> QED
    BY <1>2, <1>3, <1>4, <1>5, <1>6, <1>7, <1>8

LEMMA CeilingStep ==
    ASSUME Programme, OneJob, EarningInv, CapInv, RNext PROVE CapInv'
<1>0. /\ earn \in [ROrder -> [EarningType -> EarningRow]]
      /\ rh \in [RWorker -> Accruals]
      /\ Total(earn) \in Nat
    BY TotalNat DEF EarningInv, EarningTypes
<1>1. CASE Referee
    BY <1>1, CapUntouched
       DEF Referee, applyReferralCode, createWelcomeGift, WindowCloses, PayOrder, CancelPaid, restoreConsumedGiftsForOrder
<1>2. CASE BackOffice
  <2>1. Advances(earn, earn') /\ rh' = rh
      BY <1>2, OfficeAdvances
  <2>2. PICK b : b = earn'
      OBVIOUS
  <2>3. Total(b) <= Total(earn) /\ Total(b) \in Nat
      BY <1>0, <2>1, <2>2, AdvanceOwesLess, TotalNat DEF Advances
  <2>4. \A w \in RWorker : rh[w].pc = "insert" => rh[w].raw \in Nat
      BY <1>0, AccrualShape
  <2> QED
      BY <1>0, <2>1, <2>2, <2>3, <2>4 DEF CapInv, Programme
<1>3. ASSUME NEW w \in RWorker, createEarning(w) PROVE CapInv'
  <2>1. rh[w].pc = "insert" /\ rh' = [rh EXCEPT ![w] = RIdle]
      BY <1>3 DEF createEarning, FinishJob
  <2>2. \A v \in RWorker : rh'[v].pc # "insert"
      BY <1>0, <2>1 DEF OneJob, RIdle
  <2>3. PICK b \in [ROrder -> [EarningType -> EarningRow]] : b = earn'
      BY <1>3, Inserted
  <2>4. Total(b) <= Total(earn) + rh[w].raw /\ Total(b) \in Nat /\ rh[w].raw \in Nat
      BY <1>3, <2>3, InsertOwes, Inserted, TotalNat
  <2>5. Cap > 0 => Total(b) <= Cap
      BY <1>0, <2>1, <2>4 DEF CapInv, Programme
  <2> QED
      BY <2>2, <2>3, <2>5 DEF CapInv
<1>4. ASSUME NEW w \in RWorker, CapEarning(w), ~FinishJob(w) PROVE CapInv'
  <2>1. PICK n \in Nat : /\ Turns(w, Insertion(w, n)) /\ earn' = earn
                         /\ Cap > 0 => Total(earn) + n <= Cap
      BY <1>4, CapTurns
  <2>2. \A v \in RWorker : rh'[v].raw = n
      BY <1>0, <2>1 DEF Turns, OneJob, Insertion
  <2>3. Cap > 0 => Total(earn) <= Cap
      BY DEF CapInv
  <2> QED
      BY <2>1, <2>2, <2>3 DEF CapInv
<1>5. ASSUME NEW w \in RWorker,
             \/ qualifyReferralForPaidOrder(w) \/ ChoosePrime(w) \/ ChooseCommission(w)
             \/ (CapEarning(w) /\ FinishJob(w))
             \/ \E o \in ROrder : accrueForPaidOrder(w, o) \/ RetryJob(w, o)
      PROVE  CapInv'
    BY <1>5, StepsElsewhere, CapUntouched
<1> QED
    BY <1>1, <1>2, <1>3, <1>4, <1>5, ByActor

(* RG-14: what a referee earns his referrer stays under the ceiling, paid  *)
(* or not, whatever is cancelled and accrued again, when the jobs run one  *)
(* at a time (createEarning, revokeEarningsForCancelledOrder).             *)
THEOREM UnderTheCap ==
    ASSUME Programme, OneJob PROVE RSpec => []WithinCap
<1>1. EarningInv /\ CapInv /\ [RNext]_rvars => CapInv'
  <2>1. ASSUME EarningInv, CapInv, RNext PROVE CapInv'
      BY <2>1, CeilingStep
  <2>2. ASSUME CapInv, UNCHANGED rvars PROVE CapInv'
      BY <2>2, CapUntouched DEF rvars
  <2> QED
      BY <2>1, <2>2
<1>2. EarningInv /\ CapInv => WithinCap
    BY AlreadyIsTotal DEF CapInv, WithinCap
<1> QED
    BY <1>1, <1>2, CapStart, EarningAlways, PTL DEF RSpec

-----------------------------------------------------------------------------
(* The prime. *)

LEMMA PrimeStart ==
    ASSUME Programme, RInit PROVE PrimeInv
BY DEF Programme, RInit, PrimeInv, PrimeDue, RIdle

(* What the only handler becomes.                                          *)
LEMMA OnlyOne ==
    ASSUME OneJob, EarningInv, NEW w \in RWorker, NEW h, Turns(w, h)
    PROVE  RWorker = {w} /\ rh'[w] = h
BY DEF OneJob, Turns, EarningInv, EarningTypes

(* A job that ends without a prime was not the one of the order it is for. *)
LEMMA PrimeFinished ==
    ASSUME Programme, OneJob, EarningInv, PrimeInv, NEW w \in RWorker, FinishJob(w),
           referral' = referral, retried' = retried, earn' = earn,
           rh[w].pc # "idle", PrimeDue(rh[w].order) => earn[rh[w].order]["PRIME"].status # "none"
    PROVE  PrimeInv'
<1>1. RWorker = {w} /\ rh'[w] = RIdle
    BY OnlyOne DEF FinishJob, Turns
<1>2. \A o \in ROrder : PrimeDue(o)' <=> PrimeDue(o)
    BY DEF PrimeDue
<1>3. ASSUME NEW o \in ROrder, PrimeDue(o) PROVE earn[o]["PRIME"].status # "none"
    BY <1>1, <1>3 DEF PrimeInv
<1> QED
    BY <1>1, <1>2, <1>3 DEF PrimeInv, RIdle

(* A job that goes on.                                                     *)
LEMMA PrimeGoesOn ==
    ASSUME Programme, OneJob, EarningInv, PrimeInv, NEW w \in RWorker, NEW h, Turns(w, h),
           referral' = referral, retried' = retried, earn' = earn, job' = job,
           rh[w].pc # "idle", h.pc # "idle", h.order = rh[w].order,
           rh[w].pc \in {"prime", "cap", "insert"} => h.pc \in {"prime", "cap", "insert"},
           (h.pc = "prime" \/ (h.pc = "cap" /\ h.type = "PRIME")) => NoEarningYet
    PROVE  PrimeInv'
<1>1. RWorker = {w} /\ rh'[w] = h
    BY OnlyOne
<1>2. \A o \in ROrder : PrimeDue(o)' <=> PrimeDue(o)
    BY DEF PrimeDue
<1>3. NoEarningYet' <=> NoEarningYet
    BY DEF NoEarningYet
<1> QED
    BY <1>1, <1>2, <1>3 DEF PrimeInv

LEMMA PrimeStep ==
    ASSUME Programme, OneJob, EarningInv, PrimeInv, RNext PROVE PrimeInv'
<1>0. /\ earn \in [ROrder -> [EarningType -> EarningRow]]
      /\ rh \in [RWorker -> Accruals]
      /\ job \in [ROrder -> {"none", "queued", "run", "done"}]
    BY DEF EarningInv, EarningTypes
<1>a. \A w \in RWorker : rh[w].pc # "idle" => rh[w].order \in ROrder /\ rh[w].order # NoOrder
    BY <1>0, AccrualShape
<1>1. CASE Referee
  <2>1. earn' = earn /\ rh' = rh /\ retried' = retried
      BY <1>1 DEF Referee, applyReferralCode, createWelcomeGift, WindowCloses, PayOrder, CancelPaid,
             restoreConsumedGiftsForOrder
  <2>2. referral'.order = referral.order
      BY <1>1 DEF Referee, applyReferralCode, createWelcomeGift, WindowCloses, PayOrder, CancelPaid,
             restoreConsumedGiftsForOrder, EarningInv, EarningTypes
  <2>3. \A o \in ROrder : job[o] = "run" => job'[o] = "run"
    <3>1. ASSUME NEW o \in ROrder, PayOrder(o) PROVE job[o] = "none" /\ job' = [job EXCEPT ![o] = "queued"]
        BY <3>1 DEF PayOrder, EarningInv, EarningTypes
    <3>2. job' = job \/ \E o \in ROrder : PayOrder(o)
        BY <1>1 DEF Referee, applyReferralCode, createWelcomeGift, WindowCloses, CancelPaid, restoreConsumedGiftsForOrder
    <3> QED
        BY <1>0, <3>1, <3>2
  <2>4. \A o \in ROrder : PrimeDue(o)' <=> PrimeDue(o)
      BY <2>1, <2>2 DEF PrimeDue
  <2>5. NoEarningYet' <=> NoEarningYet
      BY <2>1 DEF NoEarningYet
  <2> QED
      BY <1>a, <2>1, <2>3, <2>4, <2>5 DEF PrimeInv
<1>2. CASE BackOffice
  <2>1. Advances(earn, earn') /\ UNCHANGED <<referral, job, rh>>
      BY <1>2, OfficeAdvances
  <2>2. retried' = retried
      BY <1>2 DEF BackOffice, adminApplyPayoutThreshold, revokeEarningsForCancelledOrder, adminMarkPayable, adminMarkPaid
  <2>3. \A o \in ROrder, t \in EarningType : earn'[o][t].status # "none" <=> earn[o][t].status # "none"
      BY <2>1 DEF Advances
  <2>4. NoEarningYet' <=> NoEarningYet
      BY <2>3 DEF NoEarningYet
  <2>5. \A o \in ROrder : PrimeDue(o)' <=> PrimeDue(o)
      BY <2>1, <2>2 DEF PrimeDue
  <2>6. \A o \in ROrder : earn'[o]["PRIME"].status # "none" <=> earn[o]["PRIME"].status # "none"
      BY <2>3 DEF EarningType
  <2> QED
      BY <2>1, <2>4, <2>5, <2>6 DEF PrimeInv
<1>3. ASSUME NEW w \in RWorker, createEarning(w) PROVE PrimeInv'
  <2>1. /\ rh[w].pc = "insert" /\ Turns(w, RIdle)
        /\ referral' = referral /\ retried' = retried
      BY <1>3 DEF createEarning, FinishJob, Turns
  <2>2. RWorker = {w} /\ rh'[w] = RIdle
      BY <2>1, OnlyOne
  <2>3. \A o \in ROrder : PrimeDue(o)' <=> PrimeDue(o)
      BY <2>1 DEF PrimeDue
  <2>4. ASSUME NEW o \in ROrder, PrimeDue(o) PROVE earn'[o]["PRIME"].status # "none"
    <3>1. Inserts(w, earn')
        BY <1>3, Inserted
    <3>2. "PRIME" \in EarningType
        BY DEF EarningType
    <3>3. CASE earn[o]["PRIME"].status # "none"
        BY <3>1, <3>2, <3>3 DEF Inserts
    <3>4. CASE rh[w].order = o
      <4>1. rh[w].type = "PRIME"
          BY <2>1, <2>4, <3>4, <1>0, AccrualShape DEF PrimeDue, EarningInv, WhoEarns, Entitled
      <4>2. earn'[o]["PRIME"].status # "none"
          BY <1>0, <1>3, <3>4, <4>1, <3>2 DEF createEarning
      <4> QED
          BY <4>2
    <3> QED
        BY <2>2, <2>4, <3>3, <3>4 DEF PrimeInv
  <2> QED
      BY <2>2, <2>3, <2>4 DEF PrimeInv, RIdle
<1>4. ASSUME NEW w \in RWorker, CapEarning(w) PROVE PrimeInv'
  <2>1. rh[w].pc = "cap" /\ referral' = referral /\ retried' = retried /\ earn' = earn
      BY <1>4 DEF CapEarning
  <2>2. CASE FinishJob(w)
    <3>1. Cap > 0 /\ Already >= Cap
        BY <1>0, <1>4, <2>1, <2>2 DEF CapEarning, FinishJob, RIdle
    <3>2. ~NoEarningYet
        BY <3>1, NothingOwed, AlreadyIsTotal DEF Programme
    <3>3. rh[w].type # "PRIME"
        BY <2>1, <3>2 DEF PrimeInv
    <3>4. ~PrimeDue(rh[w].order)
        BY <1>0, <2>1, <3>3, AccrualShape DEF PrimeDue, EarningInv, WhoEarns, Entitled, EarningType
    <3> QED
        BY <2>1, <2>2, <3>4, PrimeFinished
  <2>3. CASE ~FinishJob(w)
    <3>1. PICK n \in Nat : Turns(w, Insertion(w, n)) /\ job' = job
        BY <1>4, <2>3, CapTurns
    <3>2. PICK h : h = Insertion(w, n)
        OBVIOUS
    <3>3. h.pc = "insert" /\ h.order = rh[w].order
        BY <3>2 DEF Insertion
    <3> QED
        BY <2>1, <3>1, <3>2, <3>3, PrimeGoesOn
  <2> QED
      BY <2>2, <2>3
<1>5. ASSUME NEW w \in RWorker, ChoosePrime(w) PROVE PrimeInv'
  <2>1. rh[w].pc = "prime" /\ referral' = referral /\ retried' = retried /\ earn' = earn /\ NoEarningYet
      BY <1>5 DEF ChoosePrime, PrimeInv
  <2>2. CASE Basket[rh[w].order] >= MinBasket /\ Prime > 0
    <3>1. PICK h : h = [pc |-> "cap", order |-> rh[w].order, type |-> "PRIME", raw |-> Prime]
        OBVIOUS
    <3>2. Turns(w, h) /\ job' = job
        BY <1>0, <1>5, <2>2, <3>1 DEF ChoosePrime, Turns
    <3> QED
        BY <2>1, <3>1, <3>2, PrimeGoesOn
  <2>3. CASE ~(Basket[rh[w].order] >= MinBasket /\ Prime > 0)
    <3>1. FinishJob(w) /\ ~PrimeDue(rh[w].order)
        BY <1>5, <2>3 DEF ChoosePrime, PrimeDue
    <3> QED
        BY <2>1, <3>1, PrimeFinished
  <2> QED
      BY <2>2, <2>3
<1>6. ASSUME NEW w \in RWorker, ChooseCommission(w) PROVE PrimeInv'
  <2>1. rh[w].pc = "commission" /\ referral' = referral /\ retried' = retried /\ earn' = earn
      BY <1>6 DEF ChooseCommission
  <2>2. RWorker = {w}
      BY DEF OneJob
  <2>3. PrimeDue(rh[w].order) => earn[rh[w].order]["PRIME"].status # "none"
      BY <1>a, <2>1, <2>2 DEF PrimeInv
  <2>4. CASE FinishJob(w)
      BY <2>1, <2>3, <2>4, PrimeFinished
  <2>5. CASE ~FinishJob(w)
    <3>1. PICK h : h = [pc |-> "cap", order |-> rh[w].order, type |-> "COMMISSION", raw |-> Commission[rh[w].order]]
        OBVIOUS
    <3>2. Turns(w, h) /\ job' = job
        BY <1>6, <2>5, <3>1 DEF ChooseCommission, Turns
    <3> QED
        BY <2>1, <3>1, <3>2, PrimeGoesOn
  <2> QED
      BY <2>4, <2>5
<1>7. ASSUME NEW w \in RWorker, qualifyReferralForPaidOrder(w) PROVE PrimeInv'
  <2>1. rh[w].pc = "qualify" /\ job' = job /\ retried' = retried /\ earn' = earn /\ RWorker = {w}
      BY <1>7 DEF qualifyReferralForPaidOrder, OneJob
  <2>2. rh[w] = [pc |-> "qualify", order |-> rh[w].order]
      BY <1>0, <2>1, AccrualShape
  <2>3. PICK pc \in {"prime", "commission"} :
            /\ rh' = [rh EXCEPT ![w].pc = pc]
            /\ pc = "prime" => referral.status = "PENDING" /\ referral'.order = rh[w].order
            /\ pc = "commission" => referral' = referral
      BY <1>7 DEF qualifyReferralForPaidOrder, RPut, EarningInv, EarningTypes
  <2>4. PICK h : h = [pc |-> pc, order |-> rh[w].order]
      OBVIOUS
  <2>5. Turns(w, h)
    <3>1. \A o : [[pc |-> "qualify", order |-> o] EXCEPT !.pc = pc] = [pc |-> pc, order |-> o]
        OBVIOUS
    <3>2. [rh[w] EXCEPT !.pc = pc] = h
        BY <2>2, <2>4, <3>1
    <3> QED
        BY <2>3, <3>2 DEF Turns
  <2>6. CASE pc = "commission"
      BY <2>1, <2>3, <2>4, <2>5, <2>6, PrimeGoesOn
  <2>7. CASE pc = "prime"
    <3>1. rh'[w] = h
        BY <2>5, OnlyOne
    <3>2. NoEarningYet'
        BY <2>1, <2>3, <2>7 DEF NoEarningYet, EarningInv, WhoEarns, Entitled
    <3>3. \A o \in ROrder : PrimeDue(o)' => o = rh[w].order
        BY <2>3, <2>7 DEF PrimeDue
    <3> QED
        BY <2>1, <2>4, <2>7, <3>1, <3>2, <3>3 DEF PrimeInv
  <2> QED
      BY <2>6, <2>7
<1>8. ASSUME NEW w \in RWorker, NEW o \in ROrder, accrueForPaidOrder(w, o) PROVE PrimeInv'
  <2>1. /\ rh[w] = RIdle /\ rh[w].pc = "idle" /\ RWorker = {w}
        /\ referral' = referral /\ retried' = retried /\ earn' = earn
      BY <1>8 DEF accrueForPaidOrder, RIdle, OneJob
  <2>2. \A p \in ROrder : PrimeDue(p)' => earn'[p]["PRIME"].status # "none"
      BY <2>1 DEF PrimeInv, PrimeDue
  <2>3. CASE rh' = rh
      BY <2>1, <2>2, <2>3 DEF PrimeInv
  <2>4. CASE rh' # rh
    <3>1. PICK h : h = [pc |-> "qualify", order |-> o]
        OBVIOUS
    <3>2. Turns(w, h) /\ job' = [job EXCEPT ![o] = "run"]
        BY <1>8, <2>4, <3>1 DEF accrueForPaidOrder, Turns
    <3>3. rh'[w] = h /\ job'[o] = "run"
        BY <1>0, <3>2, OnlyOne
    <3> QED
        BY <2>1, <2>2, <3>1, <3>3 DEF PrimeInv
  <2> QED
      BY <2>3, <2>4
<1>9. ASSUME NEW w \in RWorker, NEW o \in ROrder, RetryJob(w, o) PROVE PrimeInv'
  <2>1. /\ referral' = referral /\ earn' = earn /\ retried' = retried \union {o} /\ RWorker = {w}
        /\ job' = [job EXCEPT ![o] = "queued"]
      BY <1>9 DEF RetryJob, OneJob
  <2>2. \A p \in ROrder : PrimeDue(p)' => p # o /\ PrimeDue(p)
      BY <2>1 DEF PrimeDue
  <2>3. CASE rh[w].order = o /\ Turns(w, RIdle)
    <3>1. rh'[w] = RIdle
        BY <2>3, OnlyOne
    <3>2. \A p \in ROrder : PrimeDue(p)' => earn[p]["PRIME"].status # "none"
        BY <2>1, <2>2, <2>3 DEF PrimeInv
    <3> QED
        BY <2>1, <3>1, <3>2 DEF PrimeInv, RIdle
  <2>4. CASE job[o] = "done" /\ rh' = rh
    <3>1. rh[w].pc # "idle" => rh[w].order # o
        BY <2>4 DEF PrimeInv
    <3>2. rh[w].pc # "idle" => job'[rh[w].order] = "run"
        BY <1>0, <1>a, <2>1, <3>1 DEF PrimeInv
    <3>3. NoEarningYet' <=> NoEarningYet
        BY <2>1 DEF NoEarningYet
    <3> QED
        BY <2>1, <2>2, <2>4, <3>2, <3>3 DEF PrimeInv
  <2> QED
      BY <1>9, <2>3, <2>4 DEF RetryJob, Turns
<1> QED
    BY <1>1, <1>2, <1>3, <1>4, <1>5, <1>6, <1>7, <1>8, <1>9, ByActor

(* The order that qualified has its prime when its job is over, if that    *)
(* job met no error (accrueForPaidOrder, createEarning).                   *)
THEOREM PrimeAtOnce ==
    ASSUME Programme, OneJob PROVE RSpec => []PrimeIsAccruedAtOnce
<1>1. EarningInv /\ PrimeInv /\ [RNext]_rvars => PrimeInv'
  <2>1. ASSUME EarningInv, PrimeInv, RNext PROVE PrimeInv'
      BY <2>1, PrimeStep
  <2>2. ASSUME PrimeInv, UNCHANGED rvars PROVE PrimeInv'
      BY <2>2 DEF rvars, PrimeInv, PrimeDue, NoEarningYet
  <2> QED
      BY <2>1, <2>2
<1>2. PrimeInv => PrimeIsAccruedAtOnce
  <2>1. ASSUME PrimeInv, NEW o \in ROrder, job[o] = "done", PrimeDue(o) PROVE earn[o]["PRIME"].status # "none"
      BY <2>1 DEF PrimeInv
  <2> QED
      BY <2>1 DEF PrimeIsAccruedAtOnce, PrimeDue
<1> QED
    BY <1>1, <1>2, PrimeStart, EarningAlways, PTL DEF RSpec

-----------------------------------------------------------------------------
(* Accounts of livreurs *)

AccountRow ==
    [entity : {"none", "ACTIVE", "DELETED"}, status : Statuses, resto : BOOLEAN, op : BOOLEAN,
     deletion : {"none", "scheduled", "expired"}, number : BOOLEAN]
AccountHandlers ==
    [pc : {"idle"}, d : {NoAccount}]
    \union [pc : {"verified", "create", "deleteAccount", "softDelete"}, d : Account]
    \union [pc : {"status"}, d : Account, to : Statuses, resto : BOOLEAN]
    \union [pc : {"assign"}, d : Account, active : BOOLEAN]
    \union [pc : {"restore"}, d : Account, op : BOOLEAN]

(* The unique index on the number, and what each write leaves of a row.    *)
NumberInv ==
    /\ acc \in [Account -> AccountRow]
    /\ ah \in [AWorker -> AccountHandlers]
    /\ docs \in SUBSET Account /\ due \in SUBSET Account
    /\ \A d \in Account : Living(d) => acc[d].number
    /\ \A d, e \in Account : acc[d].number /\ acc[e].number => d = e

Registers(h) == h.pc \in {"verified", "create"}
Manages(h) == h.pc \in {"status", "assign", "deleteAccount", "softDelete", "restore"}

(* Who registers an account is alone with a row that is not there; who     *)
(* changes or purges one has read a row that will stay, deleted or not.    *)
PlaceInv ==
    /\ \A w \in AWorker :
          /\ Registers(ah[w]) => acc[ah[w].d].entity = "none"
          /\ Manages(ah[w]) => acc[ah[w].d].entity # "none"
          /\ ah[w].pc # "idle" => ah[w].d # NoAccount
    /\ \A v, w \in AWorker : Registers(ah[v]) /\ Registers(ah[w]) /\ ah[v].d = ah[w].d => v = w
    /\ \A d \in Account : d \in due \/ acc[d].deletion # "none" => acc[d].entity # "none"

(* What the handler of the back office has read of the account is still so *)
(* when it writes, as long as nobody else writes accounts.                 *)
ReadInv ==
    \A w \in AWorker :
        LET h == ah[w] IN
        /\ h.pc = "status" => h.resto = acc[h.d].resto
        /\ h.pc = "assign" => (h.active <=> acc[h.d].status = "ACTIVE")
        /\ h.pc = "restore" => (h.op <=> acc[h.d].status = "ACTIVE" /\ acc[h.d].resto)

ServiceInv == ReadInv /\ OperationalIsSound /\ ValidatedIsOperational

Numbers == NoAccount \notin Account
OneOffice == \A v, w \in AWorker : "account" \in AKinds[v] /\ "account" \in AKinds[w] => v = w

AccountInv ==
    /\ NumberInv /\ PlaceInv
    /\ \A w \in AWorker : Manages(ah[w]) => "account" \in AKinds[w]
    /\ OneOffice => ServiceInv

LEMMA HandlerShape ==
    ASSUME Numbers, NEW h \in AccountHandlers
    PROVE  /\ h.pc = "idle" \/ Registers(h) \/ Manages(h)
           /\ h.pc = "idle" => h = AIdle
           /\ h.pc # "idle" => h.d \in Account
           /\ Registers(h) => h = [pc |-> h.pc, d |-> h.d]
           /\ h.pc = "status" => h.to \in Statuses /\ h.resto \in BOOLEAN
           /\ h.pc = "assign" => h.active \in BOOLEAN
           /\ h.pc = "restore" => h.op \in BOOLEAN
BY DEF Numbers, AccountHandlers, AIdle, Registers, Manages

LEMMA AccountsStart ==
    ASSUME Numbers, AInit PROVE AccountInv
<1>1. /\ acc = [d \in Account |-> Nobody] /\ Nobody \in AccountRow /\ Nobody.entity = "none" /\ Nobody.number = FALSE
      /\ Nobody.deletion = "none" /\ due = {}
    BY DEF AInit, Nobody, AccountRow, Statuses
<1>2. ah = [w \in AWorker |-> AIdle] /\ AIdle \in AccountHandlers /\ AIdle.pc = "idle"
    BY DEF AInit, AIdle, AccountHandlers
<1>3. \A d \in Account : ~Living(d)
    BY <1>1 DEF Living
<1>4. \A w \in AWorker : ~Registers(ah[w]) /\ ~Manages(ah[w]) /\ ah[w].pc = "idle"
    BY <1>2 DEF Registers, Manages
<1>5. \A d \in Account : d \in due \/ acc[d].deletion # "none" => acc[d].entity # "none"
    BY <1>1
<1> QED
    BY <1>1, <1>2, <1>3, <1>4, <1>5
       DEF AInit, AccountInv, NumberInv, PlaceInv, ServiceInv, ReadInv, OperationalIsSound, ValidatedIsOperational

-----------------------------------------------------------------------------
(* The steps: a handler that moves, a row that is written. *)

LEMMA Goes ==
    ASSUME NumberInv, NEW w \in AWorker, NEW h \in AccountHandlers, Go(w, h)
    PROVE  /\ ah' \in [AWorker -> AccountHandlers]
           /\ ah'[w] = h /\ \A v \in AWorker : v # w => ah'[v] = ah[v]
BY DEF NumberInv, Go

(* A handler that starts: the row is only read.                            *)
LEMMA Starts ==
    ASSUME Numbers, AccountInv, NEW w \in AWorker, NEW h \in AccountHandlers, Go(w, h),
           acc' = acc, docs' = docs, due' = due,
           h.d # NoAccount \/ h.pc = "idle",
           Registers(h) => /\ acc[h.d].entity = "none"
                           /\ \A v \in AWorker : v # w => ah[v].d # h.d \/ ~Registers(ah[v]),
           Manages(h) => acc[h.d].entity # "none" /\ "account" \in AKinds[w],
           h.pc = "status" => h.resto = acc[h.d].resto,
           h.pc = "assign" => (h.active <=> acc[h.d].status = "ACTIVE"),
           h.pc = "restore" => (h.op <=> acc[h.d].status = "ACTIVE" /\ acc[h.d].resto)
    PROVE  AccountInv'
<1>1. /\ ah' \in [AWorker -> AccountHandlers]
      /\ ah'[w] = h /\ \A v \in AWorker : v # w => ah'[v] = ah[v]
    BY Goes DEF AccountInv
<1>2. NumberInv'
    BY <1>1 DEF AccountInv, NumberInv, Living
<1>3. PlaceInv'
    BY <1>1 DEF AccountInv, PlaceInv
<1>4. ServiceInv => ServiceInv'
    BY <1>1 DEF ServiceInv, ReadInv, OperationalIsSound, ValidatedIsOperational, Living
<1>5. \A v \in AWorker : Manages(ah'[v]) => "account" \in AKinds[v]
    BY <1>1 DEF AccountInv
<1> QED
    BY <1>2, <1>3, <1>4, <1>5 DEF AccountInv, OneOffice

LEMMA IdleHandler ==
    /\ AIdle \in AccountHandlers /\ AIdle.pc = "idle"
    /\ ~Registers(AIdle) /\ ~Manages(AIdle)
BY DEF AIdle, AccountHandlers, Registers, Manages

(* The kinds of the workers are constants. *)
LEMMA NoKinds == OneOffice' <=> OneOffice
BY DEF OneOffice

(* A row that is written in place: it stays there, and takes no number.    *)
InPlace(d, r) ==
    /\ d \in Account /\ r \in AccountRow
    /\ acc' = [acc EXCEPT ![d] = r]
    /\ r.number => acc[d].number
    /\ r.entity = "none" <=> acc[d].entity = "none"
    /\ r.entity = "ACTIVE" => acc[d].entity = "ACTIVE" /\ r.number = acc[d].number
    /\ r.deletion # "none" => r.entity # "none"

InService(r) ==
    r.entity = "ACTIVE" =>
        /\ r.op => r.status = "ACTIVE" /\ r.resto
        /\ r.status = "ACTIVE" /\ r.resto /\ r.deletion = "none" => r.op

LEMMA RowWritten ==
    ASSUME AccountInv, NEW d, NEW r, InPlace(d, r), ah' = ah \/ (\E w \in AWorker : Go(w, AIdle)),
           docs' \in SUBSET Account, due' \subseteq due
    PROVE  /\ NumberInv' /\ PlaceInv'
           /\ \A v \in AWorker : Manages(ah'[v]) => "account" \in AKinds[v]
<1>1. /\ acc' \in [Account -> AccountRow] /\ acc'[d] = r
      /\ \A e \in Account : e # d => acc'[e] = acc[e]
      /\ due' \in SUBSET Account
    BY DEF AccountInv, NumberInv, InPlace
<1>2. /\ ah' \in [AWorker -> AccountHandlers]
      /\ \A v \in AWorker : ah'[v] = ah[v] \/ ah'[v] = AIdle
    BY IdleHandler DEF AccountInv, NumberInv, Go
<1>3. /\ \A e \in Account : acc'[e].number => acc[e].number
      /\ \A e \in Account : acc'[e].entity = "ACTIVE" =>
            acc[e].entity = "ACTIVE" /\ acc'[e].number = acc[e].number
      /\ \A e \in Account : acc'[e].entity = "none" <=> acc[e].entity = "none"
    BY <1>1 DEF InPlace
<1>4. NumberInv'
    BY <1>1, <1>2, <1>3 DEF AccountInv, NumberInv, Living
<1>5. \A v \in AWorker : Registers(ah[v]) \/ Manages(ah[v]) => ah[v].d \in Account
  <2>1. \A h \in AccountHandlers : Registers(h) \/ Manages(h) => h.d \in Account
      BY DEF AccountHandlers, Registers, Manages
  <2> QED
      BY <2>1 DEF AccountInv, NumberInv
<1>6. PlaceInv'
  <2>1. \A e \in Account : e \in due' \/ acc'[e].deletion # "none" => acc'[e].entity # "none"
      BY <1>1, <1>3 DEF AccountInv, PlaceInv, InPlace
  <2> QED
      BY <1>2, <1>3, <1>5, <2>1, IdleHandler DEF AccountInv, PlaceInv
<1> QED
    BY <1>2, <1>4, <1>6, IdleHandler DEF AccountInv

(* The back office writes the row it has read.                             *)
LEMMA OfficeWrites ==
    ASSUME AccountInv, NEW w \in AWorker, Manages(ah[w]), Go(w, AIdle), NEW r, InPlace(ah[w].d, r),
           OneOffice /\ ServiceInv => InService(r), docs' = docs, due' = due
    PROVE  AccountInv'
<1>1. /\ NumberInv' /\ PlaceInv'
      /\ \A v \in AWorker : Manages(ah'[v]) => "account" \in AKinds[v]
    BY RowWritten DEF AccountInv, NumberInv
<1>2. ASSUME OneOffice, ServiceInv PROVE ServiceInv'
  <2>1. /\ ah'[w] = AIdle /\ \A v \in AWorker : v # w => ah'[v] = ah[v]
      BY IdleHandler, Goes DEF AccountInv
  <2>2. \A v \in AWorker : ~Manages(ah'[v])
      BY <1>2, <2>1, IdleHandler DEF OneOffice, AccountInv
  <2>3. ReadInv'
      BY <2>2 DEF ReadInv, Manages
  <2>4. /\ acc'[ah[w].d] = r
        /\ \A e \in Account : e # ah[w].d => acc'[e] = acc[e]
      BY DEF AccountInv, NumberInv, InPlace
  <2>5. InService(r)
      BY <1>2
  <2>6. OperationalIsSound' /\ ValidatedIsOperational'
      BY <1>2, <2>4, <2>5 DEF InService, ServiceInv, OperationalIsSound, ValidatedIsOperational, Living
  <2> QED
      BY <2>3, <2>6 DEF ServiceInv
<1> QED
    BY <1>1, <1>2, NoKinds DEF AccountInv

(* The fields of a row, one by one.                                        *)
LEMMA SetStatus ==
    ASSUME NEW x \in AccountRow, NEW s \in Statuses, NEW q, q = [x EXCEPT !.status = s]
    PROVE  /\ q \in AccountRow /\ q.status = s
           /\ q.entity = x.entity /\ q.resto = x.resto /\ q.op = x.op
           /\ q.deletion = x.deletion /\ q.number = x.number
BY DEF AccountRow

LEMMA SetOp ==
    ASSUME NEW x \in AccountRow, NEW b \in BOOLEAN, NEW q, q = [x EXCEPT !.op = b]
    PROVE  /\ q \in AccountRow /\ q.op = b
           /\ q.entity = x.entity /\ q.status = x.status /\ q.resto = x.resto
           /\ q.deletion = x.deletion /\ q.number = x.number
BY DEF AccountRow

LEMMA SetResto ==
    ASSUME NEW x \in AccountRow, NEW q, q = [x EXCEPT !.resto = TRUE]
    PROVE  /\ q \in AccountRow /\ q.resto = TRUE
           /\ q.entity = x.entity /\ q.status = x.status /\ q.op = x.op
           /\ q.deletion = x.deletion /\ q.number = x.number
BY DEF AccountRow

LEMMA SetDeletion ==
    ASSUME NEW x \in AccountRow, NEW l \in {"none", "scheduled", "expired"}, NEW q, q = [x EXCEPT !.deletion = l]
    PROVE  /\ q \in AccountRow /\ q.deletion = l
           /\ q.entity = x.entity /\ q.status = x.status /\ q.resto = x.resto
           /\ q.op = x.op /\ q.number = x.number
BY DEF AccountRow

LEMMA SetDeleted ==
    ASSUME NEW x \in AccountRow, NEW q, q = [x EXCEPT !.entity = "DELETED"]
    PROVE  /\ q \in AccountRow /\ q.entity = "DELETED"
           /\ q.status = x.status /\ q.resto = x.resto /\ q.op = x.op
           /\ q.deletion = x.deletion /\ q.number = x.number
BY DEF AccountRow

LEMMA SetNumber ==
    ASSUME NEW x \in AccountRow, NEW q, q = [x EXCEPT !.number = FALSE]
    PROVE  /\ q \in AccountRow /\ q.number = FALSE
           /\ q.entity = x.entity /\ q.status = x.status /\ q.resto = x.resto
           /\ q.op = x.op /\ q.deletion = x.deletion
BY DEF AccountRow

LEMMA OfficeSteps ==
    ASSUME Numbers, AccountInv, NEW w \in AWorker,
           transitionStatus(w) \/ assignRestaurant(w) \/ deleteAccount(w) \/ softDelete(w) \/ restoreAccount(w)
    PROVE  AccountInv'
<1> DEFINE h == ah[w]
<1>0. /\ h.pc \in {"status", "assign", "deleteAccount", "softDelete", "restore"} /\ Manages(h)
      /\ Go(w, AIdle) /\ docs' = docs /\ due' = due
    BY DEF transitionStatus, assignRestaurant, deleteAccount, softDelete, restoreAccount, Manages
<1>1. /\ h \in AccountHandlers /\ acc \in [Account -> AccountRow]
      /\ h.d \in Account /\ acc[h.d].entity # "none"
      /\ h.pc = "status" => h.to \in Statuses /\ h.resto \in BOOLEAN
      /\ h.pc = "assign" => h.active \in BOOLEAN
      /\ h.pc = "restore" => h.op \in BOOLEAN
    BY <1>0, HandlerShape DEF AccountInv, NumberInv, PlaceInv
<1>2. PICK x \in AccountRow : x = acc[h.d]
    BY <1>1
<1>3. OneOffice /\ ServiceInv =>
          /\ InService(x)
          /\ h.pc = "status" => h.resto = x.resto
          /\ h.pc = "assign" => (h.active <=> x.status = "ACTIVE")
          /\ h.pc = "restore" => (h.op <=> x.status = "ACTIVE" /\ x.resto)
    BY <1>1, <1>2 DEF ServiceInv, ReadInv, OperationalIsSound, ValidatedIsOperational, Living, InService
<1>4. ASSUME NEW r \in AccountRow, acc' = [acc EXCEPT ![h.d] = r], r.number = x.number,
             r.entity \in {x.entity, "DELETED"}, OneOffice /\ ServiceInv => InService(r)
      PROVE  AccountInv'
  <2>1. InPlace(h.d, r)
      BY <1>1, <1>2, <1>4 DEF InPlace
  <2> QED
      BY <1>0, <1>4, <2>1, OfficeWrites
<1> HIDE DEF h
<1>5. CASE transitionStatus(w)
  <2>1. PICK b \in BOOLEAN : b = (h.to = "ACTIVE" /\ h.resto)
      OBVIOUS
  <2>2. PICK q : q = [x EXCEPT !.status = h.to]
      OBVIOUS
  <2>3. PICK r : r = [q EXCEPT !.op = b]
      OBVIOUS
  <2>4. h.pc = "status" /\ acc' = [acc EXCEPT ![h.d] = r]
      BY <1>1, <1>2, <1>5, <2>1, <2>2, <2>3 DEF transitionStatus, h
  <2>5. /\ q \in AccountRow /\ q.status = h.to
        /\ q.entity = x.entity /\ q.resto = x.resto /\ q.deletion = x.deletion /\ q.number = x.number
      BY <1>1, <2>2, <2>4, SetStatus
  <2>6. /\ r \in AccountRow /\ r.op = b /\ r.status = h.to
        /\ r.entity = x.entity /\ r.resto = x.resto /\ r.deletion = x.deletion /\ r.number = x.number
      BY <2>3, <2>5, SetOp
  <2>7. OneOffice /\ ServiceInv => InService(r)
      BY <1>1, <1>3, <2>1, <2>4, <2>6 DEF InService
  <2> QED
      BY <1>4, <2>4, <2>6, <2>7
<1>6. CASE assignRestaurant(w)
  <2>2. PICK q : q = [x EXCEPT !.resto = TRUE]
      OBVIOUS
  <2>3. PICK r : r = [q EXCEPT !.op = h.active]
      OBVIOUS
  <2>4. h.pc = "assign" /\ acc' = [acc EXCEPT ![h.d] = r]
      BY <1>1, <1>2, <1>6, <2>2, <2>3 DEF assignRestaurant, h
  <2>5. /\ q \in AccountRow /\ q.resto = TRUE
        /\ q.entity = x.entity /\ q.status = x.status /\ q.deletion = x.deletion /\ q.number = x.number
      BY <2>2, SetResto
  <2>6. /\ r \in AccountRow /\ r.op = h.active /\ r.resto = TRUE
        /\ r.entity = x.entity /\ r.status = x.status /\ r.deletion = x.deletion /\ r.number = x.number
      BY <1>1, <2>3, <2>4, <2>5, SetOp
  <2>7. OneOffice /\ ServiceInv => InService(r)
      BY <1>1, <1>3, <2>4, <2>6 DEF InService
  <2> QED
      BY <1>4, <2>4, <2>6, <2>7
<1>7. CASE deleteAccount(w)
  <2>2. PICK q : q = [x EXCEPT !.deletion = "scheduled"]
      OBVIOUS
  <2>3. PICK b \in BOOLEAN : ~b
      BY FALSE \in BOOLEAN
  <2>7. PICK r : r = [q EXCEPT !.op = b]
      OBVIOUS
  <2>4. acc' = [acc EXCEPT ![h.d] = r]
      BY <1>1, <1>2, <1>7, <2>2, <2>3, <2>7 DEF deleteAccount, h
  <2>5. /\ q \in AccountRow /\ q.deletion = "scheduled"
        /\ q.entity = x.entity /\ q.status = x.status /\ q.resto = x.resto /\ q.number = x.number
      BY <2>2, SetDeletion
  <2>6. r \in AccountRow /\ ~r.op /\ r.deletion = "scheduled" /\ r.entity = x.entity /\ r.number = x.number
      BY <2>3, <2>7, <2>5, SetOp
  <2> QED
      BY <1>4, <2>4, <2>6 DEF InService
<1>8. CASE softDelete(w)
  <2>2. PICK q : q = [x EXCEPT !.entity = "DELETED"]
      OBVIOUS
  <2>3. PICK b \in BOOLEAN : ~b
      BY FALSE \in BOOLEAN
  <2>7. PICK r : r = [q EXCEPT !.op = b]
      OBVIOUS
  <2>4. acc' = [acc EXCEPT ![h.d] = r]
      BY <1>1, <1>2, <1>8, <2>2, <2>3, <2>7 DEF softDelete, h
  <2>5. q \in AccountRow /\ q.entity = "DELETED" /\ q.number = x.number
      BY <2>2, SetDeleted
  <2>6. r \in AccountRow /\ r.entity = "DELETED" /\ r.number = x.number
      BY <2>7, <2>5, SetOp
  <2> QED
      BY <1>4, <2>4, <2>6 DEF InService
<1>9. CASE restoreAccount(w)
  <2>2. PICK q : q = [x EXCEPT !.deletion = "none"]
      OBVIOUS
  <2>3. PICK r : r = [q EXCEPT !.op = h.op]
      OBVIOUS
  <2>4. h.pc = "restore" /\ acc' = [acc EXCEPT ![h.d] = r]
      BY <1>1, <1>2, <1>9, <2>2, <2>3 DEF restoreAccount, h
  <2>5. /\ q \in AccountRow
        /\ q.entity = x.entity /\ q.status = x.status /\ q.resto = x.resto /\ q.number = x.number
      BY <2>2, SetDeletion
  <2>6. /\ r \in AccountRow /\ r.op = h.op
        /\ r.entity = x.entity /\ r.status = x.status /\ r.resto = x.resto /\ r.number = x.number
      BY <1>1, <2>3, <2>4, <2>5, SetOp
  <2>7. OneOffice /\ ServiceInv => InService(r)
      BY <1>1, <1>3, <2>4, <2>6 DEF InService
  <2> QED
      BY <1>4, <2>4, <2>6, <2>7
<1> QED
    BY <1>5, <1>6, <1>7, <1>8, <1>9

-----------------------------------------------------------------------------
(* What starts: a registration goes on, the back office reads a row.       *)
LEMMA ReadingSteps ==
    ASSUME Numbers, AccountInv, NEW w \in AWorker, NEW d \in Account,
           \/ registerPhone(w, d) \/ StartTransition(w, d) \/ StartAssign(w, d)
           \/ StartDeletion(w, d) \/ StartRestore(w, d)
    PROVE  AccountInv'
<1>1. /\ acc' = acc /\ docs' = docs /\ due' = due /\ d # NoAccount
    BY DEF registerPhone, StartTransition, StartAssign, StartDeletion, StartRestore, Begin, Numbers
<1>2. PICK x \in AccountRow : x = acc[d]
    BY DEF AccountInv, NumberInv
<1>3. CASE registerPhone(w, d)
  <2>1. PICK h : h = [pc |-> "verified", d |-> d]
      OBVIOUS
  <2>2. h \in AccountHandlers /\ h.pc = "verified" /\ h.d = d
      BY <2>1 DEF AccountHandlers
  <2>3. Go(w, h) /\ acc[d].entity = "none" /\ \A v \in AWorker : ah[v].d # d
      BY <1>3, <2>1 DEF registerPhone
  <2> QED
      BY <1>1, <2>2, <2>3, Starts DEF Manages
<1>4. ASSUME StartTransition(w, d) \/ StartAssign(w, d) \/ StartDeletion(w, d) \/ StartRestore(w, d)
      PROVE  "account" \in AKinds[w] /\ acc[d].entity # "none"
    BY <1>4 DEF StartTransition, StartAssign, StartDeletion, StartRestore, Begin, Free, Living
<1>5. CASE StartTransition(w, d)
  <2>1. PICK s \in Wanted(d) : Go(w, [pc |-> "status", d |-> d, to |-> s, resto |-> acc[d].resto])
      BY <1>5 DEF StartTransition
  <2>2. PICK h : h = [pc |-> "status", d |-> d, to |-> s, resto |-> x.resto]
      OBVIOUS
  <2>3. s \in Statuses
      BY DEF Wanted, Statuses
  <2>4. x.resto \in BOOLEAN
      BY DEF AccountRow
  <2>5. h \in AccountHandlers /\ h.pc = "status" /\ h.d = d /\ h.resto = x.resto
      BY <2>2, <2>3, <2>4 DEF AccountHandlers
  <2>6. Go(w, h)
      BY <1>2, <2>1, <2>2
  <2> QED
      BY <1>1, <1>2, <1>4, <1>5, <2>5, <2>6, Starts DEF Registers
<1>6. CASE StartAssign(w, d)
  <2>1. PICK b \in BOOLEAN : b = (acc[d].status = "ACTIVE")
      OBVIOUS
  <2>2. PICK h : h = [pc |-> "assign", d |-> d, active |-> b]
      OBVIOUS
  <2>3. h \in AccountHandlers /\ h.pc = "assign" /\ h.d = d /\ h.active = b
      BY <2>2 DEF AccountHandlers
  <2>4. Go(w, h)
      BY <1>6, <2>1, <2>2 DEF StartAssign
  <2> QED
      BY <1>1, <1>4, <1>6, <2>1, <2>3, <2>4, Starts DEF Registers
<1>7. CASE StartDeletion(w, d)
  <2>1. PICK by \in {"deleteAccount", "softDelete"} : Go(w, [pc |-> by, d |-> d])
      BY <1>7 DEF StartDeletion
  <2>2. PICK h : h = [pc |-> by, d |-> d]
      OBVIOUS
  <2>3. h \in AccountHandlers /\ h.pc = by /\ h.d = d
      BY <2>2 DEF AccountHandlers
  <2>4. Go(w, h)
      BY <2>1, <2>2
  <2> QED
      BY <1>1, <1>4, <1>7, <2>3, <2>4, Starts DEF Registers
<1>8. CASE StartRestore(w, d)
  <2>1. PICK b \in BOOLEAN : b = (acc[d].status = "ACTIVE" /\ acc[d].resto)
      OBVIOUS
  <2>2. PICK h : h = [pc |-> "restore", d |-> d, op |-> b]
      OBVIOUS
  <2>3. h \in AccountHandlers /\ h.pc = "restore" /\ h.d = d /\ h.op = b
      BY <2>2 DEF AccountHandlers
  <2>4. Go(w, h)
      BY <1>8, <2>1, <2>2 DEF StartRestore
  <2> QED
      BY <1>1, <1>4, <1>8, <2>1, <2>3, <2>4, Starts DEF Registers
<1> QED
    BY <1>3, <1>5, <1>6, <1>7, <1>8

(* The number is looked up a second time.                                  *)
LEMMA Completes ==
    ASSUME Numbers, AccountInv, NEW w \in AWorker, completeRegistration(w)
    PROVE  AccountInv'
<1>1. /\ acc' = acc /\ docs' = docs /\ due' = due /\ ah[w].pc = "verified"
      /\ Go(w, AIdle) \/ Go(w, [ah[w] EXCEPT !.pc = "create"])
    BY DEF completeRegistration
<1>2. CASE Go(w, AIdle)
  <2>1. AIdle.pc # "status" /\ AIdle.pc # "assign" /\ AIdle.pc # "restore"
      BY IdleHandler
  <2> QED
      BY <1>1, <1>2, <2>1, IdleHandler, Starts
<1>3. CASE Go(w, [ah[w] EXCEPT !.pc = "create"])
  <2>1. PICK g : g = ah[w]
      OBVIOUS
  <2>2. Registers(g) /\ g \in AccountHandlers
      BY <1>1, <2>1 DEF Registers, AccountInv, NumberInv
  <2>3. g = [pc |-> "verified", d |-> g.d] /\ g.d \in Account
      BY <1>1, <2>1, <2>2, HandlerShape
  <2>4. PICK h : h = [pc |-> "create", d |-> g.d]
      OBVIOUS
  <2>5. h \in AccountHandlers /\ h.pc = "create" /\ h.d = g.d /\ h = [g EXCEPT !.pc = "create"]
      BY <2>3, <2>4 DEF AccountHandlers
  <2>6. Go(w, h)
      BY <1>3, <2>1, <2>5
  <2>7. /\ acc[h.d].entity = "none" /\ h.d # NoAccount
        /\ \A v \in AWorker : v # w => ah[v].d # h.d \/ ~Registers(ah[v])
      BY <2>1, <2>2, <2>3, <2>5 DEF AccountInv, PlaceInv, Numbers
  <2> QED
      BY <1>1, <2>5, <2>6, <2>7, Starts DEF Manages
<1> QED
    BY <1>1, <1>2, <1>3

(* The unique index answers: the row is created, or refused.               *)
LEMMA Creates ==
    ASSUME Numbers, AccountInv, NEW w \in AWorker, CreateAccount(w)
    PROVE  AccountInv'
<1>1. ah[w].pc = "create" /\ Go(w, AIdle) /\ due' = due
    BY DEF CreateAccount
<1>2. /\ ah' \in [AWorker -> AccountHandlers]
      /\ ah'[w] = AIdle /\ \A v \in AWorker : v # w => ah'[v] = ah[v]
    BY <1>1, IdleHandler, Goes DEF AccountInv
<1>3. CASE acc' = acc /\ docs' = docs
  <2>1. AIdle.pc # "status" /\ AIdle.pc # "assign" /\ AIdle.pc # "restore"
      BY IdleHandler
  <2> QED
      BY <1>1, <1>3, <2>1, IdleHandler, Starts
<1>4. CASE \A e \in Account : ~acc[e].number
  <2>1. CASE acc' = acc /\ docs' = docs
      BY <1>3, <2>1
  <2>2. CASE ~(acc' = acc /\ docs' = docs)
    <3>1. PICK g : g = ah[w]
        OBVIOUS
    <3>2. Registers(g) /\ g \in AccountHandlers /\ acc[g.d].entity = "none"
        BY <1>1, <3>1 DEF Registers, AccountInv, NumberInv, PlaceInv
    <3>3. g.d \in Account
        BY <3>2, HandlerShape DEF Registers
    <3>4. PICK r : r = [Nobody EXCEPT !.entity = "ACTIVE", !.number = TRUE]
        OBVIOUS
    <3>5. /\ r \in AccountRow /\ r.entity = "ACTIVE" /\ r.number = TRUE /\ r.status # "ACTIVE" /\ ~r.op
          /\ r.deletion = "none"
        BY <3>4 DEF Nobody, AccountRow, Statuses
    <3>6. acc' = [acc EXCEPT ![g.d] = r] /\ docs' \in {docs, docs \union {g.d}}
        BY <1>4, <2>2, <3>1, <3>4 DEF CreateAccount
    <3>7. /\ acc' \in [Account -> AccountRow] /\ acc'[g.d] = r
          /\ \A e \in Account : e # g.d => acc'[e] = acc[e]
          /\ docs' \in SUBSET Account
        BY <3>3, <3>5, <3>6 DEF AccountInv, NumberInv
    <3>8. NumberInv'
        BY <1>1, <1>2, <1>4, <3>5, <3>7 DEF AccountInv, NumberInv, Living
    <3>9. \A v \in AWorker : v # w /\ Registers(ah[v]) => ah[v].d # g.d
        BY <3>1, <3>2 DEF AccountInv, PlaceInv
    <3>10. \A v \in AWorker : Registers(ah[v]) \/ Manages(ah[v]) => ah[v].d \in Account
      <4>1. \A h \in AccountHandlers : Registers(h) \/ Manages(h) => h.d \in Account
          BY DEF AccountHandlers, Registers, Manages
      <4> QED
          BY <4>1 DEF AccountInv, NumberInv
    <3>11. \A v \in AWorker :
              /\ Registers(ah'[v]) => acc'[ah'[v].d].entity = "none"
              /\ Manages(ah'[v]) => acc'[ah'[v].d].entity # "none"
              /\ ah'[v].pc # "idle" => ah'[v].d # NoAccount
        BY <1>2, <3>2, <3>7, <3>9, <3>10, IdleHandler DEF AccountInv, PlaceInv
    <3>12. \A e \in Account : e \in due' \/ acc'[e].deletion # "none" => acc'[e].entity # "none"
        BY <1>1, <3>5, <3>7 DEF AccountInv, PlaceInv
    <3>13. PlaceInv'
        BY <1>2, <3>11, <3>12, IdleHandler DEF AccountInv, PlaceInv
    <3>14. \A v \in AWorker : Manages(ah'[v]) => ah'[v] = ah[v] /\ Manages(ah[v]) /\ ah[v].d # g.d
        BY <1>2, <3>2, IdleHandler DEF AccountInv, PlaceInv
    <3>15. ReadInv => ReadInv'
        BY <3>7, <3>10, <3>14 DEF ReadInv, Manages
    <3>16. ServiceInv => ServiceInv'
        BY <3>5, <3>7, <3>15 DEF ServiceInv, OperationalIsSound, ValidatedIsOperational, Living
    <3> QED
        BY <3>8, <3>13, <3>14, <3>16, NoKinds DEF AccountInv
  <2> QED
      BY <2>1, <2>2
<1> QED
    BY <1>3, <1>4 DEF CreateAccount

(* A row is written that the back office has not read, or whose status and *)
(* restaurant are left.                                                    *)
LEMMA ElsewhereWrites ==
    ASSUME AccountInv, NEW d, NEW r, InPlace(d, r), ah' = ah,
           docs' \in SUBSET Account, due' \subseteq due,
           r.status = acc[d].status, r.resto = acc[d].resto,
           OneOffice /\ ServiceInv => InService(r)
    PROVE  AccountInv'
<1>1. /\ NumberInv' /\ PlaceInv'
      /\ \A v \in AWorker : Manages(ah'[v]) => "account" \in AKinds[v]
    BY RowWritten
<1>2. /\ acc'[d] = r
      /\ \A e \in Account : e # d => acc'[e] = acc[e]
    BY DEF AccountInv, NumberInv, InPlace
<1>3. \A v \in AWorker : Manages(ah[v]) => ah[v].d \in Account
  <2>1. \A h \in AccountHandlers : Manages(h) => h.d \in Account
      BY DEF AccountHandlers, Manages
  <2> QED
      BY <2>1 DEF AccountInv, NumberInv
<1>4. ReadInv => ReadInv'
    BY <1>2, <1>3 DEF ReadInv, Manages
<1>5. OneOffice /\ ServiceInv => OperationalIsSound' /\ ValidatedIsOperational'
    BY <1>2 DEF ServiceInv, OperationalIsSound, ValidatedIsOperational, InService, Living
<1> QED
    BY <1>1, <1>4, <1>5, NoKinds DEF AccountInv, ServiceInv

LEMMA OtherSteps ==
    ASSUME Numbers, AccountInv, NEW d \in Account,
           uploadDocument(d) \/ GraceEnds(d) \/ EraseAccount(d)
    PROVE  AccountInv'
<1>1. PICK x \in AccountRow : x = acc[d]
    BY DEF AccountInv, NumberInv
<1>2. acc = [acc EXCEPT ![d] = x] /\ docs \in SUBSET Account /\ due \in SUBSET Account
    BY <1>1 DEF AccountInv, NumberInv
<1>3. OneOffice /\ ServiceInv => InService(x)
    BY <1>1 DEF ServiceInv, OperationalIsSound, ValidatedIsOperational, Living, InService
<1>4. x.deletion # "none" \/ d \in due => x.entity # "none"
    BY <1>1 DEF AccountInv, PlaceInv
<1>5. CASE uploadDocument(d)
  <2>1. InPlace(d, x)
      BY <1>1, <1>2, <1>4, <1>5 DEF InPlace, uploadDocument
  <2> QED
      BY <1>1, <1>2, <1>3, <1>5, <2>1, ElsewhereWrites DEF uploadDocument
<1>6. CASE GraceEnds(d)
  <2>1. PICK r : r = [x EXCEPT !.deletion = "expired"]
      OBVIOUS
  <2>2. /\ r \in AccountRow /\ r.deletion = "expired" /\ r.entity = x.entity /\ r.status = x.status
        /\ r.resto = x.resto /\ r.op = x.op /\ r.number = x.number
      BY <2>1, SetDeletion
  <2>3. acc' = [acc EXCEPT ![d] = r] /\ x.deletion = "scheduled" /\ ah' = ah /\ docs' = docs /\ due' = due
      BY <1>1, <1>6, <2>1 DEF GraceEnds
  <2>4. InPlace(d, r)
      BY <1>1, <1>4, <2>2, <2>3 DEF InPlace
  <2>5. OneOffice /\ ServiceInv => InService(r)
      BY <1>3, <2>2 DEF InService
  <2> QED
      BY <1>1, <1>2, <2>2, <2>3, <2>4, <2>5, ElsewhereWrites
<1>7. CASE EraseAccount(d)
  <2>1. PICK p : p = [x EXCEPT !.entity = "DELETED"]
      OBVIOUS
  <2>2. PICK b \in BOOLEAN : ~b
      BY FALSE \in BOOLEAN
  <2>3. PICK q : q = [p EXCEPT !.op = b]
      OBVIOUS
  <2>4. PICK r : r = [q EXCEPT !.number = FALSE]
      OBVIOUS
  <2>5. /\ p \in AccountRow /\ p.entity = "DELETED" /\ p.status = x.status /\ p.resto = x.resto
      BY <2>1, SetDeleted
  <2>6. /\ q \in AccountRow /\ q.entity = "DELETED" /\ q.status = x.status /\ q.resto = x.resto
      BY <2>3, <2>5, SetOp
  <2>7. /\ r \in AccountRow /\ r.entity = "DELETED" /\ r.status = x.status /\ r.resto = x.resto /\ r.number = FALSE
      BY <2>4, <2>6, SetNumber
  <2>8. /\ acc' = [acc EXCEPT ![d] = r] /\ d \in due /\ ah' = ah
        /\ docs' \in SUBSET Account /\ due' \subseteq due
      BY <1>1, <1>2, <1>7, <2>1, <2>2, <2>3, <2>4 DEF EraseAccount
  <2>9. InPlace(d, r)
      BY <1>1, <1>4, <2>7, <2>8 DEF InPlace
  <2>10. OneOffice /\ ServiceInv => InService(r)
      BY <2>7 DEF InService
  <2> QED
      BY <1>1, <2>7, <2>8, <2>9, <2>10, ElsewhereWrites
<1> QED
    BY <1>5, <1>6, <1>7

(* The cron reads the expired accounts.                                    *)
LEMMA PurgeReads ==
    ASSUME Numbers, AccountInv, purgeExpiredDeletions
    PROVE  AccountInv'
<1>1. /\ acc' = acc /\ docs' = docs /\ ah' = ah
      /\ due' = {d \in Account : acc[d].deletion = "expired" /\ acc[d].entity # "DELETED"}
    BY DEF purgeExpiredDeletions
<1>2. NumberInv'
    BY <1>1 DEF AccountInv, NumberInv, Living
<1>3. \A d \in Account : d \in due' \/ acc'[d].deletion # "none" => acc'[d].entity # "none"
    BY <1>1 DEF AccountInv, PlaceInv
<1>4. PlaceInv'
    BY <1>1, <1>3 DEF AccountInv, PlaceInv
<1>5. ServiceInv => ServiceInv'
    BY <1>1 DEF ServiceInv, ReadInv, OperationalIsSound, ValidatedIsOperational, Living
<1> QED
    BY <1>1, <1>2, <1>4, <1>5, NoKinds DEF AccountInv

LEMMA AccountStep ==
    ASSUME Numbers, AccountInv, [ANext]_avars PROVE AccountInv'
<1>1. CASE UNCHANGED avars
  <2>1. acc' = acc /\ docs' = docs /\ ah' = ah /\ due' = due
      BY <1>1 DEF avars
  <2>2. NumberInv'
      BY <2>1 DEF AccountInv, NumberInv, Living
  <2>3. PlaceInv'
      BY <2>1 DEF AccountInv, PlaceInv
  <2>4. ServiceInv => ServiceInv'
      BY <2>1 DEF ServiceInv, ReadInv, OperationalIsSound, ValidatedIsOperational, Living
  <2> QED
      BY <2>1, <2>2, <2>3, <2>4, NoKinds DEF AccountInv
<1>2. ASSUME NEW w \in AWorker,
             transitionStatus(w) \/ assignRestaurant(w) \/ deleteAccount(w) \/ softDelete(w) \/ restoreAccount(w)
      PROVE  AccountInv'
    BY <1>2, OfficeSteps
<1>3. ASSUME NEW w \in AWorker, NEW d \in Account,
             \/ registerPhone(w, d) \/ StartTransition(w, d) \/ StartAssign(w, d)
             \/ StartDeletion(w, d) \/ StartRestore(w, d)
      PROVE  AccountInv'
    BY <1>3, ReadingSteps
<1>4. ASSUME NEW d \in Account, uploadDocument(d) \/ GraceEnds(d) \/ EraseAccount(d)
      PROVE  AccountInv'
    BY <1>4, OtherSteps
<1> QED
    BY <1>1, <1>2, <1>3, <1>4, Completes, Creates, PurgeReads DEF ANext

LEMMA AccountInductive == ASSUME Numbers PROVE ASpec => []AccountInv
<1>1. AInit => AccountInv
    BY AccountsStart
<1>2. AccountInv /\ [ANext]_avars => AccountInv'
    BY AccountStep
<1> QED
    BY <1>1, <1>2, PTL DEF ASpec

(* Rows, registrations and the purge, by any number of requests: the       *)
(* values are those of the code's enums, a living account has the number,  *)
(* and no two rows hold it, whatever registrations run at once             *)
(* (`completeRegistration`, the unique index on `Deliverer.phone`).        *)
THEOREM AccountsShareNoNumber == ASSUME Numbers PROVE ASpec => []ATypeOK
<1>1. AccountInv => ATypeOK
  <2> SUFFICES ASSUME AccountInv PROVE ATypeOK
      OBVIOUS
  <2>1. \A d \in Account : acc[d] \in AccountRow
      BY DEF AccountInv, NumberInv
  <2>2. \A d \in Account :
            /\ acc[d].entity \in {"none", "ACTIVE", "DELETED"} /\ acc[d].status \in Statuses
            /\ acc[d].deletion \in {"none", "scheduled", "expired"}
            /\ Living(d) => acc[d].number
      BY <2>1 DEF AccountInv, NumberInv, AccountRow
  <2>3. Cardinality({d \in Account : acc[d].number}) <= 1
    <3>1. CASE {d \in Account : acc[d].number} = {}
        BY <3>1, FS_EmptySet
    <3>2. ASSUME NEW d \in Account, acc[d].number
          PROVE  {e \in Account : acc[e].number} = {d}
        BY <3>2 DEF AccountInv, NumberInv
    <3> QED
        BY <3>1, <3>2, FS_Singleton
  <2> QED
      BY <2>2, <2>3 DEF ATypeOK, AccountInv, NumberInv
<1> QED
    BY <1>1, AccountInductive, PTL

(* A livreur who is offered courses is validated and has a restaurant, and *)
(* one who is validated, has a restaurant and has not asked for deletion   *)
(* is offered courses, in whatever order the back office validates,        *)
(* assigns, suspends and restores, around the registrations and the purge, *)
(* as long as one request at a time changes accounts: each handler writes  *)
(* by id what it computed from the row it read (`transitionStatus`,        *)
(* `assignRestaurant`, `restoreAccount`).                                  *)
THEOREM OfferedIsValidated ==
    ASSUME Numbers, OneOffice
    PROVE  ASpec => [](OperationalIsSound /\ ValidatedIsOperational)
<1>1. AccountInv => OperationalIsSound /\ ValidatedIsOperational
    BY DEF AccountInv, ServiceInv
<1> QED
    BY <1>1, AccountInductive, PTL

===============================================================================
