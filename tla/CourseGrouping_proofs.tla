----------------------- MODULE CourseGrouping_proofs -----------------------
(***************************************************************************)
(* Proofs about CourseGrouping, in two layers.                             *)
(*                                                                         *)
(* IInv holds in every execution, whatever the requests interleave and     *)
(* wherever a backend stops: a request that has read a batch keeps its id, *)
(* one that closes a batch holds the proof that the batch was ripe when it *)
(* was read, and time only makes a batch older.  It is what MinWait needs. *)
(*                                                                         *)
(* SeqInv relates what a request has read to what the tables hold.  It is  *)
(* true as long as one request runs at a time and none stops half-way      *)
(* (Alone): the limits and the rules of the fleets rest on a read followed *)
(* by an update, and a second request between the two breaks them, which   *)
(* is why the concurrent run does not check them.  An empty course has one *)
(* cause only, the merge, which NoEmptyConcurrent states: without the      *)
(* rebalancing it appears in no execution, concurrent or cut short.        *)
(***************************************************************************)
EXTENDS CourseGrouping, FiniteSetTheorems, TLAPS

(* What a request in flight holds at each of its steps.                    *)
ReqInv(r) ==
    /\ r \in Request
    /\ r.step \in {"group", "candidate", "attach", "open"} => r.order \in Order
    /\ r.step \in {"attach", "expire", "create", "insert", "mark"} => r.batch \in Batch
    /\ r.step \in {"expire", "create", "insert", "mark"} => age[r.batch] # "young"
    /\ r.step \in {"create", "insert", "transfer"} => r.lot # {}
    /\ \A b \in r.todo : age[b] # "young"
    /\ r.step = "mark" => r.course \in Course
    /\ r.step \in {"transfer", "merge"} =>
         "rebalance" \in Ops /\ {r.target, r.course} \subseteq DOMAIN r.held

ReqOK == req \in [Req -> Request] /\ \A p \in Req : ReqInv(req[p])

WorldOK ==
    /\ status    \in [Order -> {"IN_PROGRESS", "READY", "PICKED_UP", "CANCELLED"}]
    /\ service   \in [Order -> {"CHICKEN_NATION", "TURBO"}]
    /\ address   \in [Order -> Place]
    /\ batch_id  \in [Order -> Batch \cup {NONE}]
    /\ course_id \in [Order -> Course \cup {NONE}]
    /\ batch     \in [Batch -> {"ABSENT", "PENDING", "FLUSHED", "EXPIRED"}]
    /\ age       \in [Batch -> {"young", "ripe", "expired"}]
    /\ ttl       \in [Batch -> {"short", "long"}]
    /\ statut    \in [Course -> {"ABSENT", "ADJUSTABLE", "IN_DELIVERY", "CANCELLED"}]
    /\ escalated \in [Course -> BOOLEAN]

IInv == WorldOK /\ ReqOK

(* Orders one livreur may carry together.                                  *)
Together(S) == \A o, q \in S : service[o] = service[q] /\ ~Far(o, q)

(* One request at a time, none of which is cut short.                      *)
Alone == ~CanCrash /\ \E p : Req = {p}

(* The orders of a batch that the request at its last statement has sent.  *)
Marking(b) == \E p \in Req : At(p, "mark") /\ req[p].batch = b

OrderSeq ==
    \A o \in Order :
        /\ status[o] = "IN_PROGRESS" => batch_id[o] = NONE
        /\ course_id[o] # NONE => batch_id[o] # NONE /\ statut[course_id[o]] # "ABSENT"
        /\ batch_id[o] # NONE => /\ batch[batch_id[o]] # "ABSENT"
                                 /\ batch[batch_id[o]] = "PENDING" /\ ~Marking(batch_id[o])
                                      => course_id[o] = NONE
BatchSeq ==
    \A b \in Batch : batch[b] = "PENDING" =>
        /\ Cardinality(Batched(b)) <= MaxOrders
        /\ ~Marking(b) => Together({o \in Batched(b) : status[o] = "READY"})
CourseSeq ==
    \A c \in Course :
        /\ statut[c] = "ABSENT" => ~escalated[c]
        /\ statut[c] = "ADJUSTABLE" => /\ Together(Deliveries(c))
                                       /\ Cardinality(Deliveries(c)) <= MaxOrders

(* What the rebalancing has in memory is what the table holds.             *)
HeldSeq(held) ==
    \A k \in DOMAIN held :
        /\ statut[k] \in {"ADJUSTABLE", "CANCELLED"} /\ ~escalated[k]
        /\ held[k] = Deliveries(k)
        /\ Together(held[k])
        /\ Cardinality(held[k]) <= MaxOrders

ReqSeq(r) ==
    /\ r.step \in {"candidate", "attach", "open"} =>
         status[r.order] = "READY" /\ batch_id[r.order] = NONE
    /\ r.step = "attach" => batch[r.batch] = "PENDING" /\ IsCompatible(Batched(r.batch), r.order)
    /\ r.step \in {"create", "insert"} =>
         batch[r.batch] = "PENDING" /\ r.lot \subseteq Eligible(Batched(r.batch))
    /\ r.step \in {"transfer", "merge"} => HeldSeq(r.held)
    /\ r.step = "transfer" =>
         /\ r.target # r.course
         /\ Cardinality(r.held[r.target]) < MaxOrders
         /\ \A o \in r.lot : o \in r.held[r.course] /\ CanTransfer(r.held[r.target], o)
    /\ r.step = "merge" => r.held[r.course] = {}

SeqInv == OrderSeq /\ BatchSeq /\ CourseSeq /\ \A p \in Req : ReqSeq(req[p])

-----------------------------------------------------------------------------
(* Lemmas on requests *)

LEMMA LeastPair ==
  ASSUME NEW T, T \subseteq Nat \X Nat, T # {}
  PROVE  \E u \in T : \A w \in T \ {u} : Before(u, w)
  <1> DEFINE A == {u[1] : u \in T}
  <1>1. PICK a \in A : \A x \in A : <<x, a>> \notin OpToRel(<, Nat)
    <2>1. A \subseteq Nat /\ A # {}
      OBVIOUS
    <2> QED BY <2>1, WFMin, NatLessThanWellFounded, Zenon
  <1>2. \A x \in A : x \in Nat /\ a \in Nat /\ ~(x < a)
    BY <1>1, Zenon DEF OpToRel
  <1> DEFINE B == {n \in Nat : <<a, n>> \in T}
  <1>3. PICK b \in B : \A x \in B : <<x, b>> \notin OpToRel(<, Nat)
    <2>0. PICK v \in T : v[1] = a
      OBVIOUS
    <2>a. v = <<a, v[2]>> /\ v[2] \in Nat
      BY <2>0
    <2>1. B \subseteq Nat /\ B # {}
      BY <2>0, <2>a
    <2> QED BY <2>1, WFMin, NatLessThanWellFounded, Zenon
  <1>4. \A x \in B : ~(x < b)
    BY <1>3, Zenon DEF OpToRel
  <1>5. <<a, b>> \in T
    BY <1>3
  <1>6. ASSUME NEW w \in T, w # <<a, b>> PROVE Before(<<a, b>>, w)
    <2>1. w[1] \in A /\ w[2] \in Nat /\ w[1] \in Nat /\ w = <<w[1], w[2]>>
      OBVIOUS
    <2>2. CASE w[1] = a
      <3>1. w = <<a, w[2]>> /\ w[2] \in B /\ b \in Nat /\ w[2] # b
        BY <2>1, <2>2, <1>6
      <3> HIDE DEF A, B
      <3>2. ~(w[2] < b)
        BY <3>1, <1>4
      <3> QED BY <3>1, <3>2, <2>1, <2>2 DEF Before
    <2>3. CASE w[1] # a
      BY <2>1, <2>3, <1>2 DEF Before
    <2> QED BY <2>2, <2>3
  <1> QED BY <1>5, <1>6

LEMMA IdleInv == ReqInv(Idle) /\ Idle.step = "idle"
  <1>1. <<>> \in [{} -> SUBSET Order]
    OBVIOUS
  <1>2. {} \in SUBSET Course
    OBVIOUS
  <1>3. Idle.held \in UNION {[C -> SUBSET Order] : C \in SUBSET Course}
    BY <1>1, <1>2 DEF Idle
  <1> QED BY <1>3 DEF ReqInv, Idle, Request, Steps

(* The clock only moves forwards.                                          *)
LEMMA ReqGrows ==
  ASSUME NEW r, ReqInv(r), \A b \in Batch : age[b] # "young" => age'[b] # "young"
  PROVE  ReqInv(r)'
  <1>1. r.todo \subseteq Batch
    BY DEF ReqInv, Request
  <1> QED BY <1>1 DEF ReqInv

LEMMA GotoReq ==
  ASSUME ReqOK, NEW p \in Req, NEW r, ReqInv(r), Goto(p, r),
         \A b \in Batch : age[b] # "young" => age'[b] # "young"
  PROVE  ReqOK' /\ req'[p] = r /\ \A q \in Req \ {p} : req'[q] = req[q]
  <1>1. /\ req' \in [Req -> Request] /\ req'[p] = r
        /\ \A q \in Req \ {p} : req'[q] = req[q]
    BY DEF ReqOK, ReqInv, Goto
  <1>2. ASSUME NEW q \in Req PROVE ReqInv(req[q])'
    <2>1. PICK x : x = req'[q] /\ ReqInv(x)
      BY <1>1 DEF ReqOK
    <2>2. ReqInv(x)'
      BY <2>1, ReqGrows
    <2> QED BY <2>1, <2>2
  <1> QED BY <1>1, <1>2 DEF ReqOK

(* A step that only moves a request on.                                    *)
LEMMA ReqOnly ==
  ASSUME IInv, NEW p \in Req, NEW r, ReqInv(r), Goto(p, r),
         UNCHANGED <<orderVars, batchVars, courseVars>>
  PROVE  IInv'
  <1>1. ReqOK'
    BY GotoReq DEF IInv, batchVars
  <1>2. WorldOK'
    BY DEF IInv, WorldOK, orderVars, batchVars, courseVars
  <1> QED BY <1>1, <1>2 DEF IInv

(* A step that leaves the requests alone.                                  *)
LEMMA ReqSame ==
  ASSUME ReqOK, UNCHANGED req, \A b \in Batch : age[b] # "young" => age'[b] # "young"
  PROVE  ReqOK'
  <1>1. ASSUME NEW q \in Req PROVE ReqInv(req[q])'
    <2>1. PICK x : x = req'[q] /\ ReqInv(x)
      BY DEF ReqOK
    <2> QED BY <2>1, ReqGrows
  <1> QED BY <1>1 DEF ReqOK

LEMMA NextBatchReq ==
  ASSUME NEW p \in Req, NEW todo \in SUBSET Batch, \A b \in todo : age[b] # "young",
         NextBatch(p, todo)
  PROVE  \E r : ReqInv(r) /\ Goto(p, r) /\ r.step \in {"idle", "flush"}
  <1>1. CASE todo = {}
    BY <1>1, IdleInv DEF NextBatch
  <1>2. CASE todo # {}
    <2> DEFINE r == [Idle EXCEPT !.step = "flush", !.todo = todo]
    <2>1. Idle \in Request
      BY IdleInv DEF ReqInv
    <2>2. r \in Request /\ r.step = "flush" /\ r.todo = todo
      BY <2>1 DEF Request, Steps
    <2>3. ReqInv(r)
      BY <2>2 DEF ReqInv
    <2> QED BY <1>2, <2>2, <2>3 DEF NextBatch
  <1> QED BY <1>1, <1>2

(* The pair of courses the rebalancing goes on with.                       *)
LEMMA NextPairReq ==
  ASSUME NEW p \in Req, NEW C \in SUBSET Course, NEW held \in [C -> SUBSET Order],
         "rebalance" \in Ops, NEW t, NextPair(p, held, t)
  PROVE  \E r : /\ ReqInv(r) /\ Goto(p, r) /\ r.step \in {"idle", "transfer"}
                /\ r.step = "transfer" =>
                     /\ r.held = held /\ r.target # r.course
                     /\ Cardinality(held[r.target]) < MaxOrders
                     /\ r.lot = Transferable(held, r.target, r.course)
  <1> DEFINE Later == {u \in Useful(held) : Before(t, u)}
             u == CHOOSE u \in Later : \A w \in Later \ {u} : Before(u, w)
             r == [Idle EXCEPT !.step = "transfer", !.held = held, !.target = u[1],
                               !.course = u[2], !.lot = Transferable(held, u[1], u[2])]
  <1>1. CASE Later = {}
    BY <1>1, IdleInv DEF NextPair, Return
  <1>2. CASE Later # {}
    <2>1. DOMAIN held = C /\ C \subseteq Nat /\ C \subseteq Course
      BY BoundAssumption DEF Course
    <2>2. Later \subseteq Useful(held) /\ Useful(held) \subseteq C \X C
      BY <2>1 DEF Useful
    <2>3. \E v \in Later : \A w \in Later \ {v} : Before(v, w)
      <3>1. Later \subseteq Nat \X Nat
        BY <2>1, <2>2
      <3> HIDE DEF Later
      <3> QED BY <1>2, <3>1, LeastPair
    <2>4. u \in Useful(held)
      BY <2>2, <2>3
    <2> HIDE DEF u
    <2>5. /\ u[1] \in C /\ u[2] \in C /\ u[1] # u[2]
          /\ Cardinality(held[u[1]]) < MaxOrders
          /\ Transferable(held, u[1], u[2]) # {}
      <3>1. u \in C \X C
        BY <2>2, <2>4
      <3>2. /\ u[1] < u[2]
            /\ Cardinality(held[u[1]]) < MaxOrders
            /\ Transferable(held, u[1], u[2]) # {}
        BY <2>4, Zenon DEF Useful
      <3>3. u[1] \in C /\ u[2] \in C
        BY <3>1
      <3>4. u[1] \in Nat /\ u[2] \in Nat /\ u[1] < u[2]
        BY <3>2, <3>3, <2>1
      <3>5. u[1] # u[2]
        BY <3>4
      <3> QED BY <3>2, <3>3, <3>5, Zenon
    <2>6. Transferable(held, u[1], u[2]) \in SUBSET Order
      BY <2>5 DEF Transferable
    <2>7. Idle \in Request
      BY IdleInv DEF ReqInv
    <2>8. held \in UNION {[D -> SUBSET Order] : D \in SUBSET Course}
      OBVIOUS
    <2>9. /\ r \in Request /\ r.step = "transfer" /\ r.held = held /\ r.target = u[1]
          /\ r.course = u[2] /\ r.lot = Transferable(held, u[1], u[2]) /\ r.todo = {}
      BY <2>1, <2>5, <2>6, <2>7, <2>8 DEF Request, Steps, Idle
    <2>10. ReqInv(r)
      BY <2>1, <2>5, <2>9 DEF ReqInv
    <2>11. Goto(p, r)
      BY <1>2 DEF NextPair, u
    <2> QED BY <2>5, <2>9, <2>10, <2>11
  <1> QED BY <1>1, <1>2

-----------------------------------------------------------------------------
(* The initial states, and one lemma per action *)

LEMMA InitIInv == Init => IInv
  <1> SUFFICES ASSUME Init PROVE IInv
    OBVIOUS
  <1>1. WorldOK
    BY FleetAssumption DEF Init, WorldOK
  <1>2. ReqOK
    BY IdleInv DEF Init, ReqOK, ReqInv
  <1> QED BY <1>1, <1>2 DEF IInv

LEMMA MarkReadyIInv == ASSUME IInv, NEW p \in Req, NEW o \in Order, MarkReady(p, o) PROVE IInv'
  <1> DEFINE r == [Idle EXCEPT !.step = "group", !.order = o]
  <1>1. ReqInv(r)
    BY IdleInv DEF ReqInv, Request, Steps, Idle
  <1>2. ReqOK'
    BY <1>1, GotoReq DEF IInv, MarkReady, batchVars
  <1>3. WorldOK'
    BY DEF IInv, WorldOK, MarkReady, batchVars, courseVars
  <1> QED BY <1>2, <1>3 DEF IInv

LEMMA GroupReadIInv == ASSUME IInv, NEW p \in Req, GroupRead(p) PROVE IInv'
  <1> DEFINE r == [req[p] EXCEPT !.step = "candidate"]
  <1>1. ReqInv(req[p]) /\ req[p].step = "group"
    BY DEF IInv, ReqOK, GroupRead, At
  <1>2. ReqInv(r)
    BY <1>1 DEF ReqInv, Request, Steps
  <1>3. Goto(p, r) \/ Goto(p, Idle)
    BY DEF GroupRead, Step, Return
  <1> QED BY <1>2, <1>3, IdleInv, ReqOnly DEF GroupRead

LEMMA CandidateIInv == ASSUME IInv, NEW p \in Req, Candidate(p) PROVE IInv'
  <1> DEFINE r(b) == [req[p] EXCEPT !.step = "attach", !.batch = b]
             n == [req[p] EXCEPT !.step = "open"]
  <1>1. ReqInv(req[p]) /\ req[p].step = "candidate"
    BY DEF IInv, ReqOK, Candidate, At
  <1>2. (\A b \in Batch : ReqInv(r(b))) /\ ReqInv(n)
    BY <1>1 DEF ReqInv, Request, Steps
  <1>3. (\E b \in Batch : Goto(p, r(b))) \/ Goto(p, n)
    BY DEF Candidate, Step
  <1> QED BY <1>2, <1>3, ReqOnly DEF Candidate

LEMMA AttachIInv == ASSUME IInv, NEW p \in Req, Attach(p) PROVE IInv'
  <1>1. ReqInv(req[p]) /\ req[p].step = "attach"
    BY DEF IInv, ReqOK, Attach, At
  <1>2. req[p].batch \in Batch /\ req[p].order \in Order
    BY <1>1 DEF ReqInv
  <1>3. ReqOK'
    BY IdleInv, GotoReq DEF IInv, Attach, Return, batchVars
  <1>4. WorldOK'
    BY <1>2 DEF IInv, WorldOK, Attach, batchVars, courseVars
  <1> QED BY <1>3, <1>4 DEF IInv

LEMMA NewBatchIInv == ASSUME IInv, NEW p \in Req, NewBatch(p) PROVE IInv'
  <1>1. ReqInv(req[p]) /\ req[p].step = "open"
    BY DEF IInv, ReqOK, NewBatch, At
  <1>2. req[p].order \in Order
    BY <1>1 DEF ReqInv
  <1>3. ReqOK'
    BY IdleInv, GotoReq DEF IInv, NewBatch, Return
  <1>4. WorldOK'
    BY <1>2 DEF IInv, WorldOK, NewBatch, courseVars
  <1> QED BY <1>3, <1>4 DEF IInv

(* flushMatureBatches.                                                     *)
LEMMA FlushReadIInv == ASSUME IInv, NEW p \in Req, FlushRead(p) PROVE IInv'
  <1> DEFINE todo == {b \in Batch : Mature(b)}
             r == [Idle EXCEPT !.step = "flush", !.todo = todo]
  <1>1. \A b \in todo : age[b] # "young"
    BY DEF Mature
  <1>2. Idle \in Request
    BY IdleInv DEF ReqInv
  <1>3. r \in Request /\ r.step = "flush" /\ r.todo = todo
    BY <1>2 DEF Request, Steps
  <1>4. ReqInv(r)
    BY <1>1, <1>3 DEF ReqInv
  <1>5. Goto(p, r) /\ UNCHANGED <<orderVars, batchVars, courseVars>>
    BY DEF FlushRead
  <1> QED BY <1>4, <1>5, ReqOnly

LEMMA BatchReadIInv == ASSUME IInv, NEW p \in Req, BatchRead(p) PROVE IInv'
  <1>1. ReqInv(req[p]) /\ req[p].step = "flush" /\ UNCHANGED <<orderVars, batchVars, courseVars>>
    BY DEF IInv, ReqOK, BatchRead, At
  <1> DEFINE lot(b) == Eligible(Batched(b))
             x(b) == [req[p] EXCEPT !.todo = @ \ {b}, !.batch = b, !.lot = lot(b)]
             r(b, s) == [x(b) EXCEPT !.step = s]
  <1>2. PICK b \in req[p].todo :
          \/ NextBatch(p, x(b).todo)
          \/ lot(b) = {} /\ Goto(p, r(b, "expire"))
          \/ lot(b) # {} /\ Goto(p, r(b, "create"))
    BY DEF BatchRead
  <1>3. /\ b \in Batch /\ x(b).todo \in SUBSET Batch
        /\ \A d \in x(b).todo \cup {b} : age[d] # "young"
    BY <1>1 DEF ReqInv, Request
  <1>4. lot(b) \in SUBSET Order
    BY DEF Eligible, Batched
  <1>5. ASSUME NEW s \in {"expire", "create"}, s = "create" => lot(b) # {}
        PROVE  ReqInv(r(b, s))
    <2> HIDE DEF lot
    <2>1. /\ r(b, s) \in Request /\ r(b, s).step = s /\ r(b, s).batch = b
          /\ r(b, s).lot = lot(b) /\ r(b, s).todo = x(b).todo
      BY <1>1, <1>3, <1>4 DEF ReqInv, Request, Steps
    <2> QED BY <2>1, <1>3, <1>5 DEF ReqInv
  <1>6. \E y : ReqInv(y) /\ Goto(p, y)
    BY <1>2, <1>3, <1>5, NextBatchReq
  <1> QED BY <1>1, <1>6, ReqOnly

(* The end of one batch of the loop.                                       *)
LEMMA EndBatchIInv ==
  ASSUME IInv, NEW p \in Req, req[p].step \in {"expire", "mark"},
         NEW s \in {"EXPIRED", "FLUSHED"}, batch' = [batch EXCEPT ![req[p].batch] = s],
         NextBatch(p, req[p].todo), UNCHANGED <<orderVars, age, ttl, courseVars>>
  PROVE  IInv'
  <1>1. ReqInv(req[p])
    BY DEF IInv, ReqOK
  <1>2. \E x : ReqInv(x) /\ Goto(p, x)
    BY <1>1, NextBatchReq DEF ReqInv, Request
  <1>3. ReqOK'
    BY <1>2, GotoReq DEF IInv
  <1>4. WorldOK'
    BY <1>1 DEF ReqInv, IInv, WorldOK, orderVars, courseVars
  <1> QED BY <1>3, <1>4 DEF IInv

LEMMA BatchExpireIInv == ASSUME IInv, NEW p \in Req, BatchExpire(p) PROVE IInv'
  BY EndBatchIInv DEF BatchExpire, At

LEMMA BatchFlushedIInv == ASSUME IInv, NEW p \in Req, BatchFlushed(p) PROVE IInv'
  BY EndBatchIInv DEF BatchFlushed, At

LEMMA CreateReadIInv == ASSUME IInv, NEW p \in Req, CreateRead(p) PROVE IInv'
  <1> DEFINE lot == Eligible(req[p].lot)
             r == [req[p] EXCEPT !.step = "insert", !.lot = lot]
  <1>1. ReqInv(req[p]) /\ req[p].step = "create"
    BY DEF IInv, ReqOK, CreateRead, At
  <1>2. lot \in SUBSET Order
    BY <1>1 DEF ReqInv, Request, Eligible
  <1>3. lot # {} => ReqInv(r)
    <2> HIDE DEF lot
    <2> QED BY <1>1, <1>2 DEF ReqInv, Request, Steps
  <1>4. (lot # {} /\ Goto(p, r)) \/ NextBatch(p, req[p].todo)
    BY DEF CreateRead
  <1>5. \E x : ReqInv(x) /\ Goto(p, x)
    BY <1>1, <1>3, <1>4, NextBatchReq DEF ReqInv, Request
  <1> QED BY <1>5, ReqOnly DEF CreateRead

LEMMA CreateInsertIInv == ASSUME IInv, NEW p \in Req, CreateInsert(p) PROVE IInv'
  <1> DEFINE r(c) == [req[p] EXCEPT !.step = "mark", !.course = c, !.lot = {}]
  <1>1. ReqInv(req[p]) /\ req[p].step = "insert"
    BY DEF IInv, ReqOK, CreateInsert, At
  <1>2. \A c \in Course : ReqInv(r(c))
    BY <1>1 DEF ReqInv, Request, Steps
  <1>3. NextBatch(p, req[p].todo) \/ \E c \in Course : Goto(p, r(c))
    BY DEF CreateInsert
  <1>4. \E x : ReqInv(x) /\ Goto(p, x)
    <2>1. /\ req[p].todo \in SUBSET Batch
          /\ \A b \in req[p].todo : age[b] # "young"
      BY <1>1 DEF ReqInv, Request
    <2>2. CASE NextBatch(p, req[p].todo)
      BY <2>1, <2>2, NextBatchReq
    <2> QED BY <1>2, <1>3, <2>2
  <1>5. ReqOK'
    BY <1>4, GotoReq DEF IInv, CreateInsert, batchVars
  <1>6. WorldOK'
    <2>1. CASE UNCHANGED <<course_id, statut>>
      BY <2>1 DEF IInv, WorldOK, CreateInsert, batchVars
    <2>2. ASSUME NEW c \in Course, statut' = [statut EXCEPT ![c] = "ADJUSTABLE"],
                 course_id' = [o \in Order |-> IF o \in req[p].lot THEN c ELSE course_id[o]]
          PROVE  WorldOK'
      BY <2>2 DEF IInv, WorldOK, CreateInsert, batchVars
    <2> QED BY <2>1, <2>2 DEF CreateInsert
  <1> QED BY <1>5, <1>6 DEF IInv

(* rebalanceActiveCourses.                                                 *)
LEMMA RebalanceReadIInv == ASSUME IInv, NEW p \in Req, RebalanceRead(p) PROVE IInv'
  <1> DEFINE C == {c \in Course : statut[c] = "ADJUSTABLE" /\ ~escalated[c]}
             held == [c \in C |-> Deliveries(c)]
  <1>1. C \in SUBSET Course /\ held \in [C -> SUBSET Order]
    BY DEF Deliveries
  <1>2. /\ "rebalance" \in Ops /\ NextPair(p, held, <<0, 0>>)
        /\ UNCHANGED <<orderVars, batchVars, courseVars>>
    BY DEF RebalanceRead
  <1> HIDE DEF C, held
  <1>3. \E r : ReqInv(r) /\ Goto(p, r)
    BY <1>1, <1>2, NextPairReq
  <1> QED BY <1>2, <1>3, ReqOnly

(* What the rebalancing has in memory before and after one transfer.       *)
LEMMA HeldMoved ==
  ASSUME NEW C \in SUBSET Course, NEW held \in [C -> SUBSET Order], NEW i \in C, NEW j \in C,
         NEW o \in Order
  PROVE  [held EXCEPT ![i] = @ \cup {o}, ![j] = @ \ {o}] \in [C -> SUBSET Order]
  OBVIOUS

LEMMA TransferIInv == ASSUME IInv, NEW p \in Req, Transfer(p) PROVE IInv'
  <1> DEFINE i == req[p].target
             j == req[p].course
             moved(o) == [req[p].held EXCEPT ![i] = @ \cup {o}, ![j] = @ \ {o}]
             more(o) == [req[p] EXCEPT !.held = moved(o), !.lot = req[p].lot \ {o}]
             merge(o) == [req[p] EXCEPT !.step = "merge", !.held = moved(o), !.lot = {}]
  <1>1. ReqInv(req[p]) /\ req[p].step = "transfer"
    BY DEF IInv, ReqOK, Transfer, At
  <1>2. PICK C \in SUBSET Course : req[p].held \in [C -> SUBSET Order]
    BY <1>1 DEF ReqInv, Request
  <1>3. i \in C /\ j \in C /\ req[p].lot \in SUBSET Order /\ "rebalance" \in Ops
    BY <1>1, <1>2 DEF ReqInv, Request
  <1>4. PICK o \in req[p].lot :
          /\ course_id' = [course_id EXCEPT ![o] = i]
          /\ \/ req[p].lot \ {o} # {} /\ Goto(p, more(o))
             \/ Goto(p, merge(o))
             \/ NextPair(p, moved(o), <<i, j>>)
    BY DEF Transfer
  <1>5. moved(o) \in [C -> SUBSET Order]
    BY <1>2, <1>3, HeldMoved
  <1>6. moved(o) \in UNION {[D -> SUBSET Order] : D \in SUBSET Course} /\ DOMAIN moved(o) = C
    BY <1>5
  <1>7. /\ req[p].lot \ {o} # {} => ReqInv(more(o))
        /\ ReqInv(merge(o))
    <2> HIDE DEF moved
    <2> QED BY <1>1, <1>3, <1>6 DEF ReqInv, Request, Steps
  <1> HIDE DEF moved, more, merge
  <1>8. \E r : ReqInv(r) /\ Goto(p, r)
    BY <1>3, <1>4, <1>5, <1>7, NextPairReq
  <1>9. ReqOK'
    BY <1>8, GotoReq DEF IInv, Transfer, batchVars
  <1>10. WorldOK'
    BY <1>3, <1>4 DEF IInv, WorldOK, Transfer, batchVars, courseVars
  <1> QED BY <1>9, <1>10 DEF IInv

LEMMA MergeIInv == ASSUME IInv, NEW p \in Req, Merge(p) PROVE IInv'
  <1>1. ReqInv(req[p]) /\ req[p].step = "merge"
    BY DEF IInv, ReqOK, Merge, At
  <1>2. PICK C \in SUBSET Course : req[p].held \in [C -> SUBSET Order]
    BY <1>1 DEF ReqInv, Request
  <1>3. \E r : ReqInv(r) /\ Goto(p, r)
    BY <1>1, <1>2, NextPairReq DEF ReqInv, Merge
  <1>4. ReqOK'
    BY <1>3, GotoReq DEF IInv, Merge, batchVars
  <1>5. WorldOK'
    BY DEF IInv, WorldOK, Merge, orderVars, batchVars
  <1> QED BY <1>4, <1>5 DEF IInv

(* The kitchen, the operators, Turbo, the clock, a stop.                   *)
LEMMA CancelOrderIInv == ASSUME IInv, NEW p \in Req, NEW o \in Order, CancelOrder(p, o) PROVE IInv'
  <1>1. ReqOK'
    BY ReqSame DEF IInv, CancelOrder, batchVars
  <1>2. WorldOK'
    BY DEF IInv, WorldOK, CancelOrder, batchVars, courseVars
  <1> QED BY <1>1, <1>2 DEF IInv

LEMMA PickUpIInv == ASSUME IInv, NEW p \in Req, NEW c \in Course, PickUp(p, c) PROVE IInv'
  <1>1. ReqOK'
    BY ReqSame DEF IInv, PickUp, batchVars
  <1>2. WorldOK'
    BY DEF IInv, WorldOK, PickUp, batchVars
  <1> QED BY <1>1, <1>2 DEF IInv

LEMMA SubcontractIInv == ASSUME IInv, NEW p \in Req, NEW c \in Course, Subcontract(p, c) PROVE IInv'
  <1>1. ReqOK'
    BY ReqSame DEF IInv, Subcontract, batchVars
  <1>2. WorldOK'
    BY DEF IInv, WorldOK, Subcontract, batchVars
  <1> QED BY <1>1, <1>2 DEF IInv

LEMMA TakeBackIInv == ASSUME IInv, NEW p \in Req, NEW c \in Course, TakeBack(p, c) PROVE IInv'
  <1>1. ReqOK'
    BY ReqSame DEF IInv, TakeBack, batchVars
  <1>2. WorldOK'
    BY DEF IInv, WorldOK, TakeBack, batchVars
  <1> QED BY <1>1, <1>2 DEF IInv

LEMMA TickIInv == ASSUME IInv, NEW b \in Batch, Tick(b) PROVE IInv'
  <1>1. \A a \in Batch : age[a] # "young" => age'[a] # "young"
    BY DEF IInv, WorldOK, Tick
  <1>2. ReqOK'
    BY <1>1, ReqSame DEF IInv, Tick
  <1>3. WorldOK'
    BY DEF IInv, WorldOK, Tick, orderVars, courseVars
  <1> QED BY <1>2, <1>3 DEF IInv

LEMMA CrashIInv == ASSUME IInv, NEW p \in Req, Crash(p) PROVE IInv'
  BY IdleInv, ReqOnly DEF Crash, Return

LEMMA StutterIInv == ASSUME IInv, UNCHANGED vars PROVE IInv'
  <1>1. ReqOK'
    BY ReqSame DEF IInv, vars
  <1>2. WorldOK'
    BY DEF IInv, WorldOK, vars
  <1> QED BY <1>1, <1>2 DEF IInv

LEMMA NextIInv == ASSUME IInv, [Next]_vars PROVE IInv'
  <1>1. ASSUME NEW p \in Req, Handle(p) PROVE IInv'
    BY <1>1, GroupReadIInv, CandidateIInv, AttachIInv, NewBatchIInv DEF Handle
  <1>2. ASSUME NEW p \in Req, Flush(p) PROVE IInv'
    BY <1>2, BatchReadIInv, BatchExpireIInv, CreateReadIInv, CreateInsertIInv, BatchFlushedIInv DEF Flush
  <1>3. ASSUME NEW p \in Req, Rebalance(p) PROVE IInv'
    BY <1>3, TransferIInv, MergeIInv DEF Rebalance
  <1>4. ASSUME NEW p \in Req, FlushRead(p) \/ RebalanceRead(p) \/ Crash(p) PROVE IInv'
    BY <1>4, FlushReadIInv, RebalanceReadIInv, CrashIInv
  <1>5. ASSUME NEW p \in Req, NEW o \in Order, MarkReady(p, o) \/ CancelOrder(p, o) PROVE IInv'
    BY <1>5, MarkReadyIInv, CancelOrderIInv
  <1>6. ASSUME NEW p \in Req, NEW c \in Course,
               PickUp(p, c) \/ Subcontract(p, c) \/ TakeBack(p, c)
        PROVE  IInv'
    BY <1>6, PickUpIInv, SubcontractIInv, TakeBackIInv
  <1>7. ASSUME NEW b \in Batch, Tick(b) PROVE IInv'
    BY <1>7, TickIInv
  <1> QED BY <1>1, <1>2, <1>3, <1>4, <1>5, <1>6, <1>7, StutterIInv DEF Next

-----------------------------------------------------------------------------
(* What holds of every execution, however concurrent                       *)

(* Whatever requests interleave and backends stop, what is in flight is    *)
(* well typed and a batch in the hands of the flush cron has waited.       *)
THEOREM Inductive == Spec => []IInv
  BY InitIInv, NextIInv, PTL DEF Spec

(* Every variable keeps its type (CourseGroupingService).                  *)
THEOREM TypeCorrect == Spec => []TypeOK
  <1>1. IInv => TypeOK
    BY DEF IInv, WorldOK, ReqOK, TypeOK
  <1> QED BY <1>1, Inductive, PTL

(* No step closes a batch before batch_min_wait_seconds (flushBatch):      *)
(* every statement of the flush works on ids that were mature when read,   *)
(* and age only grows.                                                     *)
THEOREM MinWait == Spec => MinWaitRespected
  <1> DEFINE Waited == \A b \in Batch : batch[b] = "PENDING" /\ batch'[b] # "PENDING" => age[b] # "young"
  <1>1. ASSUME IInv, [Next]_vars PROVE Waited
    <2>1. ASSUME NEW p \in Req, BatchExpire(p) \/ BatchFlushed(p) PROVE Waited
      <3>1. ReqInv(req[p]) /\ req[p].step \in {"expire", "mark"}
        BY <1>1, <2>1 DEF IInv, ReqOK, BatchExpire, BatchFlushed, At
      <3> QED BY <1>1, <2>1, <3>1 DEF IInv, WorldOK, BatchExpire, BatchFlushed, ReqInv
    <2>2. ASSUME NEW p \in Req, NewBatch(p) PROVE Waited
      BY <1>1, <2>2 DEF IInv, WorldOK, NewBatch
    <2>3. ASSUME UNCHANGED batch PROVE Waited
      BY <2>3
    <2> QED BY <1>1, <2>1, <2>2, <2>3
         DEF Next, vars, batchVars, Handle, Flush, Rebalance, GroupRead, Candidate, Attach,
             BatchRead, CreateRead, CreateInsert, Transfer, Merge, FlushRead, RebalanceRead, Crash,
             MarkReady, CancelOrder, PickUp, Subcontract, TakeBack, Tick
  <1> QED BY <1>1, Inductive, PTL DEF Spec, MinWaitRespected

-----------------------------------------------------------------------------
(* One request at a time                                                   *)

LEMMA FarTypes ==
  ASSUME WorldOK, NEW o \in Order, NEW q \in Order
  PROVE  (Far(o, q) <=> Far(q, o)) /\ ~Far(o, o)
  <1>1. \A x \in Order : address[x] # NONE => address[x] \in Int
    BY PlaceAssumption DEF WorldOK
  <1> QED BY <1>1, PlaceAssumption DEF Far, Located

LEMMA NoneIsNoId == NONE \notin Batch /\ NONE \notin Course
  BY NoneAssumption, BoundAssumption DEF Batch, Course

(* Steps of which nothing more is known.                                   *)
LEMMA RestSeq ==
  ASSUME NEW r, r.step \in {"idle", "group", "flush", "expire", "mark"}
  PROVE  ReqSeq(r) /\ ReqSeq(r)'
  BY DEF ReqSeq

(* After a step of the one request there is.                               *)
LEMMA SeqParts ==
  ASSUME NEW p \in Req, Req = {p}, NEW r, req'[p] = r, ReqSeq(r)',
         OrderSeq', BatchSeq', CourseSeq'
  PROVE  SeqInv'
  BY DEF SeqInv

(* A step that only moves the request on.                                  *)
LEMMA SeqOnly ==
  ASSUME IInv, SeqInv, NEW p \in Req, Req = {p}, NEW r, Goto(p, r), ReqSeq(r),
         r.step # "mark", req[p].step # "mark",
         UNCHANGED <<orderVars, batchVars, courseVars>>
  PROVE  SeqInv'
  <1>1. req'[p] = r
    BY DEF IInv, ReqOK, Goto
  <1>2. \A b : ~Marking(b) /\ ~Marking(b)'
    BY <1>1 DEF Marking, At
  <1>3. OrderSeq'
    BY <1>2 DEF SeqInv, OrderSeq, orderVars, batchVars, courseVars
  <1>4. BatchSeq'
    BY <1>2 DEF SeqInv, BatchSeq, Batched, Together, Far, Located, orderVars, batchVars
  <1>5. CourseSeq'
    BY DEF SeqInv, CourseSeq, Deliveries, Together, Far, Located, orderVars, courseVars
  <1>6. ReqSeq(r)'
    BY DEF ReqSeq, HeldSeq, IsCompatible, Eligible, Batched, Deliveries, CanTransfer, Together,
           Far, Located, orderVars, batchVars, courseVars
  <1> QED BY <1>1, <1>3, <1>4, <1>5, <1>6 DEF SeqInv

LEMMA InitSeq == Init => SeqInv
  <1> SUFFICES ASSUME Init PROVE SeqInv
    OBVIOUS
  <1>1. OrderSeq /\ BatchSeq /\ CourseSeq
    BY DEF Init, OrderSeq, BatchSeq, CourseSeq
  <1>2. \A p \in Req : ReqSeq(req[p])
    BY IdleInv, RestSeq DEF Init
  <1> QED BY <1>1, <1>2 DEF SeqInv

LEMMA MarkReadySeq ==
  ASSUME IInv, SeqInv, NEW p \in Req, Req = {p}, NEW o \in Order, MarkReady(p, o)
  PROVE  SeqInv'
  <1> DEFINE r == [Idle EXCEPT !.step = "group", !.order = o]
  <1>1. req'[p] = r /\ r.step = "group" /\ req[p].step = "idle"
    BY DEF IInv, ReqOK, MarkReady, Goto, Idle, At
  <1>2. \A b : ~Marking(b) /\ ~Marking(b)'
    BY <1>1 DEF Marking, At
  <1>3. OrderSeq'
    BY <1>2 DEF SeqInv, OrderSeq, MarkReady, batchVars, courseVars, IInv, WorldOK
  <1>4. ASSUME NEW b \in Batch
        PROVE  /\ Batched(b)' = Batched(b)
               /\ {q \in Batched(b) : status[q] = "READY"}' = {q \in Batched(b) : status[q] = "READY"}
    BY NoneIsNoId DEF Batched, SeqInv, OrderSeq, MarkReady, IInv, WorldOK
  <1>5. BatchSeq'
    BY <1>2, <1>4 DEF SeqInv, BatchSeq, Together, Far, Located, MarkReady, batchVars
  <1>6. CourseSeq'
    BY DEF SeqInv, CourseSeq, Deliveries, Together, Far, Located, MarkReady, courseVars
  <1> HIDE DEF r
  <1> QED BY <1>1, <1>3, <1>5, <1>6, RestSeq, SeqParts

LEMMA GroupReadSeq ==
  ASSUME IInv, SeqInv, NEW p \in Req, Req = {p}, GroupRead(p) PROVE SeqInv'
  <1> DEFINE r == [req[p] EXCEPT !.step = "candidate"]
  <1>1. req[p] \in Request /\ req[p].step = "group"
    BY DEF IInv, ReqOK, GroupRead, At
  <1>2. r.step = "candidate" /\ r.order = req[p].order
    BY <1>1 DEF Request
  <1>3. \/ Goto(p, Idle)
        \/ status[r.order] = "READY" /\ batch_id[r.order] = NONE /\ Goto(p, r)
    BY <1>1, <1>2 DEF GroupRead, Step, Return
  <1>4. status[r.order] = "READY" /\ batch_id[r.order] = NONE => ReqSeq(r)
    BY <1>2 DEF ReqSeq
  <1>5. UNCHANGED <<orderVars, batchVars, courseVars>>
    BY DEF GroupRead
  <1>6. ReqSeq(Idle) /\ Idle.step # "mark"
    BY IdleInv, RestSeq
  <1> HIDE DEF r
  <1>7. CASE Goto(p, Idle)
    BY <1>1, <1>5, <1>6, <1>7, SeqOnly
  <1>8. CASE Goto(p, r) /\ ReqSeq(r)
    BY <1>1, <1>2, <1>5, <1>8, SeqOnly
  <1> QED BY <1>3, <1>4, <1>7, <1>8

LEMMA CandidateSeq ==
  ASSUME IInv, SeqInv, NEW p \in Req, Req = {p}, Candidate(p) PROVE SeqInv'
  <1> DEFINE r(b) == [req[p] EXCEPT !.step = "attach", !.batch = b]
             n == [req[p] EXCEPT !.step = "open"]
  <1>1. req[p] \in Request /\ ReqSeq(req[p]) /\ req[p].step = "candidate"
    BY DEF IInv, ReqOK, SeqInv, Candidate, At
  <1>2. /\ n.step = "open" /\ n.order = req[p].order
        /\ \A b \in Batch : /\ r(b).step = "attach" /\ r(b).order = req[p].order
                            /\ r(b).batch = b
    BY <1>1 DEF Request
  <1>3. ReqSeq(n) /\ \A b \in Batch : batch[b] = "PENDING" /\ IsCompatible(Batched(b), req[p].order)
                                         => ReqSeq(r(b))
    BY <1>1, <1>2 DEF ReqSeq
  <1>4. \/ Goto(p, n)
        \/ \E b \in Batch : /\ batch[b] = "PENDING" /\ IsCompatible(Batched(b), req[p].order)
                            /\ Goto(p, r(b))
    BY DEF Candidate, Step
  <1>5. UNCHANGED <<orderVars, batchVars, courseVars>>
    BY DEF Candidate
  <1> HIDE DEF n, r
  <1>6. PICK x : Goto(p, x) /\ ReqSeq(x) /\ x.step \in {"attach", "open"}
    BY <1>2, <1>3, <1>4
  <1> QED BY <1>1, <1>5, <1>6, SeqOnly

(* A batch takes one more order, the first one or a compatible one.        *)
LEMMA JoinSeq ==
  ASSUME IInv, SeqInv, IsFiniteSet(Order), NEW p \in Req, Req = {p}, Return(p),
         req[p].step \in {"attach", "open"}, req[p].order \in Order, ReqSeq(req[p]),
         NEW b \in Batch, batch_id' = [batch_id EXCEPT ![req[p].order] = b],
         \/ batch[b] = "PENDING" /\ batch' = batch /\ IsCompatible(Batched(b), req[p].order)
         \/ batch[b] = "ABSENT" /\ batch' = [batch EXCEPT ![b] = "PENDING"],
         UNCHANGED <<status, service, address, course_id, courseVars>>
  PROVE  SeqInv'
  <1> DEFINE o == req[p].order
  <1>1. req'[p] = Idle /\ Idle.step = "idle"
    BY IdleInv DEF IInv, ReqOK, Return, Goto
  <1>2. \A a : ~Marking(a) /\ ~Marking(a)'
    BY <1>1 DEF Marking, At
  <1>3. o \in Order /\ status[o] = "READY" /\ batch_id[o] = NONE /\ course_id[o] = NONE
    BY DEF ReqSeq, SeqInv, OrderSeq
  <1>4. /\ batch'[b] = "PENDING"
        /\ \A a \in Batch \ {b} : batch'[a] = batch[a]
        /\ batch_id'[o] = b
        /\ \A q \in Order \ {o} : batch_id'[q] = batch_id[q]
    BY <1>3 DEF IInv, WorldOK
  <1>5. OrderSeq'
    BY <1>2, <1>3, <1>4 DEF SeqInv, OrderSeq, courseVars, IInv, WorldOK
  <1>6. /\ \A a \in Batch \ {b} : Batched(a)' = Batched(a)
        /\ Batched(b)' = Batched(b) \cup {o}
    BY <1>3, <1>4, NoneIsNoId DEF Batched
  <1>7. batch[b] = "ABSENT" => Batched(b) = {}
    BY NoneIsNoId DEF SeqInv, OrderSeq, Batched
  <1>8. Cardinality(Batched(b)) < MaxOrders /\ IsFiniteSet(Batched(b)) /\ MaxOrders \in Nat
    <2>1. IsFiniteSet(Batched(b))
      BY FS_Subset DEF Batched
    <2>2. MaxOrders \in Nat /\ MaxOrders > 0
      BY BoundAssumption
    <2>3. CASE batch[b] = "ABSENT"
      BY <2>1, <2>2, <2>3, <1>7, FS_EmptySet
    <2> QED BY <2>1, <2>2, <2>3 DEF IsCompatible
  <1>9. Cardinality(Batched(b)') <= MaxOrders
    <2>1. Cardinality(Batched(b)) \in Nat
      BY <1>8, FS_CardinalityType
    <2> HIDE DEF o
    <2>2. Cardinality(Batched(b) \cup {o}) = IF o \in Batched(b) THEN Cardinality(Batched(b))
                                             ELSE Cardinality(Batched(b)) + 1
      BY <1>8, FS_AddElement, Zenon
    <2> QED BY <2>1, <2>2, <1>6, <1>8
  <1>10. Together({q \in Batched(b) \cup {o} : status[q] = "READY"})
    <2>1. Together({q \in Batched(b) : status[q] = "READY"})
      BY <1>2, <1>7 DEF SeqInv, BatchSeq, Together
    <2>2. ASSUME NEW q \in Batched(b), status[q] = "READY"
          PROVE  service[q] = service[o] /\ ~Far(o, q)
      BY <2>2, <1>7 DEF IsCompatible
    <2>3. Batched(b) \subseteq Order
      BY DEF Batched
    <2>4. ~Far(o, o) /\ \A q \in Batched(b) : Far(o, q) <=> Far(q, o)
      BY <2>3, FarTypes DEF IInv
    <2> HIDE DEF o
    <2> QED BY <2>1, <2>2, <2>4 DEF Together
  <1>11. BatchSeq'
    <2>1. \A S : Together(S)' = Together(S)
      BY DEF Together, Far, Located
    <2>2. ASSUME NEW a \in Batch \ {b}, batch'[a] = "PENDING"
          PROVE  /\ Cardinality(Batched(a)') <= MaxOrders
                 /\ Together({q \in Batched(a) : status[q] = "READY"})'
      <3>1. /\ Cardinality(Batched(a)) <= MaxOrders
            /\ Together({q \in Batched(a) : status[q] = "READY"})
        BY <2>2, <1>2, <1>4 DEF SeqInv, BatchSeq
      <3>2. Batched(a)' = Batched(a)
        BY <1>6
      <3> QED BY <3>1, <3>2 DEF Together, Far, Located
    <2>3. Together({q \in Batched(b) : status[q] = "READY"})'
      BY <1>10, <1>6 DEF Together, Far, Located
    <2> QED BY <2>2, <2>3, <1>9 DEF BatchSeq
  <1>12. CourseSeq'
    BY DEF SeqInv, CourseSeq, Deliveries, Together, Far, Located, courseVars
  <1> QED BY <1>1, <1>5, <1>11, <1>12, RestSeq, SeqParts

LEMMA AttachSeq ==
  ASSUME IInv, SeqInv, IsFiniteSet(Order), NEW p \in Req, Req = {p}, Attach(p) PROVE SeqInv'
  <1>1. ReqInv(req[p]) /\ ReqSeq(req[p]) /\ req[p].step = "attach"
    BY DEF IInv, ReqOK, SeqInv, Attach, At
  <1>2. /\ req[p].order \in Order /\ req[p].batch \in Batch /\ batch[req[p].batch] = "PENDING"
        /\ IsCompatible(Batched(req[p].batch), req[p].order)
    BY <1>1 DEF ReqInv, ReqSeq
  <1> QED BY <1>1, <1>2, JoinSeq DEF Attach, batchVars

LEMMA NewBatchSeq ==
  ASSUME IInv, SeqInv, IsFiniteSet(Order), NEW p \in Req, Req = {p}, NewBatch(p) PROVE SeqInv'
  <1>1. ReqInv(req[p]) /\ ReqSeq(req[p]) /\ req[p].step = "open"
    BY DEF IInv, ReqOK, SeqInv, NewBatch, At
  <1>2. req[p].order \in Order
    BY <1>1 DEF ReqInv
  <1> QED BY <1>1, <1>2, JoinSeq DEF NewBatch

(* The loop of the flush goes on.                                          *)
LEMMA NextBatchSeq ==
  ASSUME IInv, SeqInv, NEW p \in Req, Req = {p}, ReqInv(req[p]), NextBatch(p, req[p].todo)
  PROVE  \E r : Goto(p, r) /\ r.step \in {"idle", "flush"} /\ req'[p] = r /\ ReqSeq(r) /\ ReqSeq(r)'
  <1>1. req[p].todo \in SUBSET Batch /\ \A b \in req[p].todo : age[b] # "young"
    BY DEF ReqInv, Request
  <1>2. PICK r : Goto(p, r) /\ r.step \in {"idle", "flush"}
    BY <1>1, NextBatchReq
  <1>3. req'[p] = r
    BY <1>2 DEF IInv, ReqOK, Goto
  <1> QED BY <1>2, <1>3, RestSeq

LEMMA FlushReadSeq ==
  ASSUME IInv, SeqInv, NEW p \in Req, Req = {p}, FlushRead(p) PROVE SeqInv'
  <1> DEFINE r == [Idle EXCEPT !.step = "flush", !.todo = {b \in Batch : Mature(b)}]
  <1>1. r.step = "flush" /\ req[p].step = "idle" /\ Goto(p, r)
        /\ UNCHANGED <<orderVars, batchVars, courseVars>>
    BY DEF Idle, FlushRead, At
  <1> HIDE DEF r
  <1> QED BY <1>1, RestSeq, SeqOnly

LEMMA BatchReadSeq ==
  ASSUME IInv, SeqInv, NEW p \in Req, Req = {p}, BatchRead(p) PROVE SeqInv'
  <1> DEFINE lot(b) == Eligible(Batched(b))
             x(b) == [req[p] EXCEPT !.todo = @ \ {b}, !.batch = b, !.lot = lot(b)]
             r(b, s) == [x(b) EXCEPT !.step = s]
  <1>1. /\ ReqInv(req[p]) /\ req[p].step = "flush"
        /\ UNCHANGED <<orderVars, batchVars, courseVars>>
    BY DEF IInv, ReqOK, BatchRead, At
  <1>2. PICK b \in req[p].todo :
          \/ NextBatch(p, x(b).todo)
          \/ Goto(p, r(b, "expire"))
          \/ batch[b] = "PENDING" /\ Goto(p, r(b, "create"))
    BY DEF BatchRead
  <1>3. \A s \in {"expire", "create"} :
           r(b, s).step = s /\ r(b, s).batch = b /\ r(b, s).lot = lot(b)
    BY <1>1 DEF ReqInv, Request
  <1>4. x(b).todo \in SUBSET Batch /\ \A d \in x(b).todo : age[d] # "young"
    BY <1>1 DEF ReqInv, Request
  <1>5. batch[b] = "PENDING" => ReqSeq(r(b, "create"))
    <2> HIDE DEF r
    <2> QED BY <1>3 DEF ReqSeq
  <1>6. ReqSeq(r(b, "expire"))
    <2> HIDE DEF r
    <2> QED BY <1>3, RestSeq
  <1> HIDE DEF x, r
  <1>7. PICK y : Goto(p, y) /\ ReqSeq(y) /\ y.step # "mark"
    <2>1. CASE NextBatch(p, x(b).todo)
      BY <2>1, <1>4, NextBatchReq, RestSeq
    <2> QED BY <2>1, <1>2, <1>3, <1>5, <1>6
  <1> QED BY <1>1, <1>7, SeqOnly

(* A batch that is closed has no READY order without a course, or none     *)
(* that matters any more.                                                  *)
LEMMA EndBatchSeq ==
  ASSUME IInv, SeqInv, NEW p \in Req, Req = {p}, req[p].step \in {"expire", "mark"},
         NEW s \in {"EXPIRED", "FLUSHED"}, batch' = [batch EXCEPT ![req[p].batch] = s],
         NextBatch(p, req[p].todo), UNCHANGED <<orderVars, age, ttl, courseVars>>
  PROVE  SeqInv'
  <1>1. ReqInv(req[p])
    BY DEF IInv, ReqOK
  <1>2. PICK r : r.step \in {"idle", "flush"} /\ req'[p] = r /\ ReqSeq(r)'
    BY <1>1, NextBatchSeq
  <1>3. \A b : ~Marking(b)' /\ (Marking(b) => b = req[p].batch)
    BY <1>2 DEF Marking, At
  <1>4. \A b \in Batch : batch'[b] = "PENDING" => batch[b] = "PENDING" /\ ~Marking(b)
    BY <1>3 DEF IInv, WorldOK
  <1>5. \A b \in Batch : batch[b] # "ABSENT" => batch'[b] # "ABSENT"
    BY DEF IInv, WorldOK
  <1>6. OrderSeq'
    BY <1>3, <1>4, <1>5 DEF SeqInv, OrderSeq, orderVars, courseVars, IInv, WorldOK
  <1>7. BatchSeq'
    BY <1>3, <1>4 DEF SeqInv, BatchSeq, Batched, Together, Far, Located, orderVars
  <1>8. CourseSeq'
    BY DEF SeqInv, CourseSeq, Deliveries, Together, Far, Located, orderVars, courseVars
  <1> QED BY <1>2, <1>6, <1>7, <1>8, SeqParts

LEMMA CreateReadSeq ==
  ASSUME IInv, SeqInv, NEW p \in Req, Req = {p}, CreateRead(p) PROVE SeqInv'
  <1> DEFINE lot == Eligible(req[p].lot)
             r == [req[p] EXCEPT !.step = "insert", !.lot = lot]
  <1>1. /\ ReqInv(req[p]) /\ ReqSeq(req[p]) /\ req[p].step = "create"
        /\ UNCHANGED <<orderVars, batchVars, courseVars>>
    BY DEF IInv, ReqOK, SeqInv, CreateRead, At
  <1>2. r.step = "insert" /\ r.batch = req[p].batch /\ r.lot = lot
    BY <1>1 DEF ReqInv, Request
  <1>3. lot \subseteq req[p].lot
    BY DEF Eligible
  <1>4. Goto(p, r) \/ NextBatch(p, req[p].todo)
    BY DEF CreateRead
  <1> HIDE DEF lot, r
  <1>5. ReqSeq(r)
    BY <1>1, <1>2, <1>3 DEF ReqSeq
  <1>6. PICK y : Goto(p, y) /\ ReqSeq(y) /\ y.step # "mark"
    BY <1>1, <1>2, <1>4, <1>5, NextBatchSeq
  <1> QED BY <1>1, <1>6, SeqOnly

LEMMA CreateInsertSeq ==
  ASSUME IInv, SeqInv, IsFiniteSet(Order), NEW p \in Req, Req = {p}, CreateInsert(p) PROVE SeqInv'
  <1> DEFINE b == req[p].batch
             lot == req[p].lot
  <1>1. ReqInv(req[p]) /\ ReqSeq(req[p]) /\ req[p].step = "insert"
    BY DEF IInv, ReqOK, SeqInv, CreateInsert, At
  <1>2. b \in Batch /\ batch[b] = "PENDING" /\ lot \subseteq Eligible(Batched(b))
    BY <1>1 DEF ReqInv, ReqSeq
  <1>3. \A o \in lot : o \in Order /\ status[o] = "READY" /\ course_id[o] = NONE /\ batch_id[o] = b
    BY <1>2 DEF Eligible, Batched
  <1>4. PICK c \in Course :
          /\ statut[c] = "ABSENT"
          /\ statut' = [statut EXCEPT ![c] = "ADJUSTABLE"]
          /\ course_id' = [o \in Order |-> IF o \in lot THEN c ELSE course_id[o]]
          /\ Goto(p, [req[p] EXCEPT !.step = "mark", !.course = c, !.lot = {}])
    BY <1>3 DEF CreateInsert
  <1>5. UNCHANGED <<status, service, address, batch_id, batchVars, escalated>>
    BY DEF CreateInsert
  <1>6. req'[p].step = "mark" /\ req'[p].batch = b
    BY <1>1, <1>4 DEF ReqInv, Request, IInv, ReqOK, Goto
  <1>7. \A a : ~Marking(a) /\ (Marking(a)' <=> a = b)
    BY <1>1, <1>6 DEF Marking, At
  <1> HIDE DEF b, lot
  <1>8. /\ statut'[c] = "ADJUSTABLE"
        /\ \A d \in Course \ {c} : statut'[d] = statut[d]
        /\ \A o \in Order : course_id'[o] = IF o \in lot THEN c ELSE course_id[o]
    BY <1>4 DEF IInv, WorldOK
  <1>9. OrderSeq'
    BY <1>3, <1>5, <1>7, <1>8, <1>2, NoneIsNoId DEF SeqInv, OrderSeq, IInv, WorldOK, batchVars
  <1>10. BatchSeq'
    BY <1>5, <1>7 DEF SeqInv, BatchSeq, Batched, Together, Far, Located, batchVars
  <1>11. /\ Deliveries(c)' = lot
         /\ \A d \in Course \ {c} : Deliveries(d)' = Deliveries(d)
    <2>1. Deliveries(c) = {}
      BY <1>4, NoneIsNoId DEF SeqInv, OrderSeq, Deliveries
    <2> QED BY <2>1, <1>3, <1>8, NoneIsNoId DEF Deliveries
  <1>12. Together(lot) /\ Cardinality(lot) <= MaxOrders
    <2>1. /\ Cardinality(Batched(b)) <= MaxOrders
          /\ Together({o \in Batched(b) : status[o] = "READY"})
      BY <1>2, <1>7 DEF SeqInv, BatchSeq
    <2>2. lot \in SUBSET Batched(b) /\ Together(lot)
      BY <2>1, <1>2 DEF Eligible, Together
    <2>3. IsFiniteSet(Batched(b))
      BY FS_Subset DEF Batched
    <2>4. Cardinality(lot) <= Cardinality(Batched(b)) /\ IsFiniteSet(lot)
      BY <2>2, <2>3, FS_Subset
    <2>5. Cardinality(lot) \in Nat /\ Cardinality(Batched(b)) \in Nat /\ MaxOrders \in Nat
      BY <2>3, <2>4, FS_CardinalityType, BoundAssumption
    <2> QED BY <2>1, <2>2, <2>4, <2>5
  <1>13. CourseSeq'
    <2>1. ASSUME NEW d \in Course \ {c}
          PROVE  /\ statut'[d] = "ABSENT" => ~escalated'[d]
                 /\ statut'[d] = "ADJUSTABLE" => /\ Together(Deliveries(d))'
                                                /\ Cardinality(Deliveries(d))' <= MaxOrders
      BY <1>5, <1>8, <1>11 DEF SeqInv, CourseSeq, Together, Far, Located
    <2>2. Together(Deliveries(c))' /\ Cardinality(Deliveries(c))' <= MaxOrders
      BY <1>5, <1>11, <1>12 DEF Together, Far, Located
    <2> QED BY <2>1, <2>2, <1>8 DEF CourseSeq
  <1>14. PICK r : req'[p] = r /\ r.step = "mark"
    BY <1>6
  <1> QED BY <1>9, <1>10, <1>13, <1>14, RestSeq, SeqParts

(* The next pair of the rebalancing, from memory that is exact.            *)
LEMMA NextPairSeq ==
  ASSUME IInv, NEW p \in Req, NEW C \in SUBSET Course, NEW held \in [C -> SUBSET Order],
         "rebalance" \in Ops, NEW t, NextPair(p, held, t), HeldSeq(held)',
         UNCHANGED <<service, address>>
  PROVE  \E r : Goto(p, r) /\ r.step # "mark" /\ req'[p] = r /\ ReqSeq(r)'
  <1>1. PICK r : /\ ReqInv(r) /\ Goto(p, r) /\ r.step \in {"idle", "transfer"}
                 /\ r.step = "transfer" =>
                      /\ r.held = held /\ r.target # r.course
                      /\ Cardinality(held[r.target]) < MaxOrders
                      /\ r.lot = Transferable(held, r.target, r.course)
    BY NextPairReq
  <1>2. req'[p] = r
    BY <1>1 DEF IInv, ReqOK, Goto
  <1>3. CASE r.step = "idle"
    BY <1>1, <1>2, <1>3, RestSeq
  <1>4. CASE r.step = "transfer"
    <2>1. \A o \in r.lot : o \in held[r.course] /\ CanTransfer(held[r.target], o)
      BY <1>1, <1>4 DEF Transferable
    <2>2. ReqSeq(r)'
      BY <1>1, <1>4, <2>1 DEF ReqSeq, CanTransfer, Far, Located
    <2> QED BY <1>1, <1>2, <1>4, <2>2
  <1> QED BY <1>1, <1>3, <1>4

LEMMA RebalanceReadSeq ==
  ASSUME IInv, SeqInv, NEW p \in Req, Req = {p}, RebalanceRead(p) PROVE SeqInv'
  <1>1. PICK C : C = {c \in Course : statut[c] = "ADJUSTABLE" /\ ~escalated[c]}
    OBVIOUS
  <1>2. PICK held : held = [c \in C |-> Deliveries(c)]
    OBVIOUS
  <1>3. C \in SUBSET Course /\ held \in [C -> SUBSET Order]
    BY <1>1, <1>2 DEF Deliveries
  <1>4. /\ "rebalance" \in Ops /\ NextPair(p, held, <<0, 0>>) /\ req[p].step = "idle"
        /\ UNCHANGED <<orderVars, batchVars, courseVars>>
    BY <1>1, <1>2 DEF RebalanceRead, At
  <1>5. HeldSeq(held)
    BY <1>1, <1>2 DEF HeldSeq, SeqInv, CourseSeq
  <1>6. HeldSeq(held)'
    BY <1>4, <1>5 DEF HeldSeq, Deliveries, Together, Far, Located, orderVars, courseVars
  <1>7. PICK r : Goto(p, r) /\ r.step # "mark" /\ req'[p] = r /\ ReqSeq(r)'
    BY <1>3, <1>4, <1>6, NextPairSeq DEF orderVars
  <1>8. ReqSeq(r)
    BY <1>4, <1>7 DEF ReqSeq, HeldSeq, IsCompatible, Eligible, Batched, Deliveries, CanTransfer,
                      Together, Far, Located, orderVars, batchVars, courseVars
  <1> QED BY <1>4, <1>7, <1>8, SeqOnly

LEMMA TransferSeq ==
  ASSUME IInv, SeqInv, IsFiniteSet(Order), NEW p \in Req, Req = {p}, Transfer(p) PROVE SeqInv'
  <1>1. /\ ReqInv(req[p]) /\ ReqSeq(req[p]) /\ req[p].step = "transfer" /\ req[p] \in Request
        /\ UNCHANGED <<status, service, address, batch_id, batchVars, courseVars>>
    BY DEF IInv, ReqOK, SeqInv, Transfer, At
  <1>2. PICK x : x = req[p]
    OBVIOUS
  <1>3. PICK C \in SUBSET Course : x.held \in [C -> SUBSET Order]
    BY <1>1, <1>2 DEF Request
  <1>4. PICK o \in x.lot :
          LET moved == [x.held EXCEPT ![x.target] = @ \cup {o}, ![x.course] = @ \ {o}]
          IN  /\ course_id' = [course_id EXCEPT ![o] = x.target]
              /\ IF x.lot \ {o} # {} /\ Cardinality(moved[x.target]) < MaxOrders
                 THEN Goto(p, [x EXCEPT !.held = moved, !.lot = x.lot \ {o}])
                 ELSE IF moved[x.course] = {}
                 THEN Goto(p, [x EXCEPT !.step = "merge", !.held = moved, !.lot = {}])
                 ELSE NextPair(p, moved, <<x.target, x.course>>)
    BY <1>2 DEF Transfer
  <1>5. PICK moved : moved = [x.held EXCEPT ![x.target] = @ \cup {o}, ![x.course] = @ \ {o}]
    OBVIOUS
  <1>6. /\ x.target \in C /\ x.course \in C /\ x.target # x.course /\ HeldSeq(x.held)
        /\ x.lot \in SUBSET Order /\ "rebalance" \in Ops
        /\ Cardinality(x.held[x.target]) < MaxOrders
        /\ \A q \in x.lot : q \in x.held[x.course] /\ CanTransfer(x.held[x.target], q)
    BY <1>1, <1>2, <1>3 DEF ReqInv, ReqSeq, Request
  <1>7. /\ moved \in [C -> SUBSET Order]
        /\ \A c \in Course \ {x.target, x.course} : Deliveries(c)' = Deliveries(c)
        /\ HeldSeq(moved)'
    <2>1. o \in x.held[x.course] /\ CanTransfer(x.held[x.target], o)
      BY <1>6
    <2>2. course_id' = [course_id EXCEPT ![o] = x.target] /\ UNCHANGED <<service, address, courseVars>>
      BY <1>1, <1>4
    <2>3. /\ moved \in [C -> SUBSET Order]
          /\ moved[x.target] = x.held[x.target] \cup {o}
          /\ moved[x.course] = x.held[x.course] \ {o}
          /\ \A k \in C \ {x.target, x.course} : moved[k] = x.held[k]
      BY <1>3, <1>5, <1>6, <2>1
    <2>4. service' = service /\ address' = address /\ statut' = statut /\ escalated' = escalated
      BY <2>2 DEF courseVars
    <2>5. PICK held, i, j : held = x.held /\ i = x.target /\ j = x.course
      OBVIOUS
    <2>6. /\ held \in [C -> SUBSET Order] /\ i \in C /\ j \in C /\ i # j /\ o \in held[j]
          /\ CanTransfer(held[i], o) /\ HeldSeq(held) /\ Cardinality(held[i]) < MaxOrders
          /\ course_id' = [course_id EXCEPT ![o] = i]
      BY <2>1, <2>2, <2>5, <1>3, <1>6
    <2>7. /\ moved[i] = held[i] \cup {o} /\ moved[j] = held[j] \ {o}
          /\ \A k \in C \ {i, j} : moved[k] = held[k]
      BY <2>3, <2>5
    <2>8. /\ o \in Order /\ course_id[o] = j /\ held[i] = Deliveries(i) /\ held[j] = Deliveries(j)
          /\ Together(held[i]) /\ Together(held[j])
      BY <2>6 DEF HeldSeq, Deliveries
    <2>9. course_id'[o] = i /\ \A q \in Order \ {o} : course_id'[q] = course_id[q]
      BY <2>6, <2>8 DEF IInv, WorldOK
    <2>10. /\ Deliveries(i)' = Deliveries(i) \cup {o}
          /\ Deliveries(j)' = Deliveries(j) \ {o}
          /\ \A c \in Course \ {i, j} : Deliveries(c)' = Deliveries(c)
      BY <2>6, <2>8, <2>9 DEF Deliveries
    <2>11. \A S : Together(S)' = Together(S)
      BY <2>4 DEF Together, Far, Located
    <2>12. Together(held[i] \cup {o}) /\ Together(held[j] \ {o})
      <3>1. \A q \in held[i] : service[q] = service[o] /\ ~Far(o, q)
        BY <2>6 DEF CanTransfer
      <3>2. held[i] \subseteq Order
        BY <2>6
      <3>3. ~Far(o, o) /\ \A q \in held[i] : Far(o, q) <=> Far(q, o)
        BY <2>8, <3>2, FarTypes DEF IInv
      <3> QED BY <2>8, <3>1, <3>3 DEF Together
    <2>13. \A k \in C : Cardinality(held[k]) \in Nat /\ IsFiniteSet(held[k]) /\ Cardinality(held[k]) <= MaxOrders
      BY <2>6, FS_Subset, FS_CardinalityType DEF HeldSeq
    <2>14. Cardinality(held[i] \cup {o}) <= MaxOrders /\ Cardinality(held[j] \ {o}) <= MaxOrders
      <3>1. Cardinality(held[i] \cup {o}) = IF o \in held[i] THEN Cardinality(held[i])
                                            ELSE Cardinality(held[i]) + 1
        BY <2>6, <2>13, FS_AddElement, Zenon
      <3>2. Cardinality(held[j] \ {o}) = IF o \in held[j] THEN Cardinality(held[j]) - 1
                                         ELSE Cardinality(held[j])
        BY <2>6, <2>13, FS_RemoveElement, Zenon
      <3>3. MaxOrders \in Nat
        BY BoundAssumption
      <3> QED BY <3>1, <3>2, <3>3, <2>6, <2>13
    <2>15. HeldSeq(moved)'
      <3>1. ASSUME NEW k \in C
            PROVE  /\ statut'[k] \in {"ADJUSTABLE", "CANCELLED"} /\ ~escalated'[k]
                   /\ moved[k] = Deliveries(k)'
                   /\ Together(moved[k])
                   /\ Cardinality(moved[k]) <= MaxOrders
        <4>1. statut[k] \in {"ADJUSTABLE", "CANCELLED"} /\ ~escalated[k]
          BY <2>6 DEF HeldSeq
        <4>2. CASE k = i
          BY <4>1, <4>2, <2>4, <2>6, <2>7, <2>8, <2>10, <2>12, <2>14
        <4>3. CASE k = j
          BY <4>1, <4>3, <2>4, <2>6, <2>7, <2>8, <2>10, <2>12, <2>14
        <4>4. CASE k \notin {i, j}
          BY <4>1, <4>4, <2>4, <2>6, <2>7, <2>10 DEF HeldSeq
        <4> QED BY <4>2, <4>3, <4>4
      <3>2. DOMAIN moved = C
        BY <2>3
      <3> QED BY <3>1, <3>2, <2>11 DEF HeldSeq
    <2> QED BY <2>3, <2>5, <2>10, <2>15
  <1>8. PICK r : req'[p] = r /\ r.step # "mark" /\ ReqSeq(r)'
    <2>1. CASE Goto(p, [x EXCEPT !.held = moved, !.lot = x.lot \ {o}])
               /\ Cardinality(moved[x.target]) < MaxOrders
      <3>1. PICK r : r = [x EXCEPT !.held = moved, !.lot = x.lot \ {o}]
        OBVIOUS
      <3>2. /\ r.step = "transfer" /\ r.held = moved /\ r.lot = x.lot \ {o}
            /\ r.target = x.target /\ r.course = x.course /\ req'[p] = r
        BY <1>1, <1>2, <2>1, <3>1 DEF Request, IInv, ReqOK, Goto
      <3>3. ASSUME NEW q \in r.lot PROVE q \in moved[r.course] /\ CanTransfer(moved[r.target], q)
        <4>1. q \in x.lot /\ q # o /\ q \in x.held[x.course] /\ o \in x.held[x.course]
          BY <1>6, <3>2
        <4>2. service[o] = service[q] /\ ~Far(q, o)
          <5>1. Together(x.held[x.course])
            BY <1>3, <1>6 DEF HeldSeq
          <5> QED BY <4>1, <5>1 DEF Together
        <4>3. CanTransfer(x.held[x.target], q)
          BY <1>6, <4>1
        <4>4. moved[x.course] = x.held[x.course] \ {o} /\ moved[x.target] = x.held[x.target] \cup {o}
          BY <1>3, <1>5, <1>6
        <4> QED BY <3>2, <4>1, <4>2, <4>3, <4>4 DEF CanTransfer
      <3>4. ReqSeq(r)'
        BY <1>1, <1>6, <1>7, <2>1, <3>2, <3>3 DEF ReqSeq, CanTransfer, Far, Located
      <3> QED BY <3>2, <3>4
    <2>2. CASE Goto(p, [x EXCEPT !.step = "merge", !.held = moved, !.lot = {}])
               /\ moved[x.course] = {}
      <3>1. PICK r : r = [x EXCEPT !.step = "merge", !.held = moved, !.lot = {}]
        OBVIOUS
      <3>2. r.step = "merge" /\ r.held = moved /\ r.course = x.course /\ req'[p] = r
        BY <1>1, <1>2, <2>2, <3>1 DEF Request, IInv, ReqOK, Goto
      <3>3. ReqSeq(r)'
        BY <1>7, <2>2, <3>2 DEF ReqSeq
      <3> QED BY <3>2, <3>3
    <2>3. CASE NextPair(p, moved, <<x.target, x.course>>)
      BY <1>1, <1>6, <1>7, <2>3, NextPairSeq
    <2> QED BY <1>4, <1>5, <2>1, <2>2, <2>3
  <1>9. \A b : ~Marking(b) /\ ~Marking(b)'
    BY <1>1, <1>8 DEF Marking, At
  <1>10. /\ o \in Order /\ course_id[o] = x.course /\ x.course # NONE
         /\ course_id'[o] = x.target /\ statut[x.target] # "ABSENT"
         /\ \A q \in Order \ {o} : course_id'[q] = course_id[q]
    BY <1>3, <1>4, <1>6, NoneIsNoId DEF HeldSeq, Deliveries, IInv, WorldOK
  <1>11. OrderSeq'
    BY <1>1, <1>6, <1>9, <1>10, NoneIsNoId DEF SeqInv, OrderSeq, batchVars, courseVars
  <1>12. BatchSeq'
    BY <1>1, <1>9 DEF SeqInv, BatchSeq, Batched, Together, Far, Located, batchVars
  <1>13. CourseSeq'
    <2>1. \A S : Together(S)' = Together(S)
      BY <1>1 DEF Together, Far, Located
    <2>2. ASSUME NEW c \in Course, statut'[c] = "ADJUSTABLE"
          PROVE  Together(Deliveries(c))' /\ Cardinality(Deliveries(c))' <= MaxOrders
      <3>1. CASE c \in {x.target, x.course}
        BY <1>6, <1>7, <3>1 DEF HeldSeq
      <3>2. CASE c \notin {x.target, x.course}
        BY <1>1, <1>7, <2>1, <2>2, <3>2 DEF SeqInv, CourseSeq, courseVars
      <3> QED BY <3>1, <3>2
    <2> QED BY <1>1, <2>2 DEF SeqInv, CourseSeq, courseVars
  <1> QED BY <1>8, <1>11, <1>12, <1>13, SeqParts

LEMMA MergeSeq ==
  ASSUME IInv, SeqInv, NEW p \in Req, Req = {p}, Merge(p) PROVE SeqInv'
  <1>1. /\ ReqInv(req[p]) /\ ReqSeq(req[p]) /\ req[p].step = "merge" /\ req[p] \in Request
        /\ UNCHANGED <<orderVars, batchVars, escalated>>
    BY DEF IInv, ReqOK, SeqInv, Merge, At
  <1>2. PICK x : x = req[p]
    OBVIOUS
  <1>3. PICK C \in SUBSET Course : x.held \in [C -> SUBSET Order]
    BY <1>1, <1>2 DEF Request
  <1>4. x.course \in C /\ HeldSeq(x.held) /\ "rebalance" \in Ops
    BY <1>1, <1>2, <1>3 DEF ReqInv, ReqSeq
  <1>5. /\ statut'[x.course] = "CANCELLED" /\ statut[x.course] # "ABSENT"
        /\ \A c \in Course \ {x.course} : statut'[c] = statut[c]
    BY <1>2, <1>3, <1>4 DEF Merge, IInv, WorldOK, HeldSeq
  <1>6. HeldSeq(x.held)'
    BY <1>1, <1>3, <1>4, <1>5 DEF HeldSeq, Deliveries, Together, Far, Located, orderVars
  <1>7. NextPair(p, x.held, <<x.target, x.course>>)
    BY <1>2 DEF Merge
  <1>8. PICK r : r.step # "mark" /\ req'[p] = r /\ ReqSeq(r)'
    BY <1>1, <1>3, <1>4, <1>6, <1>7, NextPairSeq DEF orderVars
  <1>9. \A b : ~Marking(b) /\ ~Marking(b)'
    BY <1>1, <1>8 DEF Marking, At
  <1>10. OrderSeq'
    BY <1>1, <1>5, <1>9, NoneIsNoId DEF SeqInv, OrderSeq, orderVars, batchVars, IInv, WorldOK
  <1>11. BatchSeq'
    <2>1. \A b : Batched(b)' = Batched(b)
      BY <1>1 DEF Batched, orderVars
    <2>2. \A S : Together(S)' <=> Together(S)
      BY <1>1 DEF Together, Far, Located, orderVars
    <2>3. UNCHANGED <<status, batch>>
      BY <1>1 DEF orderVars, batchVars
    <2> QED BY <1>9, <2>1, <2>2, <2>3 DEF SeqInv, BatchSeq
  <1>12. CourseSeq'
    BY <1>1, <1>5 DEF SeqInv, CourseSeq, Deliveries, Together, Far, Located, orderVars
  <1> QED BY <1>8, <1>10, <1>11, <1>12, SeqParts

(* While no request is in flight, the world may change around it.          *)
LEMMA IdleSeq ==
  ASSUME IInv, NEW p \in Req, Req = {p}, req[p].step = "idle", UNCHANGED req
  PROVE  (\A b : ~Marking(b) /\ ~Marking(b)') /\ ReqSeq(req[p])'
  <1>1. \A b : ~Marking(b) /\ ~Marking(b)'
    BY DEF Marking, At
  <1>2. PICK r : r = req[p]
    OBVIOUS
  <1> QED BY <1>1, <1>2, RestSeq

LEMMA CancelOrderSeq ==
  ASSUME IInv, SeqInv, NEW p \in Req, Req = {p}, NEW o \in Order, CancelOrder(p, o) PROVE SeqInv'
  <1>1. /\ req[p].step = "idle" /\ status[o] # "CANCELLED"
        /\ UNCHANGED <<service, address, batch_id, course_id, batchVars, courseVars, req>>
    BY DEF CancelOrder, At
  <1>2. (\A b : ~Marking(b) /\ ~Marking(b)') /\ ReqSeq(req[p])'
    BY <1>1, IdleSeq
  <1>3. status'[o] = "CANCELLED" /\ \A q \in Order \ {o} : status'[q] = status[q]
    BY DEF CancelOrder, IInv, WorldOK
  <1>4. OrderSeq'
    BY <1>1, <1>2, <1>3 DEF SeqInv, OrderSeq, batchVars, courseVars
  <1>5. \A b \in Batch : {q \in Batched(b) : status[q] = "READY"}'
                            \subseteq {q \in Batched(b) : status[q] = "READY"}
    BY <1>1, <1>3 DEF Batched
  <1>6. BatchSeq'
    BY <1>1, <1>2, <1>5 DEF SeqInv, BatchSeq, Batched, Together, Far, Located, batchVars
  <1>7. CourseSeq'
    BY <1>1 DEF SeqInv, CourseSeq, Deliveries, Together, Far, Located, courseVars
  <1> QED BY <1>2, <1>4, <1>6, <1>7 DEF SeqInv

LEMMA PickUpSeq ==
  ASSUME IInv, SeqInv, NEW p \in Req, Req = {p}, NEW c \in Course, PickUp(p, c) PROVE SeqInv'
  <1>1. /\ req[p].step = "idle"
        /\ UNCHANGED <<service, address, batch_id, course_id, batchVars, escalated, req>>
    BY DEF PickUp, At
  <1>2. (\A b : ~Marking(b) /\ ~Marking(b)') /\ ReqSeq(req[p])'
    BY <1>1, IdleSeq
  <1>3. /\ \A q \in Order : status'[q] \in {status[q], "PICKED_UP"}
        /\ statut'[c] = "IN_DELIVERY" /\ statut[c] # "ABSENT"
        /\ \A d \in Course \ {c} : statut'[d] = statut[d]
    BY DEF PickUp, IInv, WorldOK
  <1>4. OrderSeq'
    BY <1>1, <1>2, <1>3, NoneIsNoId DEF SeqInv, OrderSeq, batchVars, IInv, WorldOK
  <1>5. \A b \in Batch : {q \in Batched(b) : status[q] = "READY"}'
                            \subseteq {q \in Batched(b) : status[q] = "READY"}
    BY <1>1, <1>3 DEF Batched
  <1>6. BatchSeq'
    BY <1>1, <1>2, <1>5 DEF SeqInv, BatchSeq, Batched, Together, Far, Located, batchVars
  <1>7. CourseSeq'
    BY <1>1, <1>3 DEF SeqInv, CourseSeq, Deliveries, Together, Far, Located
  <1> QED BY <1>2, <1>4, <1>6, <1>7 DEF SeqInv

(* A course changes fleet as a whole, and the orders of an open batch are  *)
(* on no course.                                                           *)
LEMMA ChangeFleetSeq ==
  ASSUME IInv, SeqInv, NEW p \in Req, Req = {p}, NEW c \in Course, req[p].step = "idle",
         statut[c] = "ADJUSTABLE", NEW e \in BOOLEAN, escalated' = [escalated EXCEPT ![c] = e],
         NEW s, service' = [o \in Order |-> IF course_id[o] = c THEN s ELSE service[o]],
         UNCHANGED <<status, address, batch_id, course_id, batchVars, statut, req>>
  PROVE  SeqInv'
  <1>1. (\A b : ~Marking(b) /\ ~Marking(b)') /\ ReqSeq(req[p])'
    BY IdleSeq
  <1>2. OrderSeq'
    BY <1>1 DEF SeqInv, OrderSeq, batchVars
  <1>3. ASSUME NEW b \in Batch, batch[b] = "PENDING"
        PROVE  \A o \in Batched(b) : o \in Order /\ service'[o] = service[o]
    BY <1>1, <1>3, NoneIsNoId DEF SeqInv, OrderSeq, Batched
  <1>4. BatchSeq'
    BY <1>1, <1>3 DEF SeqInv, BatchSeq, Batched, Together, Far, Located, batchVars
  <1>5. \A d \in Course : statut[d] = "ABSENT" => escalated'[d] = escalated[d]
    BY DEF IInv, WorldOK
  <1>6. ASSUME NEW d \in Course
        PROVE  Together(Deliveries(d)) => Together(Deliveries(d))'
    <2>1. CASE d = c
      BY <2>1 DEF Together, Deliveries, Far, Located
    <2>2. CASE d # c
      BY <2>2 DEF Together, Deliveries, Far, Located
    <2> QED BY <2>1, <2>2
  <1>7. CourseSeq'
    BY <1>5, <1>6 DEF SeqInv, CourseSeq, Deliveries
  <1> QED BY <1>1, <1>2, <1>4, <1>7 DEF SeqInv

LEMMA SameCourses ==
  ASSUME SeqInv, UNCHANGED <<service, address, course_id, statut, escalated>>
  PROVE  CourseSeq'
  <1>1. ASSUME NEW S \in SUBSET Order, Together(S) PROVE Together(S)'
    BY <1>1 DEF Together, Far, Located
  <1>2. ASSUME NEW c \in Course PROVE Deliveries(c)' = Deliveries(c) /\ Deliveries(c) \subseteq Order
    BY DEF Deliveries
  <1>3. ASSUME NEW c \in Course, statut[c] = "ADJUSTABLE"
        PROVE  Together(Deliveries(c)') /\ Together(Deliveries(c))'
    BY <1>1, <1>2, <1>3 DEF SeqInv, CourseSeq
  <1> QED BY <1>2, <1>3 DEF SeqInv, CourseSeq

LEMMA TickSeq ==
  ASSUME IInv, SeqInv, NEW b \in Batch, Tick(b) PROVE SeqInv'
  <1>1. UNCHANGED <<orderVars, batch, courseVars, req>>
    BY DEF Tick
  <1>2. OrderSeq'
    BY <1>1 DEF SeqInv, OrderSeq, Marking, At, orderVars, courseVars
  <1>3. BatchSeq'
    BY <1>1 DEF SeqInv, BatchSeq, Batched, Together, Far, Located, Marking, At, orderVars
  <1>4. CourseSeq'
    BY <1>1, SameCourses DEF orderVars, courseVars
  <1>5. ASSUME NEW p \in Req PROVE ReqSeq(req[p])'
    BY <1>1 DEF SeqInv, ReqSeq, HeldSeq, IsCompatible, Eligible, Batched, Deliveries, CanTransfer,
                Together, Far, Located, orderVars, courseVars
  <1> QED BY <1>2, <1>3, <1>4, <1>5 DEF SeqInv

LEMMA StutterSeq ==
  ASSUME SeqInv, UNCHANGED vars PROVE SeqInv'
  <1>1. OrderSeq'
    BY DEF SeqInv, OrderSeq, Marking, At, vars
  <1>2. BatchSeq'
    BY DEF SeqInv, BatchSeq, Batched, Together, Far, Located, Marking, At, vars
  <1>3. CourseSeq'
    BY SameCourses DEF vars
  <1>4. ASSUME NEW p \in Req PROVE ReqSeq(req[p])'
    BY DEF SeqInv, ReqSeq, HeldSeq, IsCompatible, Eligible, Batched, Deliveries, CanTransfer,
           Together, Far, Located, vars
  <1> QED BY <1>1, <1>2, <1>3, <1>4 DEF SeqInv

LEMMA NextSeq ==
  ASSUME Alone, IsFiniteSet(Order), IInv, SeqInv, [Next]_vars PROVE SeqInv'
  <1>1. PICK a \in Req : Req = {a}
    BY DEF Alone
  <1>2. ASSUME NEW p \in Req PROVE Req = {p}
    BY <1>1
  <1>3. ASSUME NEW p \in Req, Handle(p) PROVE SeqInv'
    BY <1>2, <1>3, GroupReadSeq, CandidateSeq, AttachSeq, NewBatchSeq DEF Handle
  <1>4. ASSUME NEW p \in Req, Flush(p) PROVE SeqInv'
    <2>1. CASE BatchExpire(p) \/ BatchFlushed(p)
      BY <1>2, <2>1, EndBatchSeq DEF BatchExpire, BatchFlushed, At
    <2> QED BY <1>2, <1>4, <2>1, BatchReadSeq, CreateReadSeq, CreateInsertSeq DEF Flush
  <1>5. ASSUME NEW p \in Req, Rebalance(p) PROVE SeqInv'
    BY <1>2, <1>5, TransferSeq, MergeSeq DEF Rebalance
  <1>6. ASSUME NEW p \in Req, FlushRead(p) \/ RebalanceRead(p) \/ Crash(p) PROVE SeqInv'
    BY <1>2, <1>6, FlushReadSeq, RebalanceReadSeq DEF Crash, Alone
  <1>7. ASSUME NEW p \in Req, NEW o \in Order, MarkReady(p, o) \/ CancelOrder(p, o) PROVE SeqInv'
    BY <1>2, <1>7, MarkReadySeq, CancelOrderSeq
  <1>8. ASSUME NEW p \in Req, NEW c \in Course,
               PickUp(p, c) \/ Subcontract(p, c) \/ TakeBack(p, c)
        PROVE  SeqInv'
    <2>1. CASE PickUp(p, c)
      BY <1>2, <2>1, PickUpSeq
    <2>2. CASE Subcontract(p, c)
      BY <1>2, <2>2, ChangeFleetSeq DEF Subcontract, At
    <2>3. CASE TakeBack(p, c)
      BY <1>2, <2>3, ChangeFleetSeq DEF TakeBack, At
    <2> QED BY <1>8, <2>1, <2>2, <2>3
  <1>9. ASSUME NEW b \in Batch, Tick(b) PROVE SeqInv'
    BY <1>9, TickSeq
  <1> QED BY <1>3, <1>4, <1>5, <1>6, <1>7, <1>8, <1>9, StutterSeq DEF Next

-----------------------------------------------------------------------------
(* What holds when requests do not overlap                                 *)

(* Between two statements of the only request in flight, what it has read  *)
(* is still what the tables hold.                                          *)
THEOREM Sequential ==
  ASSUME Alone, IsFiniteSet(Order)
  PROVE  Spec => [](IInv /\ SeqInv)
  <1>1. Init => IInv /\ SeqInv
    BY InitIInv, InitSeq
  <1>2. IInv /\ SeqInv /\ [Next]_vars => (IInv /\ SeqInv)'
    BY NextIInv, NextSeq
  <1> QED BY <1>1, <1>2, PTL DEF Spec

(* A course never mixes the two fleets, whatever grouping, transfers,      *)
(* subcontracting and take-backs follow one another (isCompatible,         *)
(* canTransferDelivery).                                                   *)
THEOREM OneFleet ==
  ASSUME Alone, IsFiniteSet(Order)
  PROVE  Spec => []FleetsUnmixed
  <1>1. SeqInv => FleetsUnmixed
    BY DEF SeqInv, CourseSeq, FleetsUnmixed, Together
  <1> QED BY <1>1, Sequential, PTL

(* A course keeps to max_orders_per_course and max_detour_meters, for any  *)
(* value of either and any number of orders (isCompatible,                 *)
(* canTransferDelivery).                                                   *)
THEOREM Limits ==
  ASSUME Alone, IsFiniteSet(Order)
  PROVE  Spec => []WithinLimits
  <1>1. SeqInv => WithinLimits
    BY DEF SeqInv, CourseSeq, WithinLimits, Together
  <1> QED BY <1>1, Sequential, PTL

(* The orders of a course that is with Turbo stay the same: the            *)
(* rebalancing works on the courses it has read, none of which has left in *)
(* between, and a new course is not subcontracted (rebalanceActiveCourses, *)
(* createFromReadyOrders).                                                 *)
THEOREM TurboUntouched ==
  ASSUME Alone, IsFiniteSet(Order)
  PROVE  Spec => SubcontractedUntouched
  <1> DEFINE Untouched == \A c \in Course : escalated[c] => Deliveries(c)' = Deliveries(c)
  <1>1. ASSUME IInv, SeqInv, [Next]_vars PROVE Untouched
    <2>1. ASSUME NEW p \in Req, CreateInsert(p) PROVE Untouched
      <3>1. CASE UNCHANGED course_id
        BY <3>1 DEF Deliveries
      <3>2. CASE ~UNCHANGED course_id
        <4>1. PICK c \in Course :
                /\ statut[c] = "ABSENT"
                /\ course_id' = [o \in Order |-> IF o \in req[p].lot THEN c ELSE course_id[o]]
          BY <2>1, <3>2 DEF CreateInsert
        <4>2. \A o \in req[p].lot : course_id[o] = NONE
          BY <2>1, <3>2 DEF CreateInsert
        <4>3. ~escalated[c]
          BY <1>1, <4>1 DEF SeqInv, CourseSeq
        <4> QED BY <4>1, <4>2, <4>3, NoneIsNoId DEF Deliveries
      <3> QED BY <3>1, <3>2
    <2>2. ASSUME NEW p \in Req, Transfer(p) PROVE Untouched
      <3>1. ReqInv(req[p]) /\ ReqSeq(req[p]) /\ req[p].step = "transfer"
        BY <1>1, <2>2 DEF IInv, ReqOK, SeqInv, Transfer, At
      <3>2. /\ \A k \in {req[p].target, req[p].course} : ~escalated[k]
            /\ \A o \in req[p].lot : o \in Order /\ course_id[o] = req[p].course
        BY <3>1 DEF ReqInv, ReqSeq, HeldSeq, Deliveries
      <3>3. PICK o \in req[p].lot : course_id' = [course_id EXCEPT ![o] = req[p].target]
        BY <2>2 DEF Transfer
      <3>4. /\ course_id'[o] = req[p].target
            /\ \A q \in Order \ {o} : course_id'[q] = course_id[q]
        BY <1>1, <3>2, <3>3 DEF IInv, WorldOK
      <3> QED BY <3>2, <3>4 DEF Deliveries
    <2>3. ASSUME UNCHANGED course_id PROVE Untouched
      BY <2>3 DEF Deliveries
    <2> QED BY <1>1, <2>1, <2>2, <2>3
         DEF Next, vars, orderVars, Handle, Flush, Rebalance, GroupRead, Candidate, Attach, NewBatch,
             BatchRead, BatchExpire, BatchFlushed, CreateRead, Merge, FlushRead, RebalanceRead, Crash,
             MarkReady, CancelOrder, PickUp, Subcontract, TakeBack, Tick
  <1> QED BY <1>1, Sequential, PTL DEF Spec, SubcontractedUntouched

-----------------------------------------------------------------------------
(* No empty course                                                         *)

Carries(c) == statut[c] = "ADJUSTABLE" => Deliveries(c) # {}

(* Whoever is not the rebalancing takes no order off a course.             *)
LEMMA CarriesKept ==
  ASSUME IInv, [Next]_vars, \A p \in Req : ~Rebalance(p), NEW d \in Course, Carries(d)
  PROVE  Carries(d)'
  <1>1. ASSUME NEW p \in Req, CreateInsert(p) PROVE Carries(d)'
    <2>1. CASE UNCHANGED <<course_id, statut>>
      BY <2>1 DEF Carries, Deliveries
    <2>2. CASE ~UNCHANGED <<course_id, statut>>
      <3>1. PICK c \in Course :
              /\ statut' = [statut EXCEPT ![c] = "ADJUSTABLE"]
              /\ course_id' = [o \in Order |-> IF o \in req[p].lot THEN c ELSE course_id[o]]
        BY <1>1, <2>2 DEF CreateInsert
      <3>2. \A o \in req[p].lot : course_id[o] = NONE
        BY <1>1, <2>2 DEF CreateInsert
      <3>3. req[p].lot # {} /\ req[p].lot \subseteq Order
        BY <1>1 DEF IInv, ReqOK, ReqInv, Request, CreateInsert, At
      <3>4. CASE d = c
        BY <3>1, <3>3, <3>4 DEF Carries, Deliveries
      <3>5. CASE d # c
        BY <3>1, <3>2, <3>5, NoneIsNoId DEF Carries, Deliveries, IInv, WorldOK
      <3> QED BY <3>4, <3>5
    <2> QED BY <2>1, <2>2
  <1>2. ASSUME NEW p \in Req, NEW c \in Course, PickUp(p, c) PROVE Carries(d)'
    BY <1>2 DEF Carries, Deliveries, PickUp, IInv, WorldOK
  <1>3. ASSUME UNCHANGED <<course_id, statut>> PROVE Carries(d)'
    BY <1>3 DEF Carries, Deliveries
  <1> QED BY <1>1, <1>2, <1>3
       DEF Next, vars, orderVars, courseVars, Handle, Flush, GroupRead, Candidate, Attach, NewBatch,
           BatchRead, BatchExpire, BatchFlushed, CreateRead, FlushRead, RebalanceRead, Crash,
           MarkReady, CancelOrder, Subcontract, TakeBack, Tick

(* Requests that overlap at will, of backends that may stop, never leave a *)
(* course without an order as long as the rebalancing is off               *)
(* (createFromReadyOrders: the unique index on Delivery.order_id).         *)
THEOREM NoEmptyConcurrent ==
  ASSUME "rebalance" \notin Ops
  PROVE  Spec => []NoEmptyCourse
  <1> DEFINE Carry == \A c \in Course : Carries(c)
  <1>1. Init => Carry
    BY DEF Init, Carries
  <1>2. IInv /\ Carry /\ [Next]_vars => Carry'
    <2> SUFFICES ASSUME IInv, Carry, [Next]_vars, NEW c \in Course PROVE Carries(c)'
      OBVIOUS
    <2>1. ASSUME NEW p \in Req PROVE ~Rebalance(p)
      BY DEF IInv, ReqOK, ReqInv, Rebalance, Transfer, Merge, At
    <2> QED BY <2>1, CarriesKept
  <1>3. Carry => NoEmptyCourse
    BY DEF Carries, NoEmptyCourse
  <1> QED BY <1>1, <1>2, <1>3, Inductive, PTL DEF Spec

(* With the rebalancing on, and requests that do not overlap, the only     *)
(* empty course is the one about to be merged (rebalanceActiveCourses).    *)
THEOREM NoEmptySequential ==
  ASSUME Alone, IsFiniteSet(Order)
  PROVE  Spec => []NoEmptyCourse
  <1>1. Init => NoEmptyCourse
    BY DEF Init, NoEmptyCourse
  <1>2. IInv /\ SeqInv /\ NoEmptyCourse /\ [Next]_vars => NoEmptyCourse'
    <2> SUFFICES ASSUME IInv, SeqInv, NoEmptyCourse, [Next]_vars PROVE NoEmptyCourse'
      OBVIOUS
    <2>1. PICK p \in Req : Req = {p}
      BY DEF Alone
    <2>2. CASE Transfer(p)
      <3>1. PICK x : x = req[p]
        OBVIOUS
      <3>2. /\ ReqInv(x) /\ ReqSeq(x) /\ x.step = "transfer" /\ x \in Request
            /\ UNCHANGED <<statut, service, address>>
        BY <2>2, <3>1 DEF IInv, ReqOK, SeqInv, Transfer, At, courseVars
      <3>3. \A c \in Course : Carries(c)
        BY <2>1, <3>1, <3>2 DEF NoEmptyCourse, Carries, At
      <3>4. PICK C \in SUBSET Course : x.held \in [C -> SUBSET Order]
        BY <3>2 DEF Request
      <3>5. PICK i, j : i = x.target /\ j = x.course /\ i \in C /\ j \in C /\ i # j
        BY <3>2, <3>4 DEF ReqInv, ReqSeq
      <3>6. x.held[i] = Deliveries(i) /\ x.held[j] = Deliveries(j) /\ x.lot \subseteq x.held[j]
        BY <3>2, <3>4, <3>5 DEF ReqSeq, HeldSeq
      <3>7. PICK o \in x.lot :
              /\ course_id' = [course_id EXCEPT ![o] = i]
              /\ \/ x.lot \ {o} # {}
                 \/ x.held[j] \ {o} # {}
                 \/ req'[p].step = "merge" /\ req'[p].course = j
        <4>1. PICK o \in x.lot :
                LET moved == [x.held EXCEPT ![i] = @ \cup {o}, ![j] = @ \ {o}]
                IN  /\ course_id' = [course_id EXCEPT ![o] = i]
                    /\ \/ x.lot \ {o} # {}
                       \/ moved[j] # {}
                       \/ Goto(p, [x EXCEPT !.step = "merge", !.held = moved, !.lot = {}])
          BY <2>2, <3>1, <3>5 DEF Transfer
        <4>2. [x.held EXCEPT ![i] = @ \cup {o}, ![j] = @ \ {o}][j] = x.held[j] \ {o}
          BY <3>4, <3>5
        <4>3. ASSUME NEW h, Goto(p, [x EXCEPT !.step = "merge", !.held = h, !.lot = {}])
              PROVE  req'[p].step = "merge" /\ req'[p].course = j
          BY <3>1, <3>2, <3>5, <4>3 DEF Goto, Request, IInv, ReqOK
        <4> QED BY <4>1, <4>2, <4>3
      <3>8. /\ o \in Order /\ o \in Deliveries(j) /\ course_id'[o] = i
            /\ \A q \in Order \ {o} : course_id'[q] = course_id[q]
        BY <3>6, <3>7 DEF Deliveries, IInv, WorldOK
      <3>9. ASSUME NEW c \in Course, statut'[c] = "ADJUSTABLE", c # j
            PROVE  Deliveries(c)' # {}
        <4>1. Deliveries(c) # {}
          BY <3>2, <3>3, <3>9 DEF Carries
        <4> QED BY <4>1, <3>8, <3>9 DEF Deliveries
      <3>10. Deliveries(j)' # {} \/ (req'[p].step = "merge" /\ req'[p].course = j)
        BY <3>5, <3>6, <3>7, <3>8 DEF Deliveries
      <3> QED BY <3>9, <3>10 DEF NoEmptyCourse, At
    <2>3. CASE Merge(p)
      <3>1. req[p].step = "merge" /\ UNCHANGED course_id
        BY <2>3 DEF Merge, At, orderVars
      <3>2. \A c \in Course : statut'[c] = "ADJUSTABLE" => statut[c] = "ADJUSTABLE" /\ c # req[p].course
        BY <2>3 DEF Merge, IInv, WorldOK
      <3>3. ASSUME NEW c \in Course, statut'[c] = "ADJUSTABLE" PROVE Deliveries(c)' # {}
        BY <2>1, <3>1, <3>2, <3>3 DEF NoEmptyCourse, Deliveries, At
      <3> QED BY <3>3 DEF NoEmptyCourse
    <2>4. CASE req[p].step = "merge" /\ ~Merge(p)
      <3>1. UNCHANGED <<course_id, statut, req>>
        BY <2>1, <2>4
           DEF Next, vars, orderVars, courseVars, Handle, Flush, Rebalance, GroupRead, Candidate, Attach,
               NewBatch, BatchRead, BatchExpire, BatchFlushed, CreateRead, CreateInsert, Transfer,
               FlushRead, RebalanceRead, Crash, Alone, MarkReady, CancelOrder, PickUp, Subcontract,
               TakeBack, Tick, At
      <3> QED BY <3>1 DEF NoEmptyCourse, Deliveries, At
    <2>5. CASE req[p].step # "merge" /\ ~Rebalance(p)
      <3>1. \A c \in Course : Carries(c)
        BY <2>1, <2>5 DEF NoEmptyCourse, Carries, At
      <3>2. \A c \in Course : Carries(c)'
        BY <2>1, <2>5, <3>1, CarriesKept
      <3> QED BY <3>2 DEF NoEmptyCourse, Carries
    <2> QED BY <2>2, <2>3, <2>4, <2>5 DEF Rebalance, Merge, At
  <1> QED BY <1>1, <1>2, Sequential, PTL DEF Spec

=============================================================================
