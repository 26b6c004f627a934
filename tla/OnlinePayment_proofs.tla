------------------------ MODULE OnlinePayment_proofs ------------------------
(***************************************************************************)
(* The safety of OnlinePayment for every set of transactions, amounts and  *)
(* workers, and for every choice of the handlers they run, errors          *)
(* included.                                                               *)
(*                                                                         *)
(* IInv adds to the types what a handler in flight holds at each of its    *)
(* statements (HandlerOK), that one handler at most is on the job of a     *)
(* transaction (OneHandler), and that whoever has claimed the order, and   *)
(* is about to tell the kitchen, is the only one (RingOK).                 *)
(*                                                                         *)
(* CoverInv follows the money: what is recorded was cashed, and what was   *)
(* found to cover the order is not taken away.  A sum counts a finite set, *)
(* the units of its terms (SumTheorems), so that comparing two sums is     *)
(* comparing two sets.                                                     *)
(***************************************************************************)
EXTENDS OnlinePayment, SumTheorems, SequenceTheorems

Money == {"SUCCESS", "FAILED", "REVERTED"}

Confirming == {"claim", "ring", "check", "credit"}
Recording == {"verify", "dedupe", "create", "total"}

Steps == {"idle", "end", "mark", "refund", "cancel", "revoke"} \cup Confirming \cup Recording

Handler ==
    [kind : {"none", "webhook", "cron", "manual", "app", "refund", "cancel"}, pc : Steps,
     tx : Tx \cup {NONE}, seen : {"none"} \cup Money \cup Statuses]

(* What a handler holds: a transaction, unless it is a cancellation with   *)
(* nothing to refund, and what KKiaPay answered.                           *)
HandlerInv(w, x) ==
    /\ x \in Handler
    /\ x.kind \in Kinds[w] \cup {"none"}
    /\ x.kind = "none" <=> x.pc = "idle"
    /\ x.kind \notin {"none", "cancel"} => x.tx \in Tx
    /\ x.pc \in Confirming => x.kind \in {"webhook", "cron", "manual"}
    /\ x.pc \in Recording => x.kind \in {"webhook", "cron", "manual", "app"}
    /\ x.pc = "mark" => x.kind = "app"
    /\ x.pc = "refund" => x.kind \in {"refund", "cancel"} /\ x.tx \in Tx
    /\ x.pc \in {"cancel", "revoke"} => x.kind = "cancel"
    /\ x.pc \in {"dedupe", "create", "total"} => x.seen \in Money

OrderOK == order \in [status : Statuses, paied : BOOLEAN, deleted : BOOLEAN]
BankOK  == /\ kk \in [Tx -> {"none"} \cup Money]
           /\ sum \in [Tx -> Amounts \cup {0}]
RowsOK  == rows \in Seq([tx : Tx, status : Money])
JobsOK  == job \in [Tx -> [state : {"none", "waiting", "active", "dead"}, attempts : 0 .. MaxAttempts]]
HandlerOK == /\ h \in [Worker -> Handler]
             /\ \A w \in Worker : HandlerInv(w, h[w])
OnJob(w, t) == h[w].kind = "webhook" /\ h[w].tx = t
OneHandler ==
    /\ \A t \in Tx : job[t].state = "active" <=> \E w \in Worker : OnJob(w, t)
    /\ \A t \in Tx : \A v, w \in Worker : OnJob(v, t) /\ OnJob(w, t) => v = w
RingOK  == /\ bells \in {0, 1}
           /\ bells = 1 => order.status # "PENDING"
           /\ \A w \in Worker : At(w, "ring") => bells = 0 /\ order.status # "PENDING"
           /\ \A v, w \in Worker : At(v, "ring") /\ At(w, "ring") => v = w

IInv == OrderOK /\ BankOK /\ RowsOK /\ JobsOK /\ HandlerOK /\ OneHandler /\ RingOK

-----------------------------------------------------------------------------
(* Handlers *)

(* A handler whose record changes, with the jobs as they were.             *)
LEMMA SetHandler ==
  ASSUME HandlerOK, NEW w \in Worker, NEW x, HandlerInv(w, x), h' = [h EXCEPT ![w] = x]
  PROVE  HandlerOK' /\ h'[w] = x /\ \A v \in Worker \ {w} : h'[v] = h[v]
  <1>1. h'[w] = x /\ \A v \in Worker \ {w} : h'[v] = h[v]
    BY DEF HandlerOK
  <1>2. h' \in [Worker -> Handler]
    BY DEF HandlerOK, HandlerInv
  <1>3. \A v \in Worker : HandlerInv(v, h[v])'
    <2> TAKE v \in Worker
    <2>1. HandlerInv(v, h'[v])
      BY <1>1 DEF HandlerOK
    <2> QED BY <2>1 DEF HandlerInv
  <1> QED BY <1>1, <1>2, <1>3 DEF HandlerOK

(* The jobs are whose they were as long as no handler of a job changes.    *)
LEMMA SameJobs ==
  ASSUME OneHandler, UNCHANGED job, \A v \in Worker, t \in Tx : OnJob(v, t)' <=> OnJob(v, t)
  PROVE  OneHandler'
  BY DEF OneHandler

(* A handler that moves to another statement, and keeps what it holds.     *)
LEMMA GotoHandler ==
  ASSUME HandlerOK, OneHandler, UNCHANGED job, NEW w \in Worker, NEW pc, Goto(w, pc),
         h[w].pc # "idle", HandlerInv(w, [kind |-> h[w].kind, pc |-> pc, tx |-> h[w].tx, seen |-> h[w].seen])
  PROVE  /\ HandlerOK' /\ OneHandler'
         /\ h'[w].pc = pc /\ \A v \in Worker \ {w} : h'[v] = h[v]
  <1> DEFINE x == [kind |-> h[w].kind, pc |-> pc, tx |-> h[w].tx, seen |-> h[w].seen]
  <1>1. h' = [h EXCEPT ![w] = x]
    <2>1. h[w] \in Handler
      BY DEF HandlerOK
    <2>2. [h[w] EXCEPT !.pc = pc] = x
      BY <2>1 DEF Handler
    <2> QED BY <2>2 DEF Goto
  <1>2. HandlerOK' /\ h'[w] = x /\ \A v \in Worker \ {w} : h'[v] = h[v]
    BY <1>1, SetHandler
  <1>3. OneHandler'
    BY <1>2, SameJobs DEF OnJob
  <1> QED BY <1>2, <1>3

(* Nobody rings but the winner of the claim.                               *)
LEMMA NotRinging ==
  ASSUME RingOK, NEW w \in Worker, \A v \in Worker \ {w} : h'[v] = h[v], h'[w].pc # "ring",
         UNCHANGED bells, order.status # "PENDING" => order'.status # "PENDING"
  PROVE  RingOK'
  BY DEF RingOK, At

(* A statement that only moves a handler on.                               *)
LEMMA MoveOn ==
  ASSUME IInv, NEW w \in Worker, NEW pc, Goto(w, pc), pc # "ring",
         h[w].pc # "idle", HandlerInv(w, [kind |-> h[w].kind, pc |-> pc, tx |-> h[w].tx, seen |-> h[w].seen]),
         order.status # "PENDING" => order'.status # "PENDING",
         OrderOK', BankOK', RowsOK', UNCHANGED <<job, bells>>
  PROVE  IInv'
  <1>1. /\ HandlerOK' /\ OneHandler'
        /\ h'[w].pc = pc /\ \A v \in Worker \ {w} : h'[v] = h[v]
    BY GotoHandler DEF IInv
  <1>2. RingOK'
    BY <1>1, NotRinging DEF IInv
  <1> QED BY <1>1, <1>2 DEF IInv, JobsOK

(* An idle worker that takes a handler other than a job's.                 *)
LEMMA BeginOther ==
  ASSUME IInv, NEW w \in Worker, At(w, "idle"), NEW x, HandlerInv(w, x), x.pc # "ring",
         x.kind # "webhook", h' = [h EXCEPT ![w] = x],
         UNCHANGED <<order, kk, sum, rows, job, bells>>
  PROVE  IInv'
  <1>1. HandlerOK' /\ h'[w] = x /\ \A v \in Worker \ {w} : h'[v] = h[v]
    BY SetHandler DEF IInv
  <1>2. h[w].kind = "none"
    BY DEF IInv, HandlerOK, HandlerInv, At
  <1>3. OneHandler'
    BY <1>1, <1>2, SameJobs DEF OnJob, IInv
  <1>4. RingOK'
    BY <1>1, NotRinging DEF IInv
  <1> QED BY <1>1, <1>3, <1>4 DEF IInv, OrderOK, BankOK, RowsOK, JobsOK

(* A worker that lets go of its handler, the job of a webhook going to     *)
(* another state.                                                          *)
LEMMA LetGo ==
  ASSUME IInv, NEW w \in Worker, h[w].pc # "idle", h' = [h EXCEPT ![w] = Idle],
         NEW j \in [state : {"none", "waiting", "dead"}, attempts : 0 .. MaxAttempts],
         IF h[w].kind = "webhook" THEN job' = [job EXCEPT ![h[w].tx] = j] ELSE UNCHANGED job,
         UNCHANGED <<order, kk, sum, rows, bells>>
  PROVE  IInv'
  <1>1. HandlerInv(w, Idle)
    BY DEF HandlerInv, Idle, Handler, Steps, Confirming, Recording
  <1>2. HandlerOK' /\ h'[w] = Idle /\ \A v \in Worker \ {w} : h'[v] = h[v]
    BY <1>1, SetHandler DEF IInv
  <1>3. RingOK'
    BY <1>2, NotRinging DEF IInv, Idle
  <1>4. JobsOK' /\ OneHandler'
    <2>1. CASE h[w].kind # "webhook"
      <3>1. \A v \in Worker, t \in Tx : OnJob(v, t)' <=> OnJob(v, t)
        BY <1>2, <2>1 DEF OnJob, Idle
      <3> QED BY <2>1, <3>1, SameJobs DEF IInv, JobsOK
    <2>2. CASE h[w].kind = "webhook"
      <3>1. PICK t0 \in Tx : t0 = h[w].tx /\ job' = [job EXCEPT ![t0] = j]
        BY <2>2 DEF IInv, HandlerOK, HandlerInv
      <3>2. JobsOK'
        BY <3>1 DEF IInv, JobsOK
      <3>3. job'[t0].state # "active" /\ \A t \in Tx \ {t0} : job'[t] = job[t]
        BY <3>1 DEF IInv, JobsOK
      <3>4. \A v \in Worker : ~OnJob(v, t0)'
        BY <1>2, <2>2, <3>1 DEF IInv, OneHandler, OnJob, Idle
      <3>5. \A v \in Worker, t \in Tx \ {t0} : OnJob(v, t)' <=> OnJob(v, t)
        BY <1>2, <2>2, <3>1 DEF OnJob, Idle
      <3>6. OneHandler'
        BY <3>3, <3>4, <3>5 DEF IInv, OneHandler
      <3> QED BY <3>2, <3>6
    <2> QED BY <2>1, <2>2
  <1> QED BY <1>2, <1>3, <1>4 DEF IInv, OrderOK, BankOK, RowsOK

-----------------------------------------------------------------------------
(* One lemma per action. *)

LEMMA InitIInv == Init => IInv
  <1> SUFFICES ASSUME Init PROVE IInv
    OBVIOUS
  <1>1. OrderOK /\ BankOK /\ RowsOK
    BY DEF Init, OrderOK, BankOK, RowsOK, Statuses
  <1>2. JobsOK
    BY BoundsAssumption DEF Init, JobsOK
  <1>3. Idle \in Handler
    BY DEF Idle, Handler, Steps
  <1>4. HandlerOK
    BY <1>3 DEF Init, HandlerOK, HandlerInv, Idle, Confirming, Recording
  <1>5. OneHandler /\ RingOK
    BY DEF Init, OneHandler, OnJob, RingOK, At, Idle
  <1> QED BY <1>1, <1>2, <1>4, <1>5 DEF IInv

(* KKiaPay, its webhooks and the kitchen leave the handlers alone.         *)
LEMMA SameHandlers ==
  ASSUME IInv, UNCHANGED <<h, bells>>, order.status # "PENDING" => order'.status # "PENDING",
         OrderOK', BankOK', RowsOK', JobsOK', \A t \in Tx : job'[t].state = "active" <=> job[t].state = "active"
  PROVE  IInv'
  <1>1. HandlerOK'
    BY DEF IInv, HandlerOK, HandlerInv
  <1>2. OneHandler'
    BY DEF IInv, OneHandler, OnJob
  <1>3. RingOK'
    BY DEF IInv, RingOK, At
  <1> QED BY <1>1, <1>2, <1>3 DEF IInv

LEMMA StepPays == ASSUME IInv, NEW t \in Tx, CustomerPays(t) PROVE IInv'
  <1>1. PICK st \in {"SUCCESS", "FAILED"}, a \in Amounts :
           kk' = [kk EXCEPT ![t] = st] /\ sum' = [sum EXCEPT ![t] = a]
    BY DEF CustomerPays
  <1>2. BankOK'
    BY <1>1 DEF IInv, BankOK, Money
  <1> QED BY <1>2, SameHandlers DEF CustomerPays, IInv, OrderOK, RowsOK, JobsOK

LEMMA StepIngest == ASSUME IInv, NEW t \in Tx, IngestWebhook(t) PROVE IInv'
  <1>1. JobsOK' /\ \A u \in Tx : job'[u].state = "active" <=> job[u].state = "active"
    BY BoundsAssumption DEF IngestWebhook, IInv, JobsOK
  <1> QED BY <1>1, SameHandlers DEF IngestWebhook, IInv, OrderOK, RowsOK, BankOK

LEMMA StepServe == ASSUME IInv, Serve PROVE IInv'
  <1>1. OrderOK' /\ order'.status # "PENDING"
    BY DEF Serve, IInv, OrderOK, Statuses
  <1> QED BY <1>1, SameHandlers DEF Serve, IInv, BankOK, RowsOK, JobsOK

(* Whatever a worker may begin is a handler.                               *)
LEMMA BeginIsHandler ==
  ASSUME NEW w \in Worker, NEW k \in Kinds[w], k \in {"webhook", "cron", "manual", "app", "refund", "cancel"},
         NEW t \in Tx, NEW pc, pc = "end" \/ (pc = "verify" /\ k \notin {"refund", "cancel"})
                                \/ (pc = "refund" /\ k = "refund")
  PROVE  HandlerInv(w, [kind |-> k, pc |-> pc, tx |-> t, seen |-> "none"])
  BY DEF HandlerInv, Handler, Steps, Confirming, Recording

LEMMA StepStartWebhook == ASSUME IInv, NEW w \in Worker, NEW t \in Tx, StartWebhook(w, t) PROVE IInv'
  <1>1. PICK pc \in {"end", "verify"} : pc = Found
    BY DEF Found
  <1>2. /\ At(w, "idle") /\ "webhook" \in Kinds[w]
        /\ h' = [h EXCEPT ![w] = [kind |-> "webhook", pc |-> pc, tx |-> t, seen |-> "none"]]
        /\ job[t].state = "waiting"
        /\ job' = [job EXCEPT ![t].state = "active"]
        /\ UNCHANGED <<order, kk, sum, rows, bells>>
    BY <1>1 DEF StartWebhook, Begin
  <1>3. HandlerInv(w, [kind |-> "webhook", pc |-> pc, tx |-> t, seen |-> "none"])
    BY <1>1, <1>2, BeginIsHandler
  <1>4. /\ HandlerOK' /\ h'[w].kind = "webhook" /\ h'[w].tx = t /\ h'[w].pc # "ring"
        /\ \A v \in Worker \ {w} : h'[v] = h[v]
    <2> DEFINE x == [kind |-> "webhook", pc |-> pc, tx |-> t, seen |-> "none"]
    <2>1. HandlerInv(w, x) /\ h' = [h EXCEPT ![w] = x]
      BY <1>2, <1>3
    <2>2. HandlerOK' /\ h'[w] = x /\ \A v \in Worker \ {w} : h'[v] = h[v]
      BY <2>1, SetHandler DEF IInv
    <2> QED BY <2>2, <1>1
  <1>5. RingOK'
    BY <1>2, <1>4, NotRinging DEF IInv
  <1>6. JobsOK' /\ job'[t].state = "active" /\ \A u \in Tx \ {t} : job'[u] = job[u]
    BY <1>2 DEF IInv, JobsOK
  <1>7. \A v \in Worker : ~OnJob(v, t)
    BY <1>2 DEF IInv, OneHandler
  <1>8. h[w].kind = "none"
    BY <1>2 DEF IInv, HandlerOK, HandlerInv, At
  <1>9. \A v \in Worker : OnJob(v, t)' <=> v = w
    BY <1>4, <1>7 DEF OnJob
  <1>10. \A u \in Tx \ {t}, v \in Worker : OnJob(v, u)' <=> OnJob(v, u)
    BY <1>4, <1>8 DEF OnJob
  <1>11. OneHandler'
    BY <1>6, <1>9, <1>10 DEF IInv, OneHandler
  <1> QED BY <1>2, <1>4, <1>5, <1>6, <1>11 DEF IInv, OrderOK, BankOK, RowsOK

(* The other starts: they begin no job.                                    *)
LEMMA StartOther ==
  ASSUME IInv, NEW w \in Worker, NEW t \in Tx, NEW k \in {"cron", "manual", "app", "refund"},
         NEW pc \in {"end", "verify", "refund"}, pc = "refund" <=> k = "refund",
         Begin(w, k, t, pc), UNCHANGED <<order, kk, sum, rows, job, bells>>
  PROVE  IInv'
  <1> DEFINE x == [kind |-> k, pc |-> pc, tx |-> t, seen |-> "none"]
  <1>1. At(w, "idle") /\ k \in Kinds[w] /\ h' = [h EXCEPT ![w] = x]
    BY DEF Begin
  <1>2. HandlerInv(w, x)
    BY <1>1, BeginIsHandler
  <1> QED BY <1>1, <1>2, BeginOther

LEMMA StepStartOther ==
  ASSUME IInv, NEW w \in Worker, NEW t \in Tx,
         StartReconcile(w, t) \/ confirmPaymentManually(w, t) \/ payWithKkiapay(w, t) \/ StartRefund(w, t)
  PROVE  IInv'
  <1>1. Found \in {"end", "verify", "refund"} /\ Found # "refund"
    BY DEF Found
  <1>2. PICK k \in {"cron", "manual", "app", "refund"}, pc \in {"end", "verify", "refund"} :
          (pc = "refund" <=> k = "refund") /\ Begin(w, k, t, pc)
    BY <1>1 DEF StartReconcile, confirmPaymentManually, payWithKkiapay, StartRefund
  <1>3. UNCHANGED <<order, kk, sum, rows, job, bells>>
    BY DEF StartReconcile, confirmPaymentManually, payWithKkiapay, StartRefund
  <1> QED BY <1>2, <1>3, StartOther

LEMMA StepStartCancel == ASSUME IInv, NEW w \in Worker, StartCancel(w) PROVE IInv'
  <1>1. PICK t \in Tx \cup {NONE} :
          /\ t = NONE \/ t \in Tx
          /\ At(w, "idle") /\ "cancel" \in Kinds[w]
          /\ h' = [h EXCEPT ![w] = [kind |-> "cancel", tx |-> t, seen |-> order.status,
                                    pc |-> IF t = NONE THEN "cancel" ELSE "refund"]]
    BY DEF StartCancel, Refundable
  <1> DEFINE x == [kind |-> "cancel", tx |-> t, seen |-> order.status,
                   pc |-> IF t = NONE THEN "cancel" ELSE "refund"]
  <1>2. order.status \in Statuses
    BY DEF IInv, OrderOK
  <1>3. HandlerInv(w, x) /\ x.pc # "ring" /\ x.kind # "webhook"
    BY <1>1, <1>2 DEF HandlerInv, Handler, Steps, Confirming, Recording
  <1>4. UNCHANGED <<order, kk, sum, rows, job, bells>>
    BY DEF StartCancel
  <1> QED BY <1>1, <1>3, <1>4, BeginOther

-----------------------------------------------------------------------------
(* The statements of a handler. *)

(* What IInv says of a handler, field by field.                            *)
LEMMA HandlerFields ==
  ASSUME IInv, NEW w \in Worker
  PROVE  HandlerInv(w, h[w]) /\ h[w] \in Handler
  BY DEF IInv, HandlerOK, HandlerInv

(* A handler may always go to its end.                                     *)
LEMMA MayMove ==
  ASSUME IInv, NEW w \in Worker, h[w].pc # "idle", NEW pc \in Steps \ {"idle"},
         pc \in Confirming => h[w].kind \in {"webhook", "cron", "manual"},
         pc \in Recording => h[w].kind \in {"webhook", "cron", "manual", "app"},
         pc = "mark" => h[w].kind = "app",
         pc # "refund",
         pc \in {"cancel", "revoke"} => h[w].kind = "cancel",
         pc \in {"dedupe", "create", "total"} => h[w].seen \in Money
  PROVE  HandlerInv(w, [kind |-> h[w].kind, pc |-> pc, tx |-> h[w].tx, seen |-> h[w].seen])
  BY HandlerFields DEF HandlerInv, Handler

LEMMA StepVerify == ASSUME IInv, NEW w \in Worker, Verify(w) PROVE IInv'
  <1> DEFINE x == [kind |-> h[w].kind, tx |-> h[w].tx, seen |-> kk[h[w].tx],
                   pc |-> IF kk[h[w].tx] = "none" THEN "end" ELSE "dedupe"]
  <1>1. h[w] \in Handler /\ h[w].pc = "verify" /\ HandlerInv(w, h[w])
    BY HandlerFields DEF Verify, At
  <1>2. h[w].tx \in Tx /\ h[w].kind \in {"webhook", "cron", "manual", "app"}
    BY <1>1 DEF HandlerInv, Recording
  <1>3. kk[h[w].tx] \in {"none"} \cup Money
    BY <1>2 DEF IInv, BankOK
  <1>4. h' = [h EXCEPT ![w] = x]
    BY DEF Verify
  <1>5. HandlerInv(w, x)
    BY <1>1, <1>2, <1>3 DEF HandlerInv, Handler, Steps, Confirming, Recording, Money
  <1>6. HandlerOK' /\ h'[w] = x /\ \A v \in Worker \ {w} : h'[v] = h[v]
    BY <1>4, <1>5, SetHandler DEF IInv
  <1>7. UNCHANGED <<order, kk, sum, rows, job, bells>>
    BY DEF Verify
  <1>8. OneHandler'
    BY <1>6, <1>7, SameJobs DEF OnJob, IInv
  <1>9. RingOK'
    BY <1>6, <1>7, NotRinging DEF IInv
  <1> QED BY <1>6, <1>7, <1>8, <1>9 DEF IInv, OrderOK, BankOK, RowsOK, JobsOK

(* The statements that read, or write nothing but the points.              *)
LEMMA StepRead ==
  ASSUME IInv, NEW w \in Worker,
         Dedupe(w) \/ Total(w) \/ CheckPoints(w) \/ Credit(w) \/ revokeEarnedPointsForOrder(w)
  PROVE  IInv'
  <1>1. PICK pc \in {"total", "create", "end", "mark", "claim", "credit"} :
          /\ Goto(w, pc)
          /\ pc \in {"total", "create"} => h[w].pc = "dedupe"
          /\ pc = "mark" => h[w].pc = "total" /\ h[w].kind = "app"
          /\ pc = "claim" => h[w].pc = "total" /\ h[w].kind # "app"
          /\ pc = "credit" => h[w].pc = "check"
          /\ h[w].pc # "idle"
    BY DEF Dedupe, Total, CheckPoints, Credit, revokeEarnedPointsForOrder, At
  <1>2. HandlerInv(w, [kind |-> h[w].kind, pc |-> pc, tx |-> h[w].tx, seen |-> h[w].seen])
    BY <1>1, HandlerFields, MayMove DEF HandlerInv, Steps, Confirming, Recording
  <1>3. UNCHANGED <<order, kk, sum, rows, job, bells>>
    BY DEF Dedupe, Total, CheckPoints, Credit, revokeEarnedPointsForOrder
  <1>4. OrderOK' /\ BankOK' /\ RowsOK'
    BY <1>3 DEF IInv, OrderOK, BankOK, RowsOK
  <1> QED BY <1>1, <1>2, <1>3, <1>4, MoveOn

LEMMA StepCreate == ASSUME IInv, NEW w \in Worker, Create(w) PROVE IInv'
  <1>1. h[w].pc = "create" /\ HandlerInv(w, h[w])
    BY HandlerFields DEF Create, At
  <1>2. h[w].tx \in Tx /\ h[w].seen \in Money /\ h[w].kind \in {"webhook", "cron", "manual", "app"}
    BY <1>1 DEF HandlerInv, Recording
  <1>3. HandlerInv(w, [kind |-> h[w].kind, pc |-> "total", tx |-> h[w].tx, seen |-> h[w].seen])
    BY <1>1, <1>2, MayMove DEF Steps, Confirming, Recording
  <1>4. RowsOK'
    BY <1>2, AppendProperties DEF Create, IInv, RowsOK
  <1>5. OrderOK' /\ BankOK' /\ UNCHANGED <<order, job, bells>>
    BY DEF Create, IInv, OrderOK, BankOK
  <1> QED BY <1>1, <1>3, <1>4, <1>5, MoveOn DEF Create

(* Only a pending order is claimed, so nobody has rung or is about to.     *)
LEMMA StepClaim == ASSUME IInv, NEW w \in Worker, Claim(w) PROVE IInv'
  <1>1. h[w].pc = "claim" /\ HandlerInv(w, h[w])
    BY HandlerFields DEF Claim, At
  <1>2. h[w].kind \in {"webhook", "cron", "manual"}
    BY <1>1 DEF HandlerInv, Confirming
  <1>3. \A pc \in {"ring", "check"} :
           HandlerInv(w, [kind |-> h[w].kind, pc |-> pc, tx |-> h[w].tx, seen |-> h[w].seen])
    BY <1>1, <1>2, MayMove DEF Steps, Confirming, Recording
  <1>4. UNCHANGED <<kk, sum, rows, job, bells>>
    BY DEF Claim
  <1>5. BankOK' /\ RowsOK' /\ JobsOK'
    BY <1>4 DEF IInv, BankOK, RowsOK, JobsOK
  <1>6. CASE order.status # "PENDING"
    <2>1. Goto(w, "check") /\ UNCHANGED order
      BY <1>6 DEF Claim
    <2>2. OrderOK'
      BY <2>1 DEF IInv, OrderOK
    <2> QED BY <1>1, <1>3, <1>4, <1>5, <2>1, <2>2, MoveOn
  <1>7. CASE order.status = "PENDING"
    <2>1. Goto(w, "ring") /\ order' = [order EXCEPT !.status = "ACCEPTED", !.paied = TRUE]
      BY <1>7 DEF Claim
    <2>2. OrderOK' /\ order'.status # "PENDING"
      BY <2>1 DEF IInv, OrderOK, Statuses
    <2>3. /\ HandlerOK' /\ OneHandler'
          /\ h'[w].pc = "ring" /\ \A v \in Worker \ {w} : h'[v] = h[v]
      BY <1>1, <1>3, <1>4, <2>1, GotoHandler DEF IInv
    <2>4. bells = 0 /\ \A v \in Worker : ~At(v, "ring")
      BY <1>7 DEF IInv, RingOK
    <2>5. RingOK'
      BY <1>4, <2>2, <2>3, <2>4 DEF RingOK, At
    <2> QED BY <1>5, <2>2, <2>3, <2>5 DEF IInv
  <1> QED BY <1>6, <1>7

(* The winner of the claim is the only one to ring.                        *)
LEMMA StepRing == ASSUME IInv, NEW w \in Worker, Ring(w) PROVE IInv'
  <1>1. h[w].pc = "ring" /\ At(w, "ring") /\ HandlerInv(w, h[w])
    BY HandlerFields DEF Ring, At
  <1>2. h[w].kind \in {"webhook", "cron", "manual"}
    BY <1>1 DEF HandlerInv, Confirming
  <1>3. HandlerInv(w, [kind |-> h[w].kind, pc |-> "check", tx |-> h[w].tx, seen |-> h[w].seen])
    BY <1>1, <1>2, MayMove DEF Steps, Confirming, Recording
  <1>4. Goto(w, "check") /\ bells' = bells + 1 /\ UNCHANGED <<order, kk, sum, rows, job>>
    BY DEF Ring
  <1>5. OrderOK' /\ BankOK' /\ RowsOK' /\ JobsOK'
    BY <1>4 DEF IInv, OrderOK, BankOK, RowsOK, JobsOK
  <1>6. /\ HandlerOK' /\ OneHandler'
        /\ h'[w].pc = "check" /\ \A v \in Worker \ {w} : h'[v] = h[v]
    BY <1>1, <1>3, <1>4, GotoHandler DEF IInv
  <1>7. bells = 0 /\ order.status # "PENDING" /\ \A v \in Worker \ {w} : ~At(v, "ring")
    BY <1>1 DEF IInv, RingOK
  <1>8. RingOK'
    BY <1>4, <1>6, <1>7 DEF RingOK, At
  <1> QED BY <1>5, <1>6, <1>8 DEF IInv

LEMMA StepMark == ASSUME IInv, NEW w \in Worker, Mark(w) PROVE IInv'
  <1>1. h[w].pc = "mark" /\ HandlerInv(w, h[w])
    BY HandlerFields DEF Mark, At
  <1>2. HandlerInv(w, [kind |-> h[w].kind, pc |-> "end", tx |-> h[w].tx, seen |-> h[w].seen])
    BY <1>1, MayMove DEF Steps, Confirming, Recording
  <1>3. OrderOK' /\ order'.status = order.status
    BY DEF Mark, IInv, OrderOK
  <1>4. BankOK' /\ RowsOK' /\ UNCHANGED <<job, bells>>
    BY DEF Mark, IInv, BankOK, RowsOK
  <1> QED BY <1>1, <1>2, <1>3, <1>4, MoveOn DEF Mark

LEMMA StepCancelWrite == ASSUME IInv, NEW w \in Worker, CancelWrite(w) PROVE IInv'
  <1>1. h[w].pc = "cancel" /\ HandlerInv(w, h[w])
    BY HandlerFields DEF CancelWrite, At
  <1>2. h[w].kind = "cancel"
    BY <1>1 DEF HandlerInv
  <1>3. HandlerInv(w, [kind |-> h[w].kind, pc |-> "revoke", tx |-> h[w].tx, seen |-> h[w].seen])
    BY <1>1, <1>2, MayMove DEF Steps, Confirming, Recording
  <1>4. OrderOK' /\ order'.status # "PENDING"
    BY DEF CancelWrite, IInv, OrderOK, Statuses
  <1>5. BankOK' /\ RowsOK' /\ UNCHANGED <<job, bells>>
    BY DEF CancelWrite, IInv, BankOK, RowsOK
  <1> QED BY <1>1, <1>3, <1>4, <1>5, MoveOn DEF CancelWrite

(* Whether KKiaPay accepts the refund or not.                              *)
LEMMA StepRefund == ASSUME IInv, NEW w \in Worker, Refund(w) PROVE IInv'
  <1>1. h[w].pc = "refund" /\ HandlerInv(w, h[w])
    BY HandlerFields DEF Refund, At
  <1>2. h[w].tx \in Tx /\ h[w].kind \in {"refund", "cancel"}
    BY <1>1 DEF HandlerInv
  <1>3. PICK pc \in {"cancel", "end"} : Goto(w, pc) /\ (pc = "cancel" => h[w].kind = "cancel")
    BY DEF Refund
  <1>4. HandlerInv(w, [kind |-> h[w].kind, pc |-> pc, tx |-> h[w].tx, seen |-> h[w].seen])
    BY <1>1, <1>3, MayMove DEF Steps, Confirming, Recording
  <1>5. UNCHANGED <<job, bells, sum>>
    BY DEF Refund
  <1>6. OrderOK' /\ order'.status = order.status /\ BankOK' /\ RowsOK'
    <2>1. CASE UNCHANGED <<order, kk, rows>>
      BY <1>5, <2>1 DEF IInv, OrderOK, BankOK, RowsOK
    <2>2. CASE /\ kk' = [kk EXCEPT ![h[w].tx] = "REVERTED"]
               /\ rows' = Revert(h[w].tx)
               /\ order' = [order EXCEPT !.paied = (SumSuccess' >= Price)]
      <3>1. BankOK'
        BY <1>2, <1>5, <2>2 DEF IInv, BankOK, Money
      <3>2. RowsOK'
        <4> DEFINE Row == [tx : Tx, status : Money]
        <4>1. rows \in Seq(Row)
          BY DEF IInv, RowsOK
        <4>2. \A r \in Row : [r EXCEPT !.status = "REVERTED"] \in Row
          BY DEF Money
        <4> HIDE DEF Row
        <4>3. DOMAIN rows = 1 .. Len(rows) /\ Len(rows) \in Nat
          BY <4>1
        <4>4. \A i \in 1 .. Len(rows) : rows[i] \in Row
          BY <4>1, <4>3
        <4>5. Revert(h[w].tx) \in [1 .. Len(rows) -> Row]
          BY <4>2, <4>3, <4>4 DEF Revert
        <4>6. Revert(h[w].tx) \in Seq(Row)
          BY <4>3, <4>5, SeqDef
        <4> QED BY <2>2, <4>6 DEF RowsOK, Row
      <3>3. OrderOK' /\ order'.status = order.status
        <4> DEFINE paid == SumSuccess' >= Price
        <4>1. order' = [order EXCEPT !.paied = paid] /\ paid \in BOOLEAN
          BY <2>2
        <4> HIDE DEF paid
        <4> QED BY <4>1 DEF IInv, OrderOK
      <3> QED BY <3>1, <3>2, <3>3
    <2> QED BY <2>1, <2>2 DEF Refund
  <1> QED BY <1>1, <1>3, <1>4, <1>5, <1>6, MoveOn

LEMMA StepEnd == ASSUME IInv, NEW w \in Worker, End(w) PROVE IInv'
  <1> DEFINE j == [state |-> "none", attempts |-> 0]
  <1>1. h[w].pc # "idle" /\ h' = [h EXCEPT ![w] = Idle]
    BY DEF End, At
  <1>2. j \in [state : {"none", "waiting", "dead"}, attempts : 0 .. MaxAttempts]
    BY BoundsAssumption
  <1>3. IF h[w].kind = "webhook" THEN job' = [job EXCEPT ![h[w].tx] = j] ELSE UNCHANGED job
    BY DEF End
  <1>4. UNCHANGED <<order, kk, sum, rows, bells>>
    BY DEF End
  <1> QED BY <1>1, <1>2, <1>3, <1>4, LetGo

(* An error: the job of a webhook is retried, or given up.                 *)
LEMMA StepFault == ASSUME IInv, NEW w \in Worker, Fault(w) PROVE IInv'
  <1>1. h[w].pc # "idle" /\ h' = [h EXCEPT ![w] = Idle]
    BY DEF Fault
  <1>2. UNCHANGED <<order, kk, sum, rows, bells>>
    BY DEF Fault
  <1>3. CASE h[w].kind = "webhook"
    <2>1. h[w].tx \in Tx
      BY <1>3, HandlerFields DEF HandlerInv
    <2>2. job[h[w].tx].attempts \in 0 .. MaxAttempts
      BY <2>1 DEF IInv, JobsOK
    <2>3. Retry(h[w].tx) \in [state : {"none", "waiting", "dead"}, attempts : 0 .. MaxAttempts]
      BY <2>2, BoundsAssumption DEF Retry
    <2>4. job' = [job EXCEPT ![h[w].tx] = Retry(h[w].tx)]
      BY <1>3 DEF Fault
    <2> QED BY <1>1, <1>2, <1>3, <2>3, <2>4, LetGo
  <1>4. CASE h[w].kind # "webhook"
    <2>1. [state |-> "none", attempts |-> 0] \in [state : {"none", "waiting", "dead"}, attempts : 0 .. MaxAttempts]
      BY BoundsAssumption
    <2>2. UNCHANGED job
      BY <1>4 DEF Fault
    <2> QED BY <1>1, <1>2, <1>4, <2>1, <2>2, LetGo
  <1> QED BY <1>3, <1>4

-----------------------------------------------------------------------------
(* Theorems. *)

LEMMA StepStutter == ASSUME IInv, UNCHANGED vars PROVE IInv'
  <1>1. /\ UNCHANGED <<h, bells, order, kk, sum, rows, job>>
        /\ OrderOK' /\ BankOK' /\ RowsOK' /\ JobsOK'
    BY DEF vars, IInv, OrderOK, BankOK, RowsOK, JobsOK
  <1> QED BY <1>1, SameHandlers

LEMMA NextIInv == IInv /\ [Next]_vars => IInv'
  <1> SUFFICES ASSUME IInv, [Next]_vars PROVE IInv'
    OBVIOUS
  <1>1. CASE \E t \in Tx : CustomerPays(t) \/ IngestWebhook(t)
    BY <1>1, StepPays, StepIngest
  <1>2. CASE \E w \in Worker, t \in Tx :
               \/ StartWebhook(w, t) \/ StartReconcile(w, t)
               \/ confirmPaymentManually(w, t) \/ payWithKkiapay(w, t) \/ StartRefund(w, t)
    BY <1>2, StepStartWebhook, StepStartOther
  <1>3. CASE \E w \in Worker : StartCancel(w) \/ Fault(w)
    BY <1>3, StepStartCancel, StepFault
  <1>4. CASE \E w \in Worker : Statement(w)
    <2>1. PICK w \in Worker : Statement(w)
      BY <1>4
    <2>2. CASE Dedupe(w) \/ Total(w) \/ CheckPoints(w) \/ Credit(w) \/ revokeEarnedPointsForOrder(w)
      BY <2>2, StepRead
    <2>3. CASE Verify(w) \/ Create(w) \/ Claim(w) \/ Ring(w)
      BY <2>3, StepVerify, StepCreate, StepClaim, StepRing
    <2>4. CASE Mark(w) \/ End(w) \/ Refund(w) \/ CancelWrite(w)
      BY <2>4, StepMark, StepEnd, StepRefund, StepCancelWrite
    <2> QED BY <2>1, <2>2, <2>3, <2>4 DEF Statement
  <1>5. CASE Serve
    BY <1>5, StepServe
  <1>6. CASE UNCHANGED vars
    BY <1>6, StepStutter
  <1> QED BY <1>1, <1>2, <1>3, <1>4, <1>5, <1>6 DEF Next

LEMMA IInvImplies == IInv => TypeOK
  <1> SUFFICES ASSUME IInv PROVE TypeOK
    OBVIOUS
  <1>1. order \in [status : Statuses, paied : BOOLEAN, deleted : BOOLEAN]
    BY DEF IInv, OrderOK
  <1>2. /\ kk \in [Tx -> {"none", "SUCCESS", "FAILED", "REVERTED"}]
        /\ sum \in [Tx -> Amounts \union {0}]
    BY DEF IInv, BankOK, Money
  <1>3. \A i \in DOMAIN rows : rows[i] \in [tx : Tx, status : {"SUCCESS", "FAILED", "REVERTED"}]
    <2> DEFINE Row == [tx : Tx, status : Money]
    <2>1. rows \in Seq(Row)
      BY DEF IInv, RowsOK
    <2> HIDE DEF Row
    <2>2. \A i \in DOMAIN rows : rows[i] \in Row
      BY <2>1
    <2> QED BY <2>2 DEF Row, Money
  <1>4. \A t \in Tx : /\ job[t].state \in {"none", "waiting", "active", "dead"}
                      /\ job[t].attempts <= MaxAttempts
    BY BoundsAssumption DEF IInv, JobsOK
  <1>5. \A t \in Tx : job[t].state = "active" <=>
                          \E w \in Worker : h[w].kind = "webhook" /\ h[w].tx = t
    BY DEF IInv, OneHandler, OnJob
  <1> QED BY <1>1, <1>2, <1>3, <1>4, <1>5 DEF TypeOK

(* The inductive invariant holds in every behaviour.                       *)
THEOREM Inductive == Spec => []IInv
  BY InitIInv, NextIInv, PTL DEF Spec

(* Every variable has its type, and a job is active exactly while a worker *)
(* is on it, with any number of workers and errors.                        *)
THEOREM TypeCorrect == Spec => []TypeOK
  BY Inductive, IInvImplies, PTL

BellOnce == bells <= 1 /\ (bells = 1 => order.status # "PENDING")

(* linkPaiementToOrder: the kitchen is told of the payment once, and only  *)
(* of an order that was accepted, with any number of backends.             *)
THEOREM KitchenToldOnce == Spec => []BellOnce
  <1>1. IInv => BellOnce
    BY DEF IInv, RingOK, BellOnce
  <1> QED BY <1>1, Inductive, PTL

-----------------------------------------------------------------------------
(* The order never goes back. *)

Forward == Rank[order.status] <= Rank[order'.status]

LEMMA Ranks ==
  /\ Rank["PENDING"] = 0 /\ Rank["ACCEPTED"] = 1 /\ Rank["COMPLETED"] = 2 /\ Rank["CANCELLED"] = 3
  /\ \A s \in Statuses : Rank[s] \in 0 .. 3
  <1>1. {"PENDING", "ACCEPTED", "COMPLETED", "CANCELLED"} \subseteq Statuses
    BY DEF Statuses
  <1>2. Rank["PENDING"] = 0
    BY <1>1 DEF Rank
  <1>3. Rank["ACCEPTED"] = 1
    BY <1>1 DEF Rank
  <1>4. Rank["COMPLETED"] = 2
    BY <1>1 DEF Rank
  <1>5. Rank["CANCELLED"] = 3
    BY <1>1 DEF Rank
  <1> QED BY <1>2, <1>3, <1>4, <1>5 DEF Statuses

LEMMA SameStatus == ASSUME IInv, order'.status = order.status PROVE Forward
  BY Ranks DEF Forward, IInv, OrderOK

LEMMA NextForward == IInv /\ [Next]_vars => Forward
  <1> SUFFICES ASSUME IInv, [Next]_vars PROVE Forward
    OBVIOUS
  <1>0. order \in [status : Statuses, paied : BOOLEAN, deleted : BOOLEAN]
    BY DEF IInv, OrderOK
  <1>1. CASE \E t \in Tx : CustomerPays(t) \/ IngestWebhook(t)
    BY <1>1, SameStatus DEF CustomerPays, IngestWebhook
  <1>2. CASE \E w \in Worker, t \in Tx :
               \/ StartWebhook(w, t) \/ StartReconcile(w, t)
               \/ confirmPaymentManually(w, t) \/ payWithKkiapay(w, t) \/ StartRefund(w, t)
    BY <1>2, SameStatus
       DEF StartWebhook, StartReconcile, confirmPaymentManually, payWithKkiapay, StartRefund
  <1>3. CASE \E w \in Worker : StartCancel(w) \/ Fault(w)
    BY <1>3, SameStatus DEF StartCancel, Fault
  <1>4. CASE \E w \in Worker : Statement(w)
    <2>1. PICK w \in Worker : Statement(w)
      BY <1>4
    <2>2. CASE UNCHANGED order
      BY <2>2, SameStatus
    <2>3. CASE Claim(w)
      <3>1. CASE order.status = "PENDING"
        <4>1. order'.status = "ACCEPTED"
          BY <1>0, <2>3, <3>1 DEF Claim
        <4> QED BY <3>1, <4>1, Ranks DEF Forward
      <3> QED BY <2>2, <2>3, <3>1 DEF Claim
    <2>4. CASE Mark(w)
      <3>1. order'.status = order.status
        BY <1>0, <2>4 DEF Mark
      <3> QED BY <3>1, SameStatus
    <2>5. CASE Refund(w)
      <3> DEFINE paid == SumSuccess' >= Price
      <3>1. UNCHANGED order \/ order' = [order EXCEPT !.paied = paid]
        BY <2>5 DEF Refund
      <3> HIDE DEF paid
      <3>2. order'.status = order.status
        BY <1>0, <3>1
      <3> QED BY <3>2, SameStatus
    <2>6. CASE CancelWrite(w)
      <3>1. order'.status = "CANCELLED"
        BY <1>0, <2>6 DEF CancelWrite
      <3> QED BY <1>0, <3>1, Ranks DEF Forward
    <2>7. CASE Verify(w) \/ Dedupe(w) \/ Create(w) \/ Total(w) \/ Ring(w)
               \/ CheckPoints(w) \/ Credit(w) \/ End(w) \/ revokeEarnedPointsForOrder(w)
      BY <2>2, <2>7 DEF Verify, Dedupe, Create, Total, Ring, CheckPoints, Credit, End, revokeEarnedPointsForOrder
    <2> QED BY <2>1, <2>3, <2>4, <2>5, <2>6, <2>7 DEF Statement
  <1>5. CASE Serve
    <2>1. order.status = "ACCEPTED" /\ order'.status = "COMPLETED"
      BY <1>0, <1>5 DEF Serve
    <2> QED BY <2>1, Ranks DEF Forward
  <1>6. CASE UNCHANGED vars
    BY <1>6, SameStatus DEF vars
  <1> QED BY <1>1, <1>2, <1>3, <1>4, <1>5, <1>6 DEF Next

(* A replayed or late payment never takes an order back, nor out of        *)
(* CANCELLED: linkPaiementToOrder claims on PENDING, everything else       *)
(* leaves the status or moves it on.                                       *)
THEOREM OrderNeverBack == Spec => NeverBack
  <1>1. IInv /\ [Next]_vars => [Forward]_vars
    BY NextForward
  <1> QED BY <1>1, Inductive, PTL DEF Spec, NeverBack, Forward

-----------------------------------------------------------------------------
(* The effects of a payment, when one worker confirms them: the rest may   *)
(* run the calls of the application, refunds and cancellations at any time.*)
(* addPoints reads, then inserts, and no index backs it up: with two       *)
(* confirming workers the points can be credited twice.                    *)

OneConfirms(b) == \A w \in Worker \ {b} : Kinds[w] \intersect {"webhook", "cron", "manual"} = {}

PointsOK ==
    /\ points \in [live : {0, 1}, revoked : Nat]
    /\ \A w \in Worker : At(w, "credit") => points.live = 0

LEMMA OnlyOneCredits ==
  ASSUME IInv, NEW b \in Worker, OneConfirms(b), NEW w \in Worker, At(w, "credit")
  PROVE  w = b
  <1>1. h[w].kind \in Kinds[w] \cup {"none"} /\ h[w].kind \in {"webhook", "cron", "manual"}
    BY HandlerFields DEF At, HandlerInv, Confirming
  <1> QED BY <1>1 DEF OneConfirms

(* A step that credits nothing and brings nobody to the credit.            *)
LEMMA SamePoints ==
  ASSUME PointsOK, UNCHANGED points, \A v \in Worker : At(v, "credit")' => At(v, "credit")
  PROVE  PointsOK'
  BY DEF PointsOK, At

(* One handler changes, and it is not sent to the credit.                  *)
LEMMA NotToCredit ==
  ASSUME IInv, PointsOK, UNCHANGED points, NEW w \in Worker, NEW x, x.pc # "credit",
         h' = [h EXCEPT ![w] = x]
  PROVE  PointsOK'
  <1>1. \A v \in Worker : At(v, "credit")' => At(v, "credit")
    BY DEF IInv, HandlerOK, At
  <1> QED BY <1>1, SamePoints

LEMMA GotoNotCredit ==
  ASSUME IInv, PointsOK, UNCHANGED points, NEW w \in Worker, NEW pc, pc # "credit", Goto(w, pc)
  PROVE  PointsOK'
  <1>1. \A v \in Worker : At(v, "credit")' => At(v, "credit")
    BY DEF IInv, HandlerOK, Handler, At, Goto
  <1> QED BY <1>1, SamePoints

LEMMA StepPoints ==
  ASSUME IInv, PointsOK, NEW b \in Worker, OneConfirms(b), NEW w \in Worker, Statement(w)
  PROVE  PointsOK'
  <1>1. CASE Verify(w)
    <2> DEFINE x == [kind |-> h[w].kind, tx |-> h[w].tx, seen |-> kk[h[w].tx],
                     pc |-> IF kk[h[w].tx] = "none" THEN "end" ELSE "dedupe"]
    <2>1. h' = [h EXCEPT ![w] = x] /\ x.pc # "credit" /\ UNCHANGED points
      BY <1>1 DEF Verify
    <2> QED BY <2>1, NotToCredit
  <1>2. CASE End(w)
    BY <1>2, NotToCredit DEF End, Idle
  <1>3. CASE Dedupe(w) \/ Create(w) \/ Total(w) \/ Claim(w) \/ Ring(w) \/ Mark(w) \/ Refund(w) \/ CancelWrite(w)
    <2>1. PICK pc \in {"total", "create", "end", "mark", "claim", "ring", "check", "cancel", "revoke"} : Goto(w, pc)
      BY <1>3 DEF Dedupe, Create, Total, Claim, Ring, Mark, Refund, CancelWrite
    <2>2. UNCHANGED points
      BY <1>3 DEF Dedupe, Create, Total, Claim, Ring, Mark, Refund, CancelWrite
    <2> QED BY <2>1, <2>2, GotoNotCredit
  <1>4. CASE CheckPoints(w)
    <2>1. UNCHANGED points
      BY <1>4 DEF CheckPoints
    <2>2. CASE points.live > 0
      BY <1>4, <2>1, <2>2, GotoNotCredit DEF CheckPoints
    <2>3. CASE ~(points.live > 0)
      <3>1. points.live = 0
        BY <2>3 DEF PointsOK
      <3> QED BY <2>1, <3>1 DEF PointsOK
    <2> QED BY <2>2, <2>3
  <1>5. CASE Credit(w)
    <2>1. points.live = 0 /\ points' = [points EXCEPT !.live = @ + 1] /\ Goto(w, "end") /\ At(w, "credit")
      BY <1>5 DEF Credit, PointsOK
    <2>2. points' \in [live : {0, 1}, revoked : Nat]
      BY <2>1 DEF PointsOK
    <2>3. \A v \in Worker : ~At(v, "credit")'
      <3>1. w = b /\ \A v \in Worker \ {b} : ~At(v, "credit")
        BY <2>1, OnlyOneCredits
      <3> QED BY <2>1, <3>1 DEF IInv, HandlerOK, Handler, At, Goto
    <2> QED BY <2>2, <2>3 DEF PointsOK
  <1>6. CASE revokeEarnedPointsForOrder(w)
    <2>1. points' = [live |-> 0, revoked |-> points.revoked + points.live]
      BY <1>6 DEF revokeEarnedPointsForOrder
    <2> QED BY <2>1 DEF PointsOK
  <1> QED BY <1>1, <1>2, <1>3, <1>4, <1>5, <1>6 DEF Statement

LEMMA NextPoints ==
  ASSUME IInv, PointsOK, NEW b \in Worker, OneConfirms(b), [Next]_vars
  PROVE  PointsOK'
  <1>1. CASE (\E t \in Tx : CustomerPays(t) \/ IngestWebhook(t)) \/ Serve \/ UNCHANGED vars
    <2>1. UNCHANGED <<h, points>>
      BY <1>1 DEF CustomerPays, IngestWebhook, Serve, vars
    <2> QED BY <2>1, SamePoints DEF At
  <1>2. CASE \E w \in Worker, t \in Tx :
               \/ StartWebhook(w, t) \/ StartReconcile(w, t)
               \/ confirmPaymentManually(w, t) \/ payWithKkiapay(w, t) \/ StartRefund(w, t)
    <2>1. PICK w \in Worker, t \in Tx, k \in {"webhook", "cron", "manual", "app", "refund"},
               pc \in {"end", "verify", "refund"} : Begin(w, k, t, pc)
      BY <1>2 DEF StartWebhook, StartReconcile, confirmPaymentManually, payWithKkiapay, StartRefund, Found
    <2>2. UNCHANGED points
      BY <1>2 DEF StartWebhook, StartReconcile, confirmPaymentManually, payWithKkiapay, StartRefund
    <2> DEFINE x == [kind |-> k, pc |-> pc, tx |-> t, seen |-> "none"]
    <2>3. h' = [h EXCEPT ![w] = x] /\ x.pc # "credit"
      BY <2>1 DEF Begin
    <2> QED BY <2>2, <2>3, NotToCredit
  <1>3. CASE \E w \in Worker : StartCancel(w)
    <2>1. PICK w \in Worker, t \in Tx \cup {NONE} :
             h' = [h EXCEPT ![w] = [kind |-> "cancel", tx |-> t, seen |-> order.status,
                                    pc |-> IF t = NONE THEN "cancel" ELSE "refund"]]
      BY <1>3 DEF StartCancel, Refundable
    <2> DEFINE x == [kind |-> "cancel", tx |-> t, seen |-> order.status,
                     pc |-> IF t = NONE THEN "cancel" ELSE "refund"]
    <2>2. h' = [h EXCEPT ![w] = x] /\ x.pc # "credit" /\ UNCHANGED points
      BY <1>3, <2>1 DEF StartCancel
    <2> QED BY <2>2, NotToCredit
  <1>4. CASE \E w \in Worker : Fault(w)
    <2>1. PICK w \in Worker : h' = [h EXCEPT ![w] = Idle] /\ UNCHANGED points
      BY <1>4 DEF Fault
    <2> QED BY <2>1, NotToCredit DEF Idle
  <1>5. CASE \E w \in Worker : Statement(w)
    BY <1>5, StepPoints
  <1> QED BY <1>1, <1>2, <1>3, <1>4, <1>5 DEF Next

(* With one worker that confirms payments, a payment has its effects once, *)
(* however often it is retried, replayed or confirmed by hand, and however *)
(* many calls of the application, refunds and cancellations run meanwhile. *)
THEOREM EffectsAreUnique == ASSUME NEW b \in Worker, OneConfirms(b) PROVE Spec => []EffectsOnce
  <1>1. Init => PointsOK
    BY DEF Init, PointsOK, At, Idle
  <1>2. IInv /\ PointsOK /\ [Next]_vars => PointsOK'
    BY NextPoints
  <1>3. IInv /\ PointsOK => EffectsOnce
    BY DEF IInv, RingOK, PointsOK, EffectsOnce
  <1> QED BY <1>1, <1>2, <1>3, Inductive, PTL DEF Spec


-----------------------------------------------------------------------------
(* A confirmed order is covered. *)

CashedWeight == Weight([i \in Cashed |-> sum[rows[i].tx]], Cashed)

InBank(t) == kk[t] \in {"SUCCESS", "REVERTED"}

(* What was recorded or is about to be, and what was found sufficient.     *)
CoverInv ==
    /\ \A i \in Cashed : InBank(rows[i].tx)
    /\ \A w \in Worker : h[w].pc \in {"dedupe", "create"} /\ h[w].seen # "FAILED" => InBank(h[w].tx)
    /\ order.status \in {"ACCEPTED", "COMPLETED"} => CashedWeight >= Price
    /\ \A w \in Worker : h[w].pc = "claim" => CashedWeight >= Price

LEMMA RowsAre ==
  ASSUME NEW R \in Seq([tx : Tx, status : Money]), NEW S \in [Tx -> Amounts \cup {0}]
  PROVE  /\ DOMAIN R = 1 .. Len(R) /\ Len(R) \in Nat /\ IsFiniteSet(DOMAIN R)
         /\ \A i \in DOMAIN R : R[i] \in [tx : Tx, status : Money] /\ R[i].tx \in Tx
         /\ \A t \in Tx : S[t] \in Nat
  <1> DEFINE Row == [tx : Tx, status : Money]
  <1>1. R \in Seq(Row)
    OBVIOUS
  <1> HIDE DEF Row
  <1>2. DOMAIN R = 1 .. Len(R) /\ Len(R) \in Nat /\ \A i \in DOMAIN R : R[i] \in Row
    BY <1>1
  <1>3. IsFiniteSet(1 .. Len(R))
    BY <1>2, FS_Interval
  <1>4. ASSUME NEW t \in Tx PROVE S[t] \in Nat
    <2>1. S[t] \in Amounts \cup {0} /\ Amounts \subseteq Nat
      BY BoundsAssumption
    <2>2. S[t] \in Amounts => S[t] \in Nat
      BY <2>1
    <2> QED BY <2>1, <2>2
  <1> QED BY <1>2, <1>3, <1>4 DEF Row

LEMMA RowsTyped ==
  ASSUME IInv
  PROVE  /\ DOMAIN rows = 1 .. Len(rows) /\ Len(rows) \in Nat /\ IsFiniteSet(DOMAIN rows)
         /\ \A i \in DOMAIN rows : rows[i] \in [tx : Tx, status : Money] /\ rows[i].tx \in Tx
         /\ \A t \in Tx : sum[t] \in Nat
  BY RowsAre DEF IInv, RowsOK, BankOK

LEMMA CashedIs ==
  ASSUME IInv
  PROVE  /\ IsFiniteSet(Cashed) /\ \A i \in Cashed : rows[i].tx \in Tx /\ sum[rows[i].tx] \in Nat
         /\ CashedWeight \in Nat
         /\ SumFunction([i \in Cashed |-> sum[rows[i].tx]]) = CashedWeight
  <1>1. IsFiniteSet(Cashed)
    <2>1. Cashed \in SUBSET DOMAIN rows
      BY DEF Cashed
    <2> QED BY <2>1, RowsTyped, FS_Subset
  <1>2. \A i \in Cashed : rows[i].tx \in Tx /\ sum[rows[i].tx] \in Nat
    BY RowsTyped DEF Cashed
  <1>3. [i \in Cashed |-> sum[rows[i].tx]] \in [Cashed -> Nat]
    BY <1>2
  <1>4. CashedWeight \in Nat
    BY <1>1, <1>3, UnitsFinite DEF CashedWeight
  <1>5. SumFunction([i \in Cashed |-> sum[rows[i].tx]]) = CashedWeight
    BY <1>1, <1>3, SumIsWeight DEF SumFunction, CashedWeight
  <1> QED BY <1>1, <1>2, <1>4, <1>5

(* checkPaiement counts the rows in SUCCESS, which are cashed.             *)
LEMMA CoveredIsCashed ==
  ASSUME IInv, NEW w \in Worker, Covered(w)
  PROVE  CashedWeight >= Price
  <1> DEFINE D == DOMAIN rows
             v == [i \in D |-> IF rows[i].status = "SUCCESS" THEN sum[rows[i].tx] ELSE 0]
             c == [i \in Cashed |-> sum[rows[i].tx]]
  <1>1. \A i \in D : rows[i].tx \in Tx /\ sum[rows[i].tx] \in Nat
    BY RowsTyped
  <1>2. v \in [D -> Nat]
    BY <1>1
  <1>3. SumSuccess = Weight(v, D)
    BY <1>2, RowsTyped, SumIsWeight DEF SumSuccess, SumFunction
  <1>4. c \in [Cashed -> Nat] /\ IsFiniteSet(Cashed)
    BY CashedIs
  <1>5. \A i \in D : v[i] \in Nat /\ (v[i] # 0 => i \in Cashed /\ v[i] <= c[i])
    BY <1>1 DEF Cashed
  <1> HIDE DEF v, c, D
  <1>6. Weight(v, D) <= Weight(c, Cashed)
    BY <1>4, <1>5, WeightGrows
  <1>7. Weight(c, Cashed) \in Nat /\ Weight(v, D) \in Nat
    BY <1>2, <1>4, UnitsFinite, RowsTyped DEF D
  <1> QED BY <1>3, <1>6, <1>7, BoundsAssumption DEF Covered, CashedWeight, c

(* What KKiaPay has cashed keeps its amount.                               *)
LEMMA BankKeeps ==
  ASSUME IInv, Next
  PROVE  \A t \in Tx : InBank(t) => InBank(t)' /\ sum'[t] = sum[t]
  <1>1. CASE \E t \in Tx : CustomerPays(t)
    <2>1. PICK t \in Tx, st \in {"SUCCESS", "FAILED"}, a \in Amounts :
            kk[t] = "none" /\ kk' = [kk EXCEPT ![t] = st] /\ sum' = [sum EXCEPT ![t] = a]
      BY <1>1 DEF CustomerPays
    <2> QED BY <2>1 DEF InBank, IInv, BankOK
  <1>2. CASE \E w \in Worker : Refund(w)
    <2>1. PICK w \in Worker : Refund(w)
      BY <1>2
    <2>2. sum' = sum /\ (kk' = kk \/ kk' = [kk EXCEPT ![h[w].tx] = "REVERTED"])
      BY <2>1 DEF Refund
    <2> QED BY <2>2 DEF InBank, IInv, BankOK
  <1>3. UNCHANGED <<kk, sum>> \/ (\E t \in Tx : CustomerPays(t)) \/ \E w \in Worker : Refund(w)
    BY DEF Next, IngestWebhook, StartWebhook, StartReconcile, confirmPaymentManually, payWithKkiapay, StartRefund, StartCancel,
           Fault, Serve, Statement, Verify, Dedupe, Create, Total, Claim, Ring, CheckPoints, Credit, Mark, End, CancelWrite,
           revokeEarnedPointsForOrder
  <1>4. CASE UNCHANGED <<kk, sum>>
    BY <1>4 DEF InBank
  <1> QED BY <1>1, <1>2, <1>3, <1>4

(* A row that was cashed stays so; a new one is of a transaction cashed.   *)
KeptRow(i) == i \in DOMAIN rows' /\ rows'[i].status # "FAILED" /\ rows'[i].tx = rows[i].tx
RowsKept == /\ \A i \in Cashed : KeptRow(i)
            /\ \A i \in DOMAIN rows' : rows'[i].status # "FAILED" => kk'[rows'[i].tx] \in {"SUCCESS", "REVERTED"}

LEMMA CreateKeeps == ASSUME IInv, CoverInv, NEW w \in Worker, Create(w) PROVE RowsKept
  <1> DEFINE r == [tx |-> h[w].tx, status |-> h[w].seen]
  <1>1. /\ DOMAIN rows' = 1 .. Len(rows) + 1 /\ rows'[Len(rows) + 1] = r
        /\ \A i \in 1 .. Len(rows) : rows'[i] = rows[i]
    <2>1. h[w].tx \in Tx /\ h[w].seen \in Money
      BY HandlerFields DEF Create, At, HandlerInv, Recording
    <2>2. r \in [tx : Tx, status : Money]
      BY <2>1
    <2>3. rows' = Append(rows, r) /\ rows \in Seq([tx : Tx, status : Money])
      BY DEF Create, IInv, RowsOK
    <2> HIDE DEF r
    <2> QED BY <2>2, <2>3, AppendProperties
  <1>2. DOMAIN rows = 1 .. Len(rows) /\ Len(rows) \in Nat
    BY RowsTyped
  <1>3. r.tx = h[w].tx /\ r.status = h[w].seen
    OBVIOUS
  <1>4. r.status # "FAILED" => kk[r.tx] \in {"SUCCESS", "REVERTED"}
    BY <1>3 DEF CoverInv, Create, At, InBank
  <1>5. kk' = kk
    BY DEF Create
  <1>6. \A i \in DOMAIN rows : rows[i].status # "FAILED" => kk[rows[i].tx] \in {"SUCCESS", "REVERTED"}
    BY DEF CoverInv, Cashed, InBank
  <1> HIDE DEF r
  <1>7. ASSUME NEW i \in DOMAIN rows', rows'[i].status # "FAILED"
        PROVE  kk'[rows'[i].tx] \in {"SUCCESS", "REVERTED"}
    <2>1. i \in DOMAIN rows \/ i = Len(rows) + 1
      BY <1>1, <1>2
    <2> QED BY <1>1, <1>2, <1>4, <1>5, <1>6, <1>7, <2>1
  <1>8. \A i \in DOMAIN rows : i \in DOMAIN rows' /\ rows'[i] = rows[i]
    BY <1>1, <1>2
  <1> QED BY <1>7, <1>8 DEF RowsKept, KeptRow, Cashed

LEMMA RefundKeeps == ASSUME IInv, CoverInv, NEW w \in Worker, Refund(w) PROVE RowsKept
  <1>1. \A i \in DOMAIN rows : rows[i].status # "FAILED" => kk[rows[i].tx] \in {"SUCCESS", "REVERTED"}
    BY DEF CoverInv, Cashed, InBank
  <1>2. CASE UNCHANGED <<kk, rows>>
    BY <1>1, <1>2 DEF RowsKept, KeptRow, Cashed
  <1>3. CASE /\ h[w].tx \in Refundable /\ kk' = [kk EXCEPT ![h[w].tx] = "REVERTED"]
             /\ rows' = Revert(h[w].tx)
    <2>1. DOMAIN rows' = DOMAIN rows
      BY <1>3 DEF Revert
    <2>2. ASSUME NEW i \in DOMAIN rows
          PROVE  /\ rows'[i].tx = rows[i].tx
                 /\ rows'[i].status = IF rows[i].tx = h[w].tx THEN "REVERTED" ELSE rows[i].status
      <3>1. rows[i] \in [tx : Tx, status : Money]
        BY RowsTyped
      <3>2. rows'[i] = IF rows[i].tx = h[w].tx THEN [rows[i] EXCEPT !.status = "REVERTED"] ELSE rows[i]
        BY <1>3 DEF Revert
      <3> QED BY <3>1, <3>2
    <2>3. h[w].tx \in Tx /\ kk'[h[w].tx] = "REVERTED" /\ \A t \in Tx \ {h[w].tx} : kk'[t] = kk[t]
      BY <1>3 DEF Refundable, IInv, BankOK
    <2>4. \A i \in DOMAIN rows : rows[i].tx \in Tx
      BY RowsTyped
    <2> QED BY <1>1, <2>1, <2>2, <2>3, <2>4 DEF RowsKept, KeptRow, Cashed
  <1> QED BY <1>2, <1>3 DEF Refund

LEMMA RowsKeep == ASSUME IInv, CoverInv, Next PROVE RowsKept
  <1>1. UNCHANGED rows \/ \E w \in Worker : Create(w) \/ Refund(w)
    BY DEF Next, CustomerPays, IngestWebhook, StartWebhook, StartReconcile, confirmPaymentManually, payWithKkiapay, StartRefund,
           StartCancel, Fault, Serve, Statement, Verify, Dedupe, Total, Claim, Ring, CheckPoints, Credit, Mark, End, CancelWrite,
           revokeEarnedPointsForOrder
  <1>2. CASE UNCHANGED rows
    <2>1. ASSUME NEW i \in DOMAIN rows, rows[i].status # "FAILED" PROVE kk'[rows[i].tx] \in {"SUCCESS", "REVERTED"}
      <3>1. rows[i].tx \in Tx /\ InBank(rows[i].tx)
        BY <2>1, RowsTyped DEF CoverInv, Cashed
      <3> QED BY <3>1, BankKeeps DEF InBank
    <2> QED BY <1>2, <2>1 DEF RowsKept, KeptRow, Cashed
  <1> QED BY <1>1, <1>2, CreateKeeps, RefundKeeps

LEMMA CashedGrows ==
  ASSUME IInv, IInv', CoverInv, Next
  PROVE  CashedWeight >= Price => CashedWeight' >= Price
  <1>1. PICK c, d, C, D : /\ C = Cashed /\ c = [i \in C |-> sum[rows[i].tx]]
                          /\ D = Cashed' /\ d = [i \in D |-> sum'[rows'[i].tx]]
    OBVIOUS
  <1>2. CashedWeight = Weight(c, C) /\ CashedWeight' = Weight(d, D)
    BY <1>1 DEF CashedWeight
  <1>3. IsFiniteSet(D) /\ d \in [D -> Nat]
    <2>1. rows' \in Seq([tx : Tx, status : Money]) /\ sum' \in [Tx -> Amounts \cup {0}]
      BY DEF IInv, RowsOK, BankOK
    <2>2. /\ IsFiniteSet(DOMAIN rows') /\ \A i \in DOMAIN rows' : rows'[i].tx \in Tx
          /\ \A t \in Tx : sum'[t] \in Nat
      BY <2>1, RowsAre
    <2>3. D \in SUBSET DOMAIN rows'
      BY <1>1 DEF Cashed
    <2>4. IsFiniteSet(D)
      BY <2>2, <2>3, FS_Subset
    <2> QED BY <1>1, <2>2, <2>3, <2>4
  <1>4. CashedWeight \in Nat /\ \A i \in C : rows[i].tx \in Tx /\ c[i] \in Nat /\ InBank(rows[i].tx)
    BY <1>1, CashedIs DEF CoverInv
  <1>5. \A i \in C : i \in D /\ d[i] = c[i]
    <2>1. ASSUME NEW i \in C PROVE i \in D /\ d[i] = c[i]
      <3>1. KeptRow(i)
        BY <1>1, RowsKeep DEF RowsKept
      <3>2. i \in D
        BY <1>1, <3>1 DEF KeptRow, Cashed
      <3>3. sum'[rows[i].tx] = sum[rows[i].tx]
        BY <1>4, BankKeeps
      <3> QED BY <1>1, <3>1, <3>2, <3>3 DEF KeptRow
    <2> QED BY <2>1
  <1>6. Weight(c, C) <= Weight(d, D) /\ Weight(d, D) \in Nat
    BY <1>3, <1>4, <1>5, WeightGrows, UnitsFinite
  <1> QED BY <1>2, <1>4, <1>6, BoundsAssumption

LEMMA InitCover == Init => CoverInv
  BY DEF Init, CoverInv, Cashed, Idle

(* How a handler gets to record a transaction or to claim the order.       *)
LEMMA HandlersMove ==
  ASSUME IInv, Next, NEW w \in Worker
  PROVE  \/ h'[w] = h[w]
         \/ h'[w].pc \notin {"dedupe", "create", "claim"}
         \/ Verify(w) \/ Dedupe(w) \/ Total(w)
  <1>1. \A v \in Worker : h[v] \in Handler /\ h \in [Worker -> Handler]
    BY DEF IInv, HandlerOK
  <1>2. CASE UNCHANGED h
    BY <1>2
  <1>3. CASE \E v \in Worker, t \in Tx :
               \/ StartWebhook(v, t) \/ StartReconcile(v, t)
               \/ confirmPaymentManually(v, t) \/ payWithKkiapay(v, t) \/ StartRefund(v, t)
    <2>1. PICK v \in Worker, pc \in {"end", "verify", "refund"} :
            \E k, t : h' = [h EXCEPT ![v] = [kind |-> k, pc |-> pc, tx |-> t, seen |-> "none"]]
      BY <1>3 DEF StartWebhook, StartReconcile, confirmPaymentManually, payWithKkiapay, StartRefund, Begin, Found
    <2> QED BY <1>1, <2>1
  <1>4. CASE \E v \in Worker : StartCancel(v)
    <2>1. PICK v \in Worker, pc \in {"cancel", "refund"} :
            \E t : h' = [h EXCEPT ![v] = [kind |-> "cancel", tx |-> t, seen |-> order.status, pc |-> pc]]
      BY <1>4 DEF StartCancel
    <2> QED BY <1>1, <2>1
  <1>5. CASE \E v \in Worker : End(v) \/ Fault(v)
    BY <1>1, <1>5 DEF End, Fault, Idle
  <1>6. CASE \E v \in Worker : Verify(v) \/ Dedupe(v) \/ Total(v)
    BY <1>1, <1>6 DEF Verify, Dedupe, Total, Goto
  <1>7. CASE \E v \in Worker :
               \/ Create(v) \/ Claim(v) \/ Ring(v) \/ CheckPoints(v) \/ Credit(v) \/ Mark(v)
               \/ Refund(v) \/ CancelWrite(v) \/ revokeEarnedPointsForOrder(v)
    <2>1. PICK v \in Worker, pc \in Steps \ {"dedupe", "create", "claim"} : h' = [h EXCEPT ![v].pc = pc]
      BY <1>7 DEF Create, Claim, Ring, CheckPoints, Credit, Mark, Refund, CancelWrite, revokeEarnedPointsForOrder, Goto,
             Steps, Confirming, Recording
    <2>2. h[v] \in [kind : {"none", "webhook", "cron", "manual", "app", "refund", "cancel"}, pc : Steps,
                    tx : Tx \cup {NONE}, seen : {"none"} \cup Money \cup Statuses]
      BY <1>1 DEF Handler
    <2>3. h'[v].pc = pc /\ (v # w => h'[w] = h[w])
      BY <1>1, <2>1, <2>2
    <2> QED BY <2>1, <2>3
  <1> QED BY <1>2, <1>3, <1>4, <1>5, <1>6, <1>7
          DEF Next, Statement, CustomerPays, IngestWebhook, Serve

LEMMA CoverRecorded ==
  ASSUME IInv, CoverInv, Next, NEW w \in Worker, h'[w].pc \in {"dedupe", "create"}, h'[w].seen # "FAILED"
  PROVE  kk'[h'[w].tx] \in {"SUCCESS", "REVERTED"}
  <1>1. h[w].pc \in {"dedupe", "create"} => h[w].tx \in Tx
    BY HandlerFields DEF HandlerInv, Recording
  <1>2. h[w] \in Handler /\ h \in [Worker -> Handler]
    BY DEF IInv, HandlerOK
  <1>3. CASE Verify(w)
    <2>1. /\ h' = [h EXCEPT ![w] = [kind |-> h[w].kind, tx |-> h[w].tx, seen |-> kk[h[w].tx],
                          pc |-> IF kk[h[w].tx] = "none" THEN "end" ELSE "dedupe"]]
          /\ kk' = kk /\ h[w].pc = "verify"
      BY <1>3 DEF Verify, At
    <2>2. h[w].tx \in Tx
      BY <2>1, HandlerFields DEF HandlerInv, Recording
    <2>3. kk[h[w].tx] \in {"none"} \cup Money
      BY <2>2 DEF IInv, BankOK
    <2>4. h'[w].seen = kk[h[w].tx] /\ h'[w].tx = h[w].tx /\ kk[h[w].tx] # "none"
      BY <1>2, <2>1
    <2> QED BY <2>1, <2>3, <2>4 DEF Money
  <1>4. CASE h'[w] = h[w]
    BY <1>1, <1>4, BankKeeps DEF CoverInv, InBank
  <1>5. CASE Dedupe(w)
    <2>1. PICK pc \in Steps : h' = [h EXCEPT ![w].pc = pc] /\ h[w].pc = "dedupe" /\ kk' = kk
      BY <1>5 DEF Dedupe, Goto, At, Steps, Recording
    <2>2. h'[w].tx = h[w].tx /\ h'[w].seen = h[w].seen
      BY <1>2, <2>1 DEF Handler
    <2> QED BY <2>1, <2>2 DEF CoverInv, InBank
  <1>6. CASE Total(w)
    <2>1. PICK pc \in {"end", "mark", "claim"} : h' = [h EXCEPT ![w].pc = pc]
      BY <1>6 DEF Total, Goto
    <2>2. h'[w].pc = pc
      BY <1>2, <2>1 DEF Handler
    <2> QED BY <2>2
  <1> QED BY <1>3, <1>4, <1>5, <1>6, HandlersMove

LEMMA StatusMoves ==
  ASSUME IInv, Next, order'.status \in {"ACCEPTED", "COMPLETED"}
  PROVE  order.status \in {"ACCEPTED", "COMPLETED"} \/ \E w \in Worker : Claim(w)
  <1>1. order \in [status : Statuses, paied : BOOLEAN, deleted : BOOLEAN]
    BY DEF IInv, OrderOK
  <1>2. CASE UNCHANGED order
    BY <1>2
  <1>3. CASE Serve
    BY <1>3 DEF Serve
  <1>4. CASE \E w \in Worker : Mark(w)
    BY <1>1, <1>4 DEF Mark
  <1>5. CASE \E w \in Worker : CancelWrite(w)
    BY <1>1, <1>5 DEF CancelWrite
  <1>6. CASE \E w \in Worker : Refund(w) /\ ~UNCHANGED order
    <2>1. PICK b : order' = [order EXCEPT !.paied = b]
      BY <1>6 DEF Refund
    <2> QED BY <1>1, <2>1
  <1> QED BY <1>2, <1>3, <1>4, <1>5, <1>6
          DEF Next, Statement, CustomerPays, IngestWebhook, StartWebhook, StartReconcile, confirmPaymentManually,
              payWithKkiapay, StartRefund, StartCancel, Fault, Verify, Dedupe, Create, Total, Ring, CheckPoints, Credit, End,
              revokeEarnedPointsForOrder

LEMMA NextCover == IInv /\ IInv' /\ CoverInv /\ [Next]_vars => CoverInv'
  <1> SUFFICES ASSUME IInv, IInv', CoverInv, [Next]_vars PROVE CoverInv'
    OBVIOUS
  <1>1. CASE UNCHANGED vars
    <2>1. UNCHANGED <<order, kk, sum, rows, h>>
      BY <1>1 DEF vars
    <2>2. Cashed' = Cashed
      BY <2>1 DEF Cashed
    <2>3. CashedWeight' = CashedWeight
      BY <2>1, <2>2 DEF CashedWeight
    <2> QED BY <2>1, <2>2, <2>3 DEF CoverInv, InBank
  <1>2. CASE Next
    <2>1. (\A i \in Cashed : InBank(rows[i].tx))'
      <3>1. \A i \in DOMAIN rows' : rows'[i].status # "FAILED" => kk'[rows'[i].tx] \in {"SUCCESS", "REVERTED"}
        BY <1>2, RowsKeep DEF RowsKept
      <3>2. \A i : i \in Cashed' => i \in DOMAIN rows' /\ rows'[i].status # "FAILED"
        BY DEF Cashed
      <3> QED BY <3>1, <3>2 DEF InBank
    <2>2. \A w \in Worker : (h[w].pc \in {"dedupe", "create"} /\ h[w].seen # "FAILED" => InBank(h[w].tx))'
      BY <1>2, CoverRecorded DEF InBank
    <2>3. ASSUME order'.status \in {"ACCEPTED", "COMPLETED"} PROVE CashedWeight' >= Price
      <3>1. CashedWeight >= Price
        BY <1>2, <2>3, StatusMoves DEF CoverInv, Claim, At
      <3> QED BY <1>2, <3>1, CashedGrows
    <2>4. ASSUME NEW w \in Worker, h'[w].pc = "claim" PROVE CashedWeight' >= Price
      <3>1. CASE h'[w] = h[w]
        BY <1>2, <2>4, <3>1, CashedGrows DEF CoverInv
      <3>2. CASE Total(w)
        <4>1. Covered(w)
          <5>1. ASSUME ~Covered(w) PROVE FALSE
            <6>1. h' = [h EXCEPT ![w].pc = "end"]
              BY <3>2, <5>1 DEF Total, Goto
            <6>2. h[w] \in Handler /\ h \in [Worker -> Handler]
              BY DEF IInv, HandlerOK
            <6> QED BY <2>4, <6>1, <6>2 DEF Handler
          <5> QED BY <5>1
        <4> QED BY <1>2, <4>1, CoveredIsCashed, CashedGrows
      <3>3. CASE Verify(w) \/ Dedupe(w)
        <4>1. h[w] \in Handler /\ h \in [Worker -> Handler]
          BY DEF IInv, HandlerOK
        <4> QED BY <2>4, <3>3, <4>1 DEF Handler, Verify, Dedupe, Goto
      <3> QED BY <1>2, <2>4, <3>1, <3>2, <3>3, HandlersMove
    <2> QED BY <2>1, <2>2, <2>3, <2>4 DEF CoverInv
  <1> QED BY <1>1, <1>2

(* An order is confirmed only on rows KKiaPay has cashed that cover its    *)
(* price: for any transactions and amounts, whatever webhooks, cron,       *)
(* administrator, refunds and errors interleave.                           *)
THEOREM ConfirmedCovered == Spec => []ConfirmedIsCovered
  <1>1. IInv /\ CoverInv => ConfirmedIsCovered
    <2> SUFFICES ASSUME IInv, CoverInv PROVE ConfirmedIsCovered
      OBVIOUS
    <2>1. SumFunction([i \in Cashed |-> sum[rows[i].tx]]) = CashedWeight
      BY CashedIs
    <2> QED BY <2>1 DEF CoverInv, ConfirmedIsCovered, InBank
  <1> QED BY <1>1, InitCover, NextCover, Inductive, PTL DEF Spec

=============================================================================
