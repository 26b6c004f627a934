------------------------- MODULE CustomerCredit_proofs -------------------------
(***************************************************************************)
(* What a customer has to spend: his points (LoyaltyLedger), his promo     *)
(* code and his voucher (Coupons), what he wins with an order              *)
(* (ScratchGame).                                                          *)
(***************************************************************************)
EXTENDS LoyaltyLedger, Coupons, ScratchGame, SumTheorems, SequenceTheorems, FiniteSetTheorems

-----------------------------------------------------------------------------
(***************************************************************************)
(* The points.                                                             *)
(*                                                                         *)
(* Three layers, by what they ask of the handlers.                         *)
(*                                                                         *)
(* The level of a customer follows the points of the year however many     *)
(* handlers run at once: the transaction that changes the points holds the *)
(* customer and reads the level again (LevelInv).                          *)
(*                                                                         *)
(* What the orders redeemed is what the rows say was used, for any number  *)
(* of handlers whose transactions do not overlap: a transaction is one     *)
(* step of the model, and the rows it takes are read in it (RowInv).       *)
(*                                                                         *)
(* Run one after the other, the handlers also keep the counter and the     *)
(* ledger together and charge an order once (LInv).  They look before      *)
(* their transaction and not again in it, so that two at once retire a row *)
(* with what it had left before, or charge an order twice.                 *)
(***************************************************************************)

(* What the code promises of the constants: no payment is credited that    *)
(* earns nothing, and the thresholds are numbers of points.                *)
Figures ==
    /\ Earns \in [Order -> Nat \ {0}] /\ Spends \in [Order -> Nat]
    /\ Bonus \in [ToSet(Levels) -> Nat]
    /\ VipAt \in Nat /\ VvipAt \in Nat
    /\ None \notin ToSet(Levels)

OneWorker == \E w : Worker = {w}

-----------------------------------------------------------------------------
(* Rows, and what they weigh together. *)

Open(r) == r.type \in {"EARNED", "BONUS"} /\ ~r.yes

LRow == {r \in [order : Order \union {None}, type : {"EARNED", "BONUS", "EXPIRED", "REDEEMED"},
                points : Nat, used : Nat, yes : BOOLEAN] :
            r.used <= r.points /\ (r.yes <=> (r.used = r.points \/ r.type = "EXPIRED"))}

Worth(led)    == [i \in DOMAIN led |-> IF Open(led[i]) THEN led[i].points - led[i].used ELSE 0]
Charged(led)  == [i \in DOMAIN led |-> IF led[i].type = "REDEEMED" THEN led[i].points ELSE 0]
Consumed(led) == [i \in DOMAIN led |-> IF led[i].type = "REDEEMED" THEN 0 ELSE led[i].used]

Balance(led)     == Weight(Worth(led), DOMAIN led)
RedeemedSum(led) == Weight(Charged(led), DOMAIN led)
UsedSum(led)     == Weight(Consumed(led), DOMAIN led)

Once(led) ==
    \A i, j \in DOMAIN led :
        (led[i].type = "REDEEMED" /\ led[j].type = "REDEEMED" /\ led[i].order = led[j].order) => i = j

Account == [total : Nat, status : Nat, level : ToSet(Levels) \union {None}]

(* The counters a and the rows led tell the same story.                    *)
Agrees(a, led) ==
    /\ a \in Account /\ led \in Seq(LRow)
    /\ a.total = Balance(led)
    /\ Once(led)

LEMMA Domains ==
  ASSUME NEW led \in Seq(LRow)
  PROVE  /\ DOMAIN led = 1 .. Len(led) /\ Len(led) \in Nat /\ IsFiniteSet(DOMAIN led)
         /\ \A i \in DOMAIN led : led[i] \in LRow
         /\ Worth(led) \in [DOMAIN led -> Nat]
         /\ Charged(led) \in [DOMAIN led -> Nat]
         /\ Consumed(led) \in [DOMAIN led -> Nat]
  <1>1. DOMAIN led = 1 .. Len(led) /\ Len(led) \in Nat /\ \A i \in DOMAIN led : led[i] \in LRow
    OBVIOUS
  <1>2. IsFiniteSet(1 .. Len(led))
    BY <1>1, FS_Interval
  <1>3. \A i \in DOMAIN led : led[i].points \in Nat /\ led[i].used \in Nat /\ led[i].points - led[i].used \in Nat
    BY <1>1 DEF LRow
  <1> QED BY <1>1, <1>2, <1>3 DEF Worth, Charged, Consumed

(* A row is added.                                                         *)
LEMMA RowAdded ==
  ASSUME NEW led \in Seq(LRow), NEW r \in LRow
  PROVE  /\ Append(led, r) \in Seq(LRow)
         /\ Balance(Append(led, r)) = Balance(led) + (IF Open(r) THEN r.points - r.used ELSE 0)
         /\ RedeemedSum(Append(led, r)) = RedeemedSum(led) + (IF r.type = "REDEEMED" THEN r.points ELSE 0)
         /\ UsedSum(Append(led, r)) = UsedSum(led) + (IF r.type = "REDEEMED" THEN 0 ELSE r.used)
  <1> DEFINE n == Len(led)
             new == Append(led, r)
  <1>1. new \in Seq(LRow) /\ Len(new) = n + 1 /\ new[n + 1] = r /\ \A i \in 1 .. n : new[i] = led[i]
    OBVIOUS
  <1>2. DOMAIN led = 1 .. n /\ n \in Nat
    BY Domains
  <1>3. DOMAIN new = 1 .. n + 1
    BY <1>1
  <1> HIDE DEF new
  <1>4. Worth(led) \in [1 .. n -> Nat] /\ Charged(led) \in [1 .. n -> Nat] /\ Consumed(led) \in [1 .. n -> Nat]
    BY <1>2, Domains
  <1>5. Worth(new) \in [1 .. n + 1 -> Nat] /\ Charged(new) \in [1 .. n + 1 -> Nat] /\ Consumed(new) \in [1 .. n + 1 -> Nat]
    BY <1>1, <1>3, Domains
  <1>6. \A i \in 1 .. n : Worth(new)[i] = Worth(led)[i] /\ Charged(new)[i] = Charged(led)[i] /\ Consumed(new)[i] = Consumed(led)[i]
    BY <1>1, <1>2, <1>3 DEF Worth, Charged, Consumed
  <1>7. /\ Worth(new)[n + 1] = IF Open(r) THEN r.points - r.used ELSE 0
        /\ Charged(new)[n + 1] = IF r.type = "REDEEMED" THEN r.points ELSE 0
        /\ Consumed(new)[n + 1] = IF r.type = "REDEEMED" THEN 0 ELSE r.used
    BY <1>1, <1>2, <1>3 DEF Worth, Charged, Consumed
  <1>8. Weight(Worth(new), 1 .. n + 1) = Weight(Worth(led), 1 .. n) + Worth(new)[n + 1]
    BY <1>2, <1>4, <1>5, <1>6, WeightAppend
  <1>9. Weight(Charged(new), 1 .. n + 1) = Weight(Charged(led), 1 .. n) + Charged(new)[n + 1]
    BY <1>2, <1>4, <1>5, <1>6, WeightAppend
  <1>10. Weight(Consumed(new), 1 .. n + 1) = Weight(Consumed(led), 1 .. n) + Consumed(new)[n + 1]
    BY <1>2, <1>4, <1>5, <1>6, WeightAppend
  <1> QED BY <1>1, <1>2, <1>3, <1>7, <1>8, <1>9, <1>10 DEF Balance, RedeemedSum, UsedSum, new

(* A gain is added to the counter and to the rows.                         *)
LEMMA Gained ==
  ASSUME NEW a, NEW led, Agrees(a, led), NEW b \in Account,
         NEW o \in Order \union {None}, NEW type \in {"EARNED", "BONUS"}, NEW n \in Nat, n > 0,
         b.total = a.total + n
  PROVE  Agrees(b, Append(led, Row(o, type, n)))
  <1> DEFINE r == Row(o, type, n)
  <1>1. r \in LRow /\ Open(r) /\ r.points = n /\ r.used = 0 /\ r.type # "REDEEMED"
    BY DEF Row, LRow, Open
  <1> HIDE DEF r
  <1>2. led \in Seq(LRow) /\ a.total = Balance(led) /\ Once(led)
    BY DEF Agrees
  <1>3. Append(led, r) \in Seq(LRow) /\ Balance(Append(led, r)) = Balance(led) + n
    BY <1>1, <1>2, RowAdded
  <1>4. Once(Append(led, r))
    <2>1. DOMAIN Append(led, r) = 1 .. Len(led) + 1 /\ DOMAIN led = 1 .. Len(led)
      BY <1>2, <1>3
    <2>2. Append(led, r)[Len(led) + 1] = r /\ \A i \in 1 .. Len(led) : Append(led, r)[i] = led[i]
      BY <1>2
    <2> QED BY <1>1, <1>2, <2>1, <2>2 DEF Once
  <1> QED BY <1>2, <1>3, <1>4 DEF Agrees, r

(* updateCustomerLoyaltyLevel keeps them together, with the bonus it adds; *)
(* it leaves the rows there were.                                          *)
LEMMA Levelled ==
  ASSUME Figures, NEW a, NEW led, Agrees(a, led), NEW o \in Order \union {None},
         updateCustomerLoyaltyLevel(a, led, o)
  PROVE  /\ Agrees(acct', ledger')
         /\ Len(ledger') \in {Len(led), Len(led) + 1}
         /\ \A i \in DOMAIN led : ledger'[i] = led[i]
         /\ \A i \in DOMAIN ledger' \ DOMAIN led : ledger'[i].type = "BONUS"
  <1> DEFINE new == NewLevel(a)
             bonus == IF Tier(new) > Tier(a.level) THEN Bonus[new] ELSE 0
  <1>1. new \in ToSet(Levels)
    BY DEF NewLevel, computeLoyaltyLevel, ToSet, Levels
  <1>2. bonus \in Nat
    BY <1>1 DEF Figures
  <1>3. acct' = [a EXCEPT !.level = new, !.total = @ + bonus]
        /\ ledger' = IF bonus > 0 THEN Append(led, Row(o, "BONUS", bonus)) ELSE led
    BY DEF updateCustomerLoyaltyLevel
  <1>4. a \in Account /\ led \in Seq(LRow)
    BY DEF Agrees
  <1> HIDE DEF new, bonus
  <1>5. acct' \in Account /\ acct'.total = a.total + bonus
    <2>1. a.total \in Nat /\ a.total + bonus \in Nat
      BY <1>2, <1>4 DEF Account
    <2>2. a = [total |-> a.total, status |-> a.status, level |-> a.level] /\ a.status \in Nat
      BY <1>4 DEF Account
    <2>3. acct' = [total |-> a.total + bonus, status |-> a.status, level |-> new]
      BY <1>3, <2>2
    <2> QED BY <1>1, <2>1, <2>2, <2>3 DEF Account
  <1>6. CASE bonus > 0
    <2>1. Agrees(acct', ledger')
      BY <1>2, <1>3, <1>5, <1>6, Gained
    <2>2. ledger' = Append(led, Row(o, "BONUS", bonus))
      BY <1>3, <1>6
    <2>3. Len(ledger') = Len(led) + 1 /\ DOMAIN ledger' = 1 .. Len(led) + 1 /\ DOMAIN led = 1 .. Len(led) /\ Len(led) \in Nat
      BY <1>4, <2>2
    <2>4. ledger'[Len(led) + 1] = Row(o, "BONUS", bonus) /\ \A i \in 1 .. Len(led) : ledger'[i] = led[i]
      BY <1>4, <2>2
    <2> QED BY <2>1, <2>3, <2>4 DEF Row
  <1>7. CASE ~(bonus > 0)
    <2>1. bonus = 0 /\ ledger' = led
      BY <1>2, <1>3, <1>7
    <2>2. acct'.total = a.total
      BY <1>4, <1>5, <2>1 DEF Account
    <2> QED BY <1>4, <1>5, <2>1, <2>2 DEF Agrees
  <1> QED BY <1>6, <1>7

-----------------------------------------------------------------------------
(* The sums of the model. *)

(* What the open rows of a set have left.                                  *)
LEMMA SumOfOpen ==
  ASSUME ledger \in Seq(LRow), NEW S \in SUBSET DOMAIN ledger, \A i \in S : Live(i)
  PROVE  SumLeft(S) = Weight(Worth(ledger), S) /\ IsFiniteSet(S)
  <1> DEFINE w == [i \in S |-> Left(i)]
  <1>1. IsFiniteSet(S)
    BY Domains, FS_Subset
  <1>2. \A i \in S : Left(i) = Worth(ledger)[i] /\ Worth(ledger)[i] \in Nat
    BY Domains DEF Left, Live, Worth, Open
  <1>3. w \in [S -> Nat]
    BY <1>2
  <1>4. SumLeft(S) = Weight(w, S)
    BY <1>1, <1>3, SumIsWeight DEF SumLeft, SumFunction
  <1>5. Weight(Worth(ledger), S) = Weight(w, S)
    BY <1>2, WeightRest
  <1> QED BY <1>1, <1>4, <1>5

LEMMA BalanceSummed ==
  ASSUME ledger \in Seq(LRow)
  PROVE  Balance(ledger) = SumLeft({i \in DOMAIN ledger : Live(i)})
  <1> DEFINE S == {i \in DOMAIN ledger : Live(i)}
  <1>1. SumLeft(S) = Weight(Worth(ledger), S)
    BY SumOfOpen
  <1>2. \A i \in DOMAIN ledger \ S : Worth(ledger)[i] = 0
    BY DEF Worth, Live, Open
  <1>3. Weight(Worth(ledger), DOMAIN ledger) = Weight(Worth(ledger), S)
    BY <1>2, WeightRest
  <1> QED BY <1>1, <1>3 DEF Balance

-----------------------------------------------------------------------------
(* Spending: the rows are taken in order until the order is paid. *)

LEMMA LastOf ==
  ASSUME ledger \in Seq(LRow), NEW D \in SUBSET Usable, D # {}
  PROVE  \E m \in D : \A i \in D \ {m} : Before(i, m)
  <1>1. \A i \in D : i \in Nat /\ ledger[i].type \in {"EARNED", "BONUS"}
    BY Domains DEF Usable, Live
  <1>2. \A i, j \in D : i = j \/ Before(i, j) \/ Before(j, i)
    BY <1>1 DEF Before
  <1>3. \A i, j, k \in D : Before(i, j) /\ Before(j, k) => Before(i, k)
    BY <1>1 DEF Before
  <1>4. IsFiniteSet(D)
    BY Domains, FS_Subset DEF Usable
  <1> DEFINE B == {s \in SUBSET D : s # {} /\ ~\E m \in s : \A i \in s \ {m} : Before(i, m)}
  <1>5. ASSUME B # {} PROVE FALSE
    <2>1. PICK s \in B : \A x \in s : s \ {x} \notin B
      BY <1>4, <1>5, LeastSubset
    <2>2. PICK x \in s : TRUE
      BY <2>1
    <2>3. CASE s \ {x} = {}
      BY <2>1, <2>2, <2>3
    <2>4. CASE s \ {x} # {}
      <3>1. PICK m \in s \ {x} : \A i \in s \ {x, m} : Before(i, m)
        BY <2>1, <2>4
      <3>2. CASE Before(x, m)
        BY <2>1, <3>1, <3>2
      <3>3. CASE Before(m, x)
        <4>1. \A i \in s \ {x} : Before(i, x)
          BY <1>3, <2>1, <2>2, <3>1, <3>3
        <4> QED BY <2>1, <4>1
      <3> QED BY <1>2, <2>1, <2>2, <3>1, <3>2, <3>3
    <2> QED BY <2>3, <2>4
  <1> QED BY <1>5

Takings(n) == [i \in DOMAIN ledger |-> Taken(n, i)]

LEMMA TakenTyped ==
  ASSUME ledger \in Seq(LRow), NEW n \in Nat
  PROVE  /\ Takings(n) \in [DOMAIN ledger -> Nat]
         /\ \A i \in DOMAIN ledger : Taken(n, i) <= Worth(ledger)[i]
         /\ \A i \in DOMAIN ledger \ Usable : Taken(n, i) = 0
  <1> SUFFICES ASSUME NEW i \in DOMAIN ledger
               PROVE  /\ Taken(n, i) \in Nat /\ Taken(n, i) <= Worth(ledger)[i]
                      /\ i \notin Usable => Taken(n, i) = 0
    BY DEF Takings
  <1> DEFINE S == {j \in Usable : Before(j, i)}
  <1>1. S \in SUBSET DOMAIN ledger /\ \A j \in S : Live(j)
    BY DEF Usable
  <1>2. SumLeft(S) \in Nat
    <2>1. SumLeft(S) = Weight(Worth(ledger), S)
      BY <1>1, SumOfOpen
    <2>2. Weight(Worth(ledger), S) \in Nat
      BY <1>1, Domains, UnitsFinite
    <2> QED BY <2>1, <2>2
  <1>3. Worth(ledger)[i] \in Nat
    BY Domains
  <1>4. i \in Usable => Worth(ledger)[i] = Left(i)
    BY DEF Usable, Worth, Live, Open, Left
  <1>5. Taken(n, i) = IF i \notin Usable \/ SumLeft(S) >= n THEN 0 ELSE Lower(Left(i), n - SumLeft(S))
    BY DEF Taken
  <1> HIDE DEF S
  <1> QED BY <1>2, <1>3, <1>4, <1>5 DEF Lower

(* The rows taken first give what they have, until n is reached.           *)
LEMMA TakenFirst ==
  ASSUME ledger \in Seq(LRow), NEW n \in Nat, NEW s \in SUBSET Usable,
         \A j \in s, i \in Usable : Before(i, j) => i \in s
  PROVE  Weight(Takings(n), s) = Lower(n, Weight(Worth(ledger), s))
  <1> DEFINE Closed(t) == \A j \in t, i \in Usable : Before(i, j) => i \in t
             w == Worth(ledger)
             B == {t \in SUBSET Usable : Closed(t) /\ Weight(Takings(n), t) # Lower(n, Weight(w, t))}
  <1>1. IsFiniteSet(Usable) /\ Usable \in SUBSET DOMAIN ledger
    BY Domains, FS_Subset DEF Usable
  <1>2. w \in [DOMAIN ledger -> Nat] /\ Takings(n) \in [DOMAIN ledger -> Nat] /\ IsFiniteSet(DOMAIN ledger)
    BY Domains, TakenTyped
  <1>3. ASSUME B # {} PROVE FALSE
    <2>1. PICK t \in B : \A x \in t : t \ {x} \notin B
      <3>1. B \subseteq SUBSET Usable
        OBVIOUS
      <3> HIDE DEF B
      <3> QED BY <1>1, <1>3, <3>1, LeastSubset
    <2>2. t # {}
      <3>1. Weight(Takings(n), {}) = 0 /\ Weight(w, {}) = 0
        BY WeightNone
      <3> QED BY <2>1, <3>1 DEF Lower
    <2>3. PICK m \in t : \A i \in t \ {m} : Before(i, m)
      BY <2>1, <2>2, LastOf
    <2>4. \A i \in Usable : ledger[i].type \in {"EARNED", "BONUS"} /\ i \in Nat
      BY Domains DEF Usable, Live
    <2>5. m \in Usable /\ t \in SUBSET Usable /\ Closed(t)
      BY <2>1
    <2>6. \A i \in t : Before(i, m) => ~Before(m, i)
      BY <2>4, <2>5 DEF Before
    <2>7. Closed(t \ {m})
      <3>1. \A j \in t \ {m} : ~Before(m, j)
        BY <2>3, <2>4, <2>5, <2>6
      <3> QED BY <2>5, <3>1
    <2>8. {j \in Usable : Before(j, m)} = t \ {m}
      <3>1. ~Before(m, m)
        BY <2>4, <2>5 DEF Before
      <3> QED BY <2>3, <2>5, <3>1
    <2>9. Weight(Takings(n), t \ {m}) = Lower(n, Weight(w, t \ {m}))
      BY <2>1, <2>5, <2>7
    <2>10. SumLeft(t \ {m}) = Weight(w, t \ {m})
      <3>1. t \ {m} \in SUBSET DOMAIN ledger /\ \A i \in t \ {m} : Live(i)
        BY <2>5 DEF Usable
      <3> QED BY <3>1, SumOfOpen
    <2>11. Taken(n, m) = IF Weight(w, t \ {m}) >= n THEN 0 ELSE Lower(Left(m), n - Weight(w, t \ {m}))
      BY <2>5, <2>8, <2>10 DEF Taken
    <2>12. Left(m) = w[m] /\ w[m] \in Nat /\ Takings(n)[m] = Taken(n, m)
      BY <1>1, <1>2, <2>5 DEF Usable, Worth, Live, Open, Left, Takings
    <2>13. /\ Weight(Takings(n), t) = Weight(Takings(n), t \ {m}) + Takings(n)[m]
           /\ Weight(w, t) = Weight(w, t \ {m}) + w[m]
      <3>1. t \in SUBSET DOMAIN ledger /\ m \in t
        BY <1>1, <2>5
      <3> HIDE DEF w
      <3> QED BY <1>2, <3>1, WeightSplit
    <2>14. Weight(w, t \ {m}) \in Nat
      BY <1>1, <1>2, <2>5, UnitsFinite
    <2>15. Weight(Takings(n), t) # Lower(n, Weight(w, t))
      BY <2>1
    <2> HIDE DEF w
    <2> QED BY <2>9, <2>11, <2>12, <2>13, <2>14, <2>15 DEF Lower
  <1> QED BY <1>3

LEMMA TakenAll ==
  ASSUME ledger \in Seq(LRow), NEW n \in Nat, SumLeft(Usable) >= n
  PROVE  Weight(Takings(n), DOMAIN ledger) = n
  <1>1. Usable \in SUBSET DOMAIN ledger /\ \A i \in Usable : Live(i)
    BY DEF Usable
  <1>2. SumLeft(Usable) = Weight(Worth(ledger), Usable)
    BY <1>1, SumOfOpen
  <1>3. Weight(Worth(ledger), Usable) \in Nat
    BY <1>1, Domains, UnitsFinite
  <1>4. Weight(Takings(n), Usable) = n
    BY <1>2, <1>3, TakenFirst DEF Lower
  <1>5. \A i \in DOMAIN ledger \ Usable : Takings(n)[i] = 0
    BY TakenTyped DEF Takings
  <1> QED BY <1>1, <1>4, <1>5, WeightRest

(* The rows give n points and keep all the rest.                           *)
LEMMA RowsSpent ==
  ASSUME ledger \in Seq(LRow), NEW n \in Nat, SumLeft(Usable) >= n
  PROVE  /\ Spent(n) \in Seq(LRow) /\ Len(Spent(n)) = Len(ledger)
         /\ \A i \in DOMAIN ledger : Spent(n)[i].type = ledger[i].type /\ Spent(n)[i].order = ledger[i].order
         /\ Balance(ledger) = Balance(Spent(n)) + n
         /\ UsedSum(Spent(n)) = UsedSum(ledger) + n
         /\ RedeemedSum(Spent(n)) = RedeemedSum(ledger)
  <1> DEFINE D == DOMAIN ledger
             led == Spent(n)
             t == Takings(n)
  <1>1. D = 1 .. Len(ledger) /\ Len(ledger) \in Nat /\ IsFiniteSet(D) /\ \A i \in D : ledger[i] \in LRow
    BY Domains
  <1>2. t \in [D -> Nat] /\ Weight(t, D) = n
    BY TakenTyped, TakenAll
  <1>3. \A i \in D : t[i] = Taken(n, i) /\ t[i] \in Nat /\ t[i] <= Worth(ledger)[i]
    BY <1>2, TakenTyped DEF Takings
  <1>4. \A i \in D : led[i] = IF t[i] = 0 THEN ledger[i]
                              ELSE [ledger[i] EXCEPT !.used = @ + t[i], !.yes = t[i] = Left(i)]
    BY <1>3 DEF Spent
  <1>5. DOMAIN led = D
    BY DEF Spent
  <1> HIDE DEF t, led
  <1>6. ASSUME NEW i \in D
        PROVE  /\ led[i] \in LRow /\ led[i].type = ledger[i].type /\ led[i].order = ledger[i].order
               /\ Worth(ledger)[i] = Worth(led)[i] + t[i]
               /\ Consumed(led)[i] = Consumed(ledger)[i] + t[i]
               /\ Charged(led)[i] = Charged(ledger)[i]
    <2>1. ledger[i] \in LRow /\ t[i] \in Nat
      BY <1>1, <1>3
    <2>2. CASE t[i] = 0
      <3>1. led[i] = ledger[i]
        BY <1>4, <2>2
      <3>2. Worth(led)[i] = Worth(ledger)[i] /\ Worth(ledger)[i] \in Nat
        BY <1>5, <3>1, Domains DEF Worth
      <3>3. Consumed(led)[i] = Consumed(ledger)[i] /\ Consumed(ledger)[i] \in Nat
        BY <1>5, <3>1, Domains DEF Consumed
      <3>4. Charged(led)[i] = Charged(ledger)[i]
        BY <1>5, <3>1 DEF Charged
      <3> QED BY <2>1, <2>2, <3>1, <3>2, <3>3, <3>4
    <2>3. CASE t[i] # 0
      <3>1. Open(ledger[i]) /\ t[i] <= ledger[i].points - ledger[i].used /\ Left(i) = ledger[i].points - ledger[i].used
        BY <1>3, <2>1, <2>3 DEF Worth, Left
      <3>2. led[i] = [ledger[i] EXCEPT !.used = @ + t[i], !.yes = t[i] = Left(i)]
        BY <1>4, <2>3
      <3>3. ledger[i] = [order |-> ledger[i].order, type |-> ledger[i].type, points |-> ledger[i].points,
                         used |-> ledger[i].used, yes |-> ledger[i].yes]
        BY <2>1 DEF LRow
      <3>4. led[i] = [order |-> ledger[i].order, type |-> ledger[i].type, points |-> ledger[i].points,
                      used |-> ledger[i].used + t[i], yes |-> t[i] = Left(i)]
        BY <3>2, <3>3
      <3>5. led[i] \in LRow
        <4>1. CASE t[i] = Left(i)
          <5>1. led[i] = [order |-> ledger[i].order, type |-> ledger[i].type, points |-> ledger[i].points,
                          used |-> ledger[i].used + t[i], yes |-> TRUE]
            BY <3>4, <4>1
          <5> QED BY <2>1, <3>1, <4>1, <5>1 DEF LRow, Open
        <4>2. CASE t[i] # Left(i)
          <5>1. led[i] = [order |-> ledger[i].order, type |-> ledger[i].type, points |-> ledger[i].points,
                          used |-> ledger[i].used + t[i], yes |-> FALSE]
            BY <3>4, <4>2
          <5> QED BY <2>1, <3>1, <4>2, <5>1 DEF LRow, Open
        <4> QED BY <4>1, <4>2
      <3>6. ledger[i].type \in {"EARNED", "BONUS"} /\ ~ledger[i].yes
        BY <3>1 DEF Open
      <3>7. ledger[i].points \in Nat /\ ledger[i].used \in Nat
        BY <2>1 DEF LRow
      <3>8. led[i].type = ledger[i].type /\ led[i].points = ledger[i].points /\ led[i].used = ledger[i].used + t[i]
            /\ led[i].yes = (t[i] = Left(i)) /\ led[i].order = ledger[i].order
        BY <3>4
      <3>9. Worth(ledger)[i] = Worth(led)[i] + t[i]
        <4>1. Worth(ledger)[i] = ledger[i].points - ledger[i].used
          BY <3>1 DEF Worth
        <4>2. Worth(led)[i] = IF Open(led[i]) THEN led[i].points - led[i].used ELSE 0
          BY <1>5 DEF Worth
        <4>3. CASE t[i] = Left(i)
          <5>1. led[i].yes
            BY <3>8, <4>3
          <5>2. ~Open(led[i])
            BY <5>1 DEF Open
          <5> QED BY <2>1, <3>1, <3>7, <4>1, <4>2, <4>3, <5>2
        <4>4. CASE t[i] # Left(i)
          <5>1. ~led[i].yes
            BY <3>8, <4>4
          <5>2. Open(led[i])
            BY <3>6, <3>8, <5>1 DEF Open
          <5> QED BY <2>1, <3>1, <3>7, <3>8, <4>1, <4>2, <5>2
        <4> QED BY <4>3, <4>4
      <3>10. Consumed(led)[i] = Consumed(ledger)[i] + t[i] /\ Charged(led)[i] = Charged(ledger)[i]
        BY <1>5, <3>6, <3>8 DEF Consumed, Charged
      <3> QED BY <3>5, <3>8, <3>9, <3>10
    <2> QED BY <2>2, <2>3
  <1>7. led \in Seq(LRow) /\ Len(led) = Len(ledger)
    <2>1. led \in [1 .. Len(ledger) -> LRow]
      <3>1. led = [i \in D |-> led[i]]
        BY DEF led, Spent
      <3> QED BY <1>1, <1>6, <3>1
    <2> QED BY <1>1, <2>1
  <1>8. /\ Worth(ledger) \in [D -> Nat] /\ Consumed(ledger) \in [D -> Nat] /\ Charged(ledger) \in [D -> Nat]
        /\ Worth(led) \in [D -> Nat] /\ Consumed(led) \in [D -> Nat] /\ Charged(led) \in [D -> Nat]
    BY <1>5, <1>7, Domains
  <1>9. Weight(Worth(ledger), D) = Weight(Worth(led), D) + Weight(t, D)
    <2>1. \A i \in D : Worth(ledger)[i] = Worth(led)[i] + t[i]
      BY <1>6
    <2>2. IsFiniteSet(D)
      BY <1>1
    <2> HIDE DEF D
    <2>3. t \in [D -> Nat]
      BY <1>2
    <2>4. \A v, w, x \in [D -> Nat] :
              (\A i \in D : x[i] = v[i] + w[i]) => Weight(x, D) = Weight(v, D) + Weight(w, D)
      BY <2>2, WeightAdd
    <2> QED BY <1>8, <2>1, <2>3, <2>4
  <1>10. Weight(Consumed(led), D) = Weight(Consumed(ledger), D) + Weight(t, D)
    <2>1. \A i \in D : Consumed(led)[i] = Consumed(ledger)[i] + t[i]
      BY <1>6
    <2>2. IsFiniteSet(D)
      BY <1>1
    <2> HIDE DEF D
    <2>3. t \in [D -> Nat]
      BY <1>2
    <2>4. \A v, w, x \in [D -> Nat] :
              (\A i \in D : x[i] = v[i] + w[i]) => Weight(x, D) = Weight(v, D) + Weight(w, D)
      BY <2>2, WeightAdd
    <2> QED BY <1>8, <2>1, <2>3, <2>4
  <1>11. Weight(Charged(led), D) = Weight(Charged(ledger), D)
    <2>1. \A i \in D : Charged(led)[i] = Charged(ledger)[i]
      BY <1>6
    <2>2. D \in SUBSET D /\ D \ D = {}
      OBVIOUS
    <2> QED BY <2>1, <2>2, WeightRest
  <1> QED BY <1>2, <1>5, <1>6, <1>7, <1>9, <1>10, <1>11 DEF led, Balance, UsedSum, RedeemedSum

(* The order's row is written behind them, and the counter goes down.      *)
LEMMA OrderCharged ==
  ASSUME Agrees(acct, ledger), NEW o \in Order, ~Redeemed(o), NEW n \in Nat, SumLeft(Usable) >= n
  PROVE  LET r == [order |-> o, type |-> "REDEEMED", points |-> n, used |-> n, yes |-> TRUE] IN
         Agrees([acct EXCEPT !.total = @ - n], Append(Spent(n), r)) /\ r \in LRow
  <1> DEFINE r == [order |-> o, type |-> "REDEEMED", points |-> n, used |-> n, yes |-> TRUE]
             led == Spent(n)
             b == [acct EXCEPT !.total = @ - n]
  <1>1. r \in LRow /\ ~Open(r) /\ r.type = "REDEEMED" /\ r.points = n /\ r.order = o
    BY DEF LRow, Open
  <1>2. acct \in Account /\ ledger \in Seq(LRow) /\ acct.total = Balance(ledger) /\ Once(ledger)
    BY DEF Agrees
  <1>3. /\ led \in Seq(LRow) /\ Len(led) = Len(ledger)
        /\ \A i \in DOMAIN ledger : led[i].type = ledger[i].type /\ led[i].order = ledger[i].order
        /\ Balance(ledger) = Balance(led) + n
    BY <1>2, RowsSpent
  <1> HIDE DEF r, led
  <1>4. Append(led, r) \in Seq(LRow) /\ Balance(Append(led, r)) = Balance(led) + 0
    BY <1>1, <1>3, RowAdded
  <1>5. Balance(led) \in Nat
    BY <1>3, Domains, UnitsFinite DEF Balance
  <1>6. b \in Account /\ b.total = Balance(led)
    <2>1. acct = [total |-> acct.total, status |-> acct.status, level |-> acct.level]
      BY <1>2 DEF Account
    <2>2. acct.total - n = Balance(led)
      BY <1>2, <1>3, <1>5
    <2>3. b = [total |-> Balance(led), status |-> acct.status, level |-> acct.level]
      BY <2>1, <2>2
    <2> QED BY <1>2, <1>5, <2>3 DEF Account
  <1>7. Once(Append(led, r))
    <2>1. DOMAIN Append(led, r) = 1 .. Len(ledger) + 1 /\ DOMAIN ledger = 1 .. Len(ledger) /\ Len(ledger) \in Nat
      BY <1>2, <1>3, <1>4
    <2>2. Append(led, r)[Len(ledger) + 1] = r /\ \A i \in 1 .. Len(ledger) : Append(led, r)[i] = led[i]
      BY <1>2, <1>3
    <2>3. \A i \in DOMAIN ledger : ledger[i].type = "REDEEMED" => ledger[i].order # o
      BY DEF Redeemed
    <2> QED BY <1>1, <1>2, <1>3, <2>1, <2>2, <2>3 DEF Once
  <1> HIDE DEF b
  <1>8. Agrees(b, Append(led, r))
    BY <1>4, <1>5, <1>6, <1>7 DEF Agrees
  <1> QED BY <1>1, <1>8 DEF b, led, r

(* A row that is retired keeps what was taken from it.                     *)
RowsWithout(i) == [ledger EXCEPT ![i].type = "EXPIRED", ![i].yes = TRUE]

LEMMA RowClosed ==
  ASSUME ledger \in Seq(LRow), NEW i \in DOMAIN ledger, ledger[i].type # "REDEEMED"
  PROVE  LET led == RowsWithout(i) IN
         /\ led \in Seq(LRow) /\ DOMAIN led = DOMAIN ledger
         /\ led[i].type = "EXPIRED" /\ \A j \in DOMAIN ledger \ {i} : led[j] = ledger[j]
         /\ Worth(led)[i] = 0
         /\ UsedSum(led) = UsedSum(ledger) /\ RedeemedSum(led) = RedeemedSum(ledger)
  <1> DEFINE D == DOMAIN ledger
             led == RowsWithout(i)
             r == [ledger[i] EXCEPT !.type = "EXPIRED", !.yes = TRUE]
  <1>1. ledger[i] \in LRow /\ D = 1 .. Len(ledger) /\ Len(ledger) \in Nat
    BY Domains
  <1>2. led = [ledger EXCEPT ![i] = r]
    BY <1>1 DEF RowsWithout
  <1>3. r = [order |-> ledger[i].order, type |-> "EXPIRED", points |-> ledger[i].points, used |-> ledger[i].used, yes |-> TRUE]
    <2>1. \A x \in LRow : [x EXCEPT !.type = "EXPIRED", !.yes = TRUE]
              = [order |-> x.order, type |-> "EXPIRED", points |-> x.points, used |-> x.used, yes |-> TRUE]
      <3> SUFFICES ASSUME NEW x \in LRow
                   PROVE  [x EXCEPT !.type = "EXPIRED", !.yes = TRUE]
                            = [order |-> x.order, type |-> "EXPIRED", points |-> x.points, used |-> x.used, yes |-> TRUE]
        OBVIOUS
      <3>1. x = [order |-> x.order, type |-> x.type, points |-> x.points, used |-> x.used, yes |-> x.yes]
        BY DEF LRow
      <3>2. PICK y : y = [x EXCEPT !.type = "EXPIRED", !.yes = TRUE]
        OBVIOUS
      <3>3. y = [order |-> x.order, type |-> "EXPIRED", points |-> x.points, used |-> x.used, yes |-> TRUE]
        BY <3>1, <3>2
      <3> QED BY <3>2, <3>3
    <2> QED BY <1>1, <2>1
  <1>4. r \in LRow /\ ~Open(r) /\ r.type = "EXPIRED" /\ r.used = ledger[i].used
    BY <1>1, <1>3 DEF LRow, Open
  <1> HIDE DEF led, r
  <1>5. led \in Seq(LRow) /\ DOMAIN led = D /\ led[i] = r /\ \A j \in D \ {i} : led[j] = ledger[j]
    BY <1>1, <1>2, <1>4
  <1>6. /\ Worth(led)[i] = 0
        /\ \A j \in D : Consumed(led)[j] = Consumed(ledger)[j] /\ Charged(led)[j] = Charged(ledger)[j]
    BY <1>4, <1>5 DEF Worth, Consumed, Charged
  <1>7. Weight(Consumed(led), D) = Weight(Consumed(ledger), D) /\ Weight(Charged(led), D) = Weight(Charged(ledger), D)
    <2>1. D \in SUBSET D /\ D \ D = {}
      OBVIOUS
    <2> QED BY <1>6, <2>1, WeightRest
  <1> QED BY <1>4, <1>5, <1>6, <1>7 DEF led, UsedSum, RedeemedSum

(* An open row takes what it had left with it.                             *)
LEMMA RowRetired ==
  ASSUME Agrees(acct, ledger), NEW i \in DOMAIN ledger, Live(i)
  PROVE  Agrees([acct EXCEPT !.total = @ - Left(i)], RowsWithout(i))
  <1> DEFINE D == DOMAIN ledger
             led == RowsWithout(i)
             b == [acct EXCEPT !.total = @ - Left(i)]
  <1>1. acct \in Account /\ ledger \in Seq(LRow) /\ acct.total = Balance(ledger) /\ Once(ledger)
    BY DEF Agrees
  <1>2. ledger[i].type \in {"EARNED", "BONUS"} /\ Worth(ledger)[i] = Left(i)
    BY DEF Live, Worth, Open, Left
  <1>3. /\ led \in Seq(LRow) /\ DOMAIN led = D /\ led[i].type = "EXPIRED" /\ Worth(led)[i] = 0
        /\ \A j \in D \ {i} : led[j] = ledger[j]
    BY <1>1, <1>2, RowClosed
  <1> HIDE DEF led
  <1>4. Worth(ledger) \in [D -> Nat] /\ Worth(led) \in [D -> Nat] /\ IsFiniteSet(D)
    BY <1>1, <1>3, Domains
  <1>5. \A j \in D \ {i} : Worth(led)[j] = Worth(ledger)[j]
    BY <1>3 DEF Worth
  <1>6. Weight(Worth(led), D) = Weight(Worth(ledger), D) - Left(i) + 0 /\ Weight(Worth(ledger), D) >= Left(i)
    <2>1. /\ Weight(Worth(led), D) = Weight(Worth(ledger), D) - Worth(ledger)[i] + Worth(led)[i]
          /\ Weight(Worth(ledger), D) >= Worth(ledger)[i]
      <3>1. i \in D
        OBVIOUS
      <3> HIDE DEF D
      <3> QED BY <1>4, <1>5, <3>1, WeightChange
    <2> QED BY <1>2, <1>3, <2>1
  <1>7. Balance(ledger) \in Nat /\ Left(i) \in Nat
    BY <1>2, <1>4, UnitsFinite DEF Balance
  <1>8. Balance(led) = Balance(ledger) - Left(i) /\ Balance(led) \in Nat
    <2>1. Balance(led) = Weight(Worth(led), D) /\ Balance(ledger) = Weight(Worth(ledger), D)
      BY <1>3 DEF Balance
    <2> QED BY <1>6, <1>7, <2>1
  <1>9. b \in Account /\ b.total = Balance(led)
    <2>1. acct = [total |-> acct.total, status |-> acct.status, level |-> acct.level]
      BY <1>1 DEF Account
    <2>2. b = [total |-> Balance(led), status |-> acct.status, level |-> acct.level]
      BY <1>1, <1>8, <2>1
    <2> QED BY <1>1, <1>8, <2>2 DEF Account
  <1> HIDE DEF b
  <1>10. Once(led)
    BY <1>1, <1>3 DEF Once
  <1>11. Agrees(b, led)
    BY <1>3, <1>9, <1>10 DEF Agrees
  <1> QED BY <1>11 DEF b, led

-----------------------------------------------------------------------------
(* The rows, whatever runs at once. *)

(* The rows a handler is about to retire were gained, never spent.         *)
Keeps(x) ==
    /\ x.pc \in {"gain", "redeem"} => x.order \in Order
    /\ x.pc = "retire" =>
          /\ x = [pc |-> "retire", todo |-> x.todo, left |-> x.left]
          /\ \A i \in x.todo : i \in DOMAIN ledger /\ ledger[i].type # "REDEEMED"

Recorded(led) == led \in Seq(LRow) /\ UsedSum(led) = RedeemedSum(led)

RowInv ==
    /\ Recorded(ledger)
    /\ lh = [w \in Worker |-> lh[w]]
    /\ \A w \in Worker : Keeps(lh[w])

LEMMA SumsTyped ==
  ASSUME NEW led \in Seq(LRow)
  PROVE  UsedSum(led) \in Nat /\ RedeemedSum(led) \in Nat
  BY Domains, UnitsFinite DEF UsedSum, RedeemedSum

(* led has the rows of the ledger and maybe more.                          *)
Extends(led, old) ==
    /\ DOMAIN old \subseteq DOMAIN led
    /\ \A i \in DOMAIN old : led[i].type = "REDEEMED" => old[i].type = "REDEEMED"

LEMMA RowsGain ==
  ASSUME NEW led, Recorded(led), NEW o \in Order \union {None}, NEW type \in {"EARNED", "BONUS"}, NEW n \in Nat, n > 0
  PROVE  Recorded(Append(led, Row(o, type, n))) /\ Extends(Append(led, Row(o, type, n)), led)
  <1> DEFINE r == Row(o, type, n)
  <1>1. r \in LRow /\ r.used = 0 /\ r.type # "REDEEMED"
    BY DEF Row, LRow
  <1> HIDE DEF r
  <1>2. led \in Seq(LRow) /\ UsedSum(led) = RedeemedSum(led)
    BY DEF Recorded
  <1>3. /\ Append(led, r) \in Seq(LRow)
        /\ RedeemedSum(Append(led, r)) = RedeemedSum(led) + 0 /\ UsedSum(Append(led, r)) = UsedSum(led) + 0
    BY <1>1, <1>2, RowAdded
  <1>4. Extends(Append(led, r), led)
    BY <1>2 DEF Extends
  <1> QED BY <1>2, <1>3, <1>4 DEF Recorded, r

LEMMA RowsLevelled ==
  ASSUME Figures, NEW a, NEW led, Recorded(led), NEW o \in Order \union {None}, updateCustomerLoyaltyLevel(a, led, o)
  PROVE  Recorded(ledger') /\ Extends(ledger', led)
  <1> DEFINE new == NewLevel(a)
             bonus == IF Tier(new) > Tier(a.level) THEN Bonus[new] ELSE 0
  <1>1. new \in ToSet(Levels)
    BY DEF NewLevel, computeLoyaltyLevel, ToSet, Levels
  <1>2. bonus \in Nat
    BY <1>1 DEF Figures
  <1>3. ledger' = IF bonus > 0 THEN Append(led, Row(o, "BONUS", bonus)) ELSE led
    BY DEF updateCustomerLoyaltyLevel
  <1> HIDE DEF bonus
  <1>4. CASE bonus > 0
    BY <1>2, <1>3, <1>4, RowsGain
  <1>5. CASE ~(bonus > 0)
    BY <1>3, <1>5 DEF Extends
  <1> QED BY <1>4, <1>5

LEMMA RowsCharged ==
  ASSUME Recorded(ledger), NEW o \in Order, NEW n \in Nat, SumLeft(Usable) >= n
  PROVE  LET led == Append(Spent(n), [order |-> o, type |-> "REDEEMED", points |-> n, used |-> n, yes |-> TRUE])
         IN Recorded(led) /\ Extends(led, ledger)
  <1> DEFINE r == [order |-> o, type |-> "REDEEMED", points |-> n, used |-> n, yes |-> TRUE]
             led == Spent(n)
  <1>1. r \in LRow /\ r.type = "REDEEMED" /\ r.points = n
    BY DEF LRow
  <1>2. ledger \in Seq(LRow) /\ UsedSum(ledger) = RedeemedSum(ledger)
    BY DEF Recorded
  <1>3. /\ led \in Seq(LRow) /\ Len(led) = Len(ledger)
        /\ \A i \in DOMAIN ledger : led[i].type = ledger[i].type
        /\ UsedSum(led) = UsedSum(ledger) + n
        /\ RedeemedSum(led) = RedeemedSum(ledger)
    BY <1>2, RowsSpent
  <1> HIDE DEF r, led
  <1>4. /\ Append(led, r) \in Seq(LRow)
        /\ RedeemedSum(Append(led, r)) = RedeemedSum(led) + n /\ UsedSum(Append(led, r)) = UsedSum(led) + 0
    BY <1>1, <1>3, RowAdded
  <1>5. UsedSum(Append(led, r)) = RedeemedSum(Append(led, r))
    BY <1>2, <1>3, <1>4, SumsTyped
  <1>6. Extends(Append(led, r), ledger)
    <2>1. DOMAIN ledger = 1 .. Len(ledger) /\ Len(ledger) \in Nat /\ DOMAIN Append(led, r) = 1 .. Len(ledger) + 1
      BY <1>2, <1>3, <1>4
    <2>2. \A i \in 1 .. Len(ledger) : Append(led, r)[i] = led[i]
      BY <1>3
    <2> QED BY <1>3, <2>1, <2>2 DEF Extends
  <1> QED BY <1>4, <1>5, <1>6 DEF Recorded, led, r

LEMMA RowsKept ==
  ASSUME RowInv, Recorded(ledger'), Extends(ledger', ledger),
         lh' = lh \/ \E w \in Worker : \E x : lh' = [lh EXCEPT ![w] = x] /\ Keeps(x)
  PROVE  RowInv'
  <1>1. \A x : Keeps(x) => Keeps(x)'
    BY DEF Keeps, Extends
  <1>2. lh' = [w \in Worker |-> lh'[w]] /\ \A w \in Worker : Keeps(lh[w])'
    <2>1. CASE lh' = lh
      <3>1. ASSUME NEW w \in Worker PROVE Keeps(lh[w])'
        <4>1. PICK x : x = lh[w]
          OBVIOUS
        <4>2. Keeps(x)'
          BY <1>1, <4>1 DEF RowInv
        <4> QED BY <2>1, <4>1, <4>2 DEF Keeps
      <3> QED BY <2>1, <3>1 DEF RowInv
    <2>2. CASE \E w \in Worker : \E x : lh' = [lh EXCEPT ![w] = x] /\ Keeps(x)
      <3>0. PICK w \in Worker : \E x : lh' = [lh EXCEPT ![w] = x] /\ Keeps(x)
        BY <2>2
      <3>1. PICK x : lh' = [lh EXCEPT ![w] = x] /\ Keeps(x)
        BY <3>0
      <3>2. ASSUME NEW v \in Worker PROVE Keeps(lh[v])'
        <4>1. PICK y : y = lh'[v]
          OBVIOUS
        <4>2. Keeps(y)
          BY <3>1, <4>1 DEF RowInv
        <4>3. Keeps(y)'
          BY <1>1, <4>2
        <4> QED BY <4>1, <4>3 DEF Keeps
      <3> QED BY <3>1, <3>2 DEF RowInv
    <2> QED BY <2>1, <2>2
  <1> QED BY <1>2 DEF RowInv, Recorded, UsedSum, RedeemedSum

LEMMA RowsStep ==
  ASSUME RowInv, Figures, [LNext]_lvars
  PROVE  RowInv'
  <1>1. Recorded(ledger) /\ ledger \in Seq(LRow) /\ Extends(ledger, ledger)
    BY DEF RowInv, Recorded, Extends
  <1>2. Keeps(LIdle)
    BY DEF Keeps, LIdle
  <1>3. ASSUME ledger' = ledger, lh' = lh \/ \E w \in Worker : \E x : lh' = [lh EXCEPT ![w] = x] /\ Keeps(x)
        PROVE  RowInv'
    BY <1>1, <1>3, RowsKept
  <1>4. ASSUME NEW led, Recorded(led), Extends(led, ledger), NEW a, NEW o \in Order \union {None},
               updateCustomerLoyaltyLevel(a, led, o),
               lh' = lh \/ \E w \in Worker : \E x : lh' = [lh EXCEPT ![w] = x] /\ Keeps(x)
        PROVE  RowInv'
    <2>1. Recorded(ledger') /\ Extends(ledger', led)
      BY <1>4, RowsLevelled
    <2>2. Extends(ledger', ledger)
      BY <1>4, <2>1 DEF Extends
    <2> QED BY <1>4, <2>1, <2>2, RowsKept
  <1>5. ASSUME NEW w \in Worker, NEW o \in Order, StartGain(w, o) \/ StartRedeem(w, o) PROVE RowInv'
    <2>1. \A p \in {"gain", "redeem"} : Keeps([pc |-> p, order |-> o])
      BY DEF Keeps
    <2> QED BY <1>3, <1>5, <2>1 DEF StartGain, StartRedeem
  <1>6. ASSUME NEW w \in Worker, NEW rows, StartRetire(w, rows), rows \subseteq DOMAIN ledger, \A i \in rows : Live(i)
        PROVE  RowInv'
    <2>1. Keeps([pc |-> "retire", todo |-> rows, left |-> [i \in rows |-> Left(i)]])
      BY <1>6 DEF Keeps, Live
    <2> QED BY <1>3, <1>6, <2>1 DEF StartRetire
  <1>7. ASSUME NEW w \in Worker, NEW o \in Order, revokeEarnedPointsForOrder(w, o) PROVE RowInv'
    BY <1>6, <1>7 DEF revokeEarnedPointsForOrder, OfOrder
  <1>8. ASSUME NEW w \in Worker, expirePoints(w) PROVE RowInv'
    BY <1>6, <1>8 DEF expirePoints
  <1>9. ASSUME NEW w \in Worker, claimYear(w) \/ runReset(w) \/ Retired(w) \/ LStop(w) PROVE RowInv'
    <2>1. Keeps([pc |-> "reset"])
      BY DEF Keeps
    <2> QED BY <1>2, <1>3, <1>9, <2>1 DEF claimYear, runReset, Retired, LStop
  <1>10. ASSUME NEW w \in Worker, addPoints(w) PROVE RowInv'
    <2>1. PICK o : o = lh[w].order
      OBVIOUS
    <2>2. o \in Order /\ Earns[o] \in Nat /\ Earns[o] > 0
      BY <1>10, <2>1 DEF RowInv, Keeps, addPoints, Figures
    <2>3. lh' = [lh EXCEPT ![w] = LIdle] /\ \E a : updateCustomerLoyaltyLevel(a, Append(ledger, Row(o, "EARNED", Earns[o])), o)
      BY <1>10, <2>1 DEF addPoints
    <2>4. /\ Recorded(Append(ledger, Row(o, "EARNED", Earns[o])))
          /\ Extends(Append(ledger, Row(o, "EARNED", Earns[o])), ledger)
      BY <1>1, <2>2, RowsGain
    <2> QED BY <1>2, <1>4, <2>2, <2>3, <2>4
  <1>11. ASSUME addBonus(1) PROVE RowInv'
    <2>1. lh' = lh /\ \E a : updateCustomerLoyaltyLevel(a, Append(ledger, Row(None, "BONUS", 1)), None)
      BY <1>11 DEF addBonus
    <2>2. Recorded(Append(ledger, Row(None, "BONUS", 1))) /\ Extends(Append(ledger, Row(None, "BONUS", 1)), ledger)
      BY <1>1, RowsGain
    <2> QED BY <1>4, <2>1, <2>2
  <1>12. ASSUME NEW w \in Worker, redeemPoints(w) PROVE RowInv'
    <2>1. lh' = [lh EXCEPT ![w] = LIdle] /\ lh[w].order \in Order
      BY <1>12 DEF redeemPoints, RowInv, Keeps
    <2>2. PICK o \in Order : o = lh[w].order
      BY <2>1
    <2>3. PICK n \in Nat : n = Spends[o]
      BY DEF Figures
    <2>4. CASE SumLeft(Usable) < n
      <3>1. ledger' = ledger
        BY <1>12, <2>2, <2>3, <2>4 DEF redeemPoints
      <3> QED BY <1>2, <1>3, <2>1, <3>1
    <2>5. CASE ~(SumLeft(Usable) < n)
      <3> DEFINE led == Append(Spent(n), [order |-> o, type |-> "REDEEMED", points |-> n, used |-> n, yes |-> TRUE])
      <3>1. SumLeft(Usable) >= n
        <4>1. SumLeft(Usable) = Weight(Worth(ledger), Usable)
          BY <1>1, SumOfOpen DEF Usable
        <4>2. Weight(Worth(ledger), Usable) \in Nat
          BY <1>1, Domains, UnitsFinite DEF Usable
        <4> QED BY <2>5, <4>1, <4>2
      <3>2. Recorded(led) /\ Extends(led, ledger)
        BY <1>1, <3>1, RowsCharged
      <3>3. \E a : updateCustomerLoyaltyLevel(a, led, None)
        BY <1>12, <2>2, <2>3, <2>5 DEF redeemPoints
      <3> HIDE DEF led
      <3> QED BY <1>2, <1>4, <2>1, <3>2, <3>3
    <2> QED BY <2>4, <2>5
  <1>13. ASSUME NEW w \in Worker, Retire(w) PROVE RowInv'
    <2>1. PICK x : x = lh[w]
      OBVIOUS
    <2>2. /\ x = [pc |-> "retire", todo |-> x.todo, left |-> x.left]
          /\ \A i \in x.todo : i \in DOMAIN ledger /\ ledger[i].type # "REDEEMED"
      BY <1>13, <2>1 DEF RowInv, Keeps, Retire
    <2>3. PICK i \in x.todo : ledger' = RowsWithout(i) /\ lh' = [lh EXCEPT ![w].todo = @ \ {i}]
      BY <1>13, <2>1 DEF Retire, RowsWithout
    <2>4. PICK y : y = [pc |-> "retire", todo |-> x.todo \ {i}, left |-> x.left]
      OBVIOUS
    <2>5. lh' = [lh EXCEPT ![w] = y]
      <3>1. [x EXCEPT !.todo = @ \ {i}] = y
        BY <2>2, <2>4
      <3>2. lh' = [lh EXCEPT ![w] = [lh[w] EXCEPT !.todo = @ \ {i}]]
        BY <2>3
      <3> QED BY <2>1, <3>1, <3>2
    <2>6. Keeps(y)
      BY <2>2, <2>4 DEF Keeps
    <2>7. Recorded(RowsWithout(i)) /\ Extends(RowsWithout(i), ledger)
      <3>1. i \in DOMAIN ledger /\ ledger[i].type # "REDEEMED"
        BY <2>2, <2>3
      <3> QED BY <1>1, <3>1, RowClosed DEF Recorded, Extends
    <2> QED BY <2>3, <2>5, <2>6, <2>7, RowsKept
  <1>14. ASSUME NEW o \in Order, OrderMoves(o) PROVE RowInv'
    BY <1>3, <1>14 DEF OrderMoves
  <1>15. ASSUME GrowOld \/ UNCHANGED lvars PROVE RowInv'
    BY <1>3, <1>15 DEF GrowOld, lvars
  <1> QED BY <1>5, <1>7, <1>8, <1>9, <1>10, <1>11, <1>12, <1>13, <1>14, <1>15 DEF LNext, LStatement

LEMMA RowsAlways ==
  ASSUME Figures
  PROVE  LSpec => []RowInv
  <1>1. LInit => RowInv
    <2> SUFFICES ASSUME LInit PROVE RowInv
      OBVIOUS
    <2>1. ledger = <<>> /\ ledger \in Seq(LRow) /\ DOMAIN ledger = {}
      BY DEF LInit
    <2>2. UsedSum(ledger) = 0 /\ RedeemedSum(ledger) = 0
      BY <2>1, WeightNone DEF UsedSum, RedeemedSum
    <2>3. lh = [w \in Worker |-> lh[w]] /\ \A w \in Worker : lh[w] = LIdle
      BY DEF LInit
    <2> QED BY <2>1, <2>2, <2>3 DEF RowInv, Recorded, Keeps, LIdle
  <1>2. RowInv /\ [LNext]_lvars => RowInv'
    BY RowsStep
  <1> QED BY <1>1, <1>2, PTL DEF LSpec

(* What the orders redeemed was taken from the rows, point by point, for   *)
(* any number of handlers at once: the transaction reads the rows it takes.*)
THEOREM RowsPayOrders ==
  ASSUME Figures
  PROVE  LSpec => []SpentIsRecorded
  <1>1. RowInv => SpentIsRecorded
    <2> SUFFICES ASSUME RowInv PROVE SpentIsRecorded
      OBVIOUS
    <2> DEFINE D == DOMAIN ledger
               R == {i \in D : ledger[i].type \in {"REDEEMED"}}
               G == {i \in D : ledger[i].type \in {"EARNED", "BONUS", "EXPIRED"}}
               r == [i \in R |-> ledger[i].points]
               g == [i \in G |-> ledger[i].used]
    <2>1. ledger \in Seq(LRow) /\ UsedSum(ledger) = RedeemedSum(ledger)
      BY DEF RowInv, Recorded
    <2>2. IsFiniteSet(D) /\ \A i \in D : ledger[i] \in LRow
      BY <2>1, Domains
    <2>3. IsFiniteSet(R) /\ IsFiniteSet(G) /\ R \in SUBSET D /\ G \in SUBSET D
      BY <2>2, FS_Subset
    <2>4. r \in [R -> Nat] /\ g \in [G -> Nat]
      BY <2>2 DEF LRow
    <2>5. SumFunction(r) = Weight(r, R) /\ SumFunction(g) = Weight(g, G)
      <3>1. SumFunctionOnSet(r, R) = Weight(r, R)
        BY <2>3, <2>4, SumIsWeight
      <3>2. SumFunctionOnSet(g, G) = Weight(g, G)
        BY <2>3, <2>4, SumIsWeight
      <3>3. DOMAIN r = R /\ DOMAIN g = G
        OBVIOUS
      <3> HIDE DEF r, g, R, G
      <3> QED BY <3>1, <3>2, <3>3 DEF SumFunction
    <2>6. /\ \A i \in R : r[i] = Charged(ledger)[i] 
          /\ \A i \in D \ R : Charged(ledger)[i] = 0
          /\ \A i \in G : g[i] = Consumed(ledger)[i]
          /\ \A i \in D \ G : Consumed(ledger)[i] = 0
      BY <2>2 DEF Charged, Consumed, LRow
    <2>7. Weight(Charged(ledger), D) = Weight(r, R) /\ Weight(Consumed(ledger), D) = Weight(g, G)
      <3> HIDE DEF r, g, R, G, D
      <3>1. Weight(Charged(ledger), D) = Weight(r, R)
        BY <2>3, <2>6, WeightRest
      <3>2. Weight(Consumed(ledger), D) = Weight(g, G)
        BY <2>3, <2>6, WeightRest
      <3> QED BY <3>1, <3>2
    <2> QED BY <2>1, <2>5, <2>7 DEF SpentIsRecorded, UsedSum, RedeemedSum
  <1> QED BY <1>1, RowsAlways, PTL

-----------------------------------------------------------------------------
(* One handler at a time. *)

(* What a handler read before its transaction is still so.                 *)
Holding(x) ==
    \/ x = LIdle
    \/ x.pc = "reset"
    \/ x.pc = "gain" /\ x.order \in Order
    \/ x.pc = "redeem" /\ x.order \in Order /\ ~Redeemed(x.order)
    \/ /\ x.pc = "retire" /\ x = [pc |-> "retire", todo |-> x.todo, left |-> x.left]
       /\ \A i \in x.todo : i \in DOMAIN ledger /\ Live(i) /\ x.left[i] = Left(i)

LInv ==
    /\ Agrees(acct, ledger)
    /\ past \in 0 .. Len(ledger)
    /\ lh = [w \in Worker |-> lh[w]]
    /\ \A w \in Worker : Holding(lh[w])

LEMMA InitLedger == LInit => LInv
  <1> SUFFICES ASSUME LInit PROVE LInv
    OBVIOUS
  <1>1. ledger = <<>> /\ ledger \in Seq(LRow) /\ Len(ledger) = 0 /\ DOMAIN ledger = {}
    BY DEF LInit
  <1>2. Balance(ledger) = 0
    BY <1>1, WeightNone DEF Balance
  <1>3. acct \in Account /\ acct.total = 0
    BY DEF LInit, Account
  <1>4. Agrees(acct, ledger)
    BY <1>1, <1>2, <1>3 DEF Agrees, Once
  <1>5. lh = [w \in Worker |-> lh[w]] /\ \A w \in Worker : lh[w] = LIdle
    BY DEF LInit
  <1> QED BY <1>1, <1>4, <1>5 DEF LInv, LInit, Holding

(* A handler that finds its rows as they were still holds what it read.    *)
LEMMA StillHolding ==
  ASSUME ledger \in Seq(LRow), ledger' \in Seq(LRow), Len(ledger') >= Len(ledger),
         \A i \in DOMAIN ledger : ledger'[i] = ledger[i],
         \A i \in DOMAIN ledger' \ DOMAIN ledger : ledger'[i].type # "REDEEMED",
         NEW x, Holding(x)
  PROVE  Holding(x)'
  <1>1. DOMAIN ledger = 1 .. Len(ledger) /\ DOMAIN ledger' = 1 .. Len(ledger')
        /\ Len(ledger) \in Nat /\ Len(ledger') \in Nat
    BY Domains
  <1>2. DOMAIN ledger \subseteq DOMAIN ledger'
    BY <1>1
  <1>3. \A o : Redeemed(o)' => Redeemed(o)
    BY <1>2 DEF Redeemed
  <1>4. \A i \in DOMAIN ledger : (Live(i) => Live(i)') /\ Left(i)' = Left(i)
    BY DEF Live, Left
  <1> QED BY <1>2, <1>3, <1>4 DEF Holding

LEMMA HandlerMoves ==
  ASSUME OneWorker, lh = [v \in Worker |-> lh[v]], NEW w \in Worker, NEW x, lh' = [lh EXCEPT ![w] = x], Holding(x)'
  PROVE  lh' = [v \in Worker |-> lh'[v]] /\ \A v \in Worker : Holding(lh[v])'
  <1>1. \A v \in Worker : v = w
    BY DEF OneWorker
  <1>2. lh'[w] = x
    OBVIOUS
  <1>3. \A v \in Worker : lh'[v] = x
    BY <1>1, <1>2
  <1>4. \A v \in Worker : Holding(lh[v])'
    BY <1>3 DEF Holding
  <1> QED BY <1>4

LEMMA IdleHolds == Holding(LIdle)'
  BY DEF Holding

(* Nothing but what a handler holds changes.                               *)
LEMMA ReadsOnly ==
  ASSUME LInv, OneWorker, NEW w \in Worker, NEW x, lh' = [lh EXCEPT ![w] = x], Holding(x), UNCHANGED <<acct, ledger, past>>
  PROVE  LInv'
  <1>1. Holding(x)'
    BY DEF Holding, Redeemed, Live, Left
  <1> QED BY <1>1, HandlerMoves DEF LInv, Agrees, Account, Once, Balance

(* A transaction of the levels, after which the handler is done.           *)
LEMMA LevelledStep ==
  ASSUME LInv, OneWorker, Figures, NEW a, NEW led, Agrees(a, led), NEW o \in Order \union {None},
         updateCustomerLoyaltyLevel(a, led, o), Len(led) >= Len(ledger), past' = past,
         \/ \E w \in Worker : lh' = [lh EXCEPT ![w] = LIdle]
         \/ /\ lh' = lh
            /\ \A i \in DOMAIN ledger : led[i] = ledger[i]
            /\ \A i \in DOMAIN led \ DOMAIN ledger : led[i].type # "REDEEMED"
  PROVE  LInv'
  <1>1. /\ Agrees(acct', ledger') /\ Len(ledger') \in {Len(led), Len(led) + 1}
        /\ \A i \in DOMAIN led : ledger'[i] = led[i]
        /\ \A i \in DOMAIN ledger' \ DOMAIN led : ledger'[i].type = "BONUS"
    BY Levelled
  <1>2. led \in Seq(LRow) /\ ledger \in Seq(LRow) /\ ledger' \in Seq(LRow)
    BY <1>1 DEF Agrees, LInv
  <1>3. /\ Len(led) \in Nat /\ Len(ledger) \in Nat /\ Len(ledger') \in Nat
        /\ DOMAIN led = 1 .. Len(led) /\ DOMAIN ledger = 1 .. Len(ledger) /\ DOMAIN ledger' = 1 .. Len(ledger')
    BY <1>2, Domains
  <1>4. Agrees(acct, ledger)'
    BY <1>1 DEF Agrees, Account, Once, Balance
  <1>5. Len(ledger') >= Len(ledger) /\ Len(ledger') >= Len(led)
    <2>1. PICK k \in Nat, l \in Nat, m \in Nat : k = Len(ledger) /\ l = Len(led) /\ m = Len(ledger')
      BY <1>3
    <2>2. m \in {l, l + 1} /\ l >= k
      BY <1>1, <2>1
    <2> QED BY <2>1, <2>2
  <1>6. (past \in 0 .. Len(ledger))'
    <2>1. past \in 0 .. Len(ledger) /\ past' = past
      BY DEF LInv
    <2> QED BY <1>3, <1>5, <2>1
  <1>7. DOMAIN ledger \subseteq DOMAIN led /\ DOMAIN led \subseteq DOMAIN ledger'
    BY <1>3, <1>5
  <1>8. lh' = [v \in Worker |-> lh'[v]] /\ \A v \in Worker : Holding(lh[v])'
    <2>1. CASE \E w \in Worker : lh' = [lh EXCEPT ![w] = LIdle]
      BY <2>1, HandlerMoves, IdleHolds DEF LInv
    <2>2. CASE /\ lh' = lh
               /\ \A i \in DOMAIN ledger : led[i] = ledger[i]
               /\ \A i \in DOMAIN led \ DOMAIN ledger : led[i].type # "REDEEMED"
      <3>1. \A i \in DOMAIN ledger : ledger'[i] = ledger[i]
        BY <1>1, <1>7, <2>2
      <3>2. \A i \in DOMAIN ledger' \ DOMAIN ledger : ledger'[i].type # "REDEEMED"
        BY <1>1, <1>7, <2>2
      <3>3. ASSUME NEW v \in Worker PROVE Holding(lh[v])'
        <4>1. PICK x : x = lh[v]
          OBVIOUS
        <4>2. Holding(x)
          BY <4>1 DEF LInv
        <4>3. Holding(x)'
          BY <1>2, <1>5, <3>1, <3>2, <4>2, StillHolding
        <4> QED BY <2>2, <4>1, <4>3
      <3> QED BY <2>2, <3>3 DEF LInv
    <2> QED BY <2>1, <2>2
  <1> QED BY <1>4, <1>6, <1>8 DEF LInv

LEMMA GainStep ==
  ASSUME LInv, OneWorker, Figures, NEW w \in Worker, addPoints(w)
  PROVE  LInv'
  <1>1. lh[w].order \in Order
    BY DEF LInv, Holding, addPoints, LIdle
  <1>2. PICK o \in Order : o = lh[w].order
    BY <1>1
  <1> DEFINE a == [acct EXCEPT !.total = @ + Earns[o], !.status = @ + Earns[o]]
             led == Append(ledger, Row(o, "EARNED", Earns[o]))
  <1>3. acct \in Account /\ Earns[o] \in Nat /\ Earns[o] > 0 /\ Agrees(acct, ledger) /\ ledger \in Seq(LRow)
    BY DEF LInv, Agrees, Figures
  <1>4. a \in Account /\ a.total = acct.total + Earns[o]
    <2>1. acct = [total |-> acct.total, status |-> acct.status, level |-> acct.level]
      BY <1>3 DEF Account
    <2>2. PICK b : b = a
      OBVIOUS
    <2>3. b = [total |-> acct.total + Earns[o], status |-> acct.status + Earns[o], level |-> acct.level]
      BY <2>1, <2>2
    <2> QED BY <1>3, <2>2, <2>3 DEF Account
  <1> HIDE DEF a
  <1>5. Agrees(a, led)
    BY <1>3, <1>4, Gained
  <1>6. Len(led) >= Len(ledger)
    BY <1>3
  <1>7. updateCustomerLoyaltyLevel(a, led, o) /\ lh' = [lh EXCEPT ![w] = LIdle] /\ past' = past
    BY <1>2 DEF addPoints, a
  <1> HIDE DEF led
  <1> QED BY <1>5, <1>6, <1>7, LevelledStep

LEMMA BonusStep ==
  ASSUME LInv, OneWorker, Figures, addBonus(1)
  PROVE  LInv'
  <1> DEFINE a == [acct EXCEPT !.total = @ + 1]
             led == Append(ledger, Row(None, "BONUS", 1))
  <1>1. acct \in Account /\ Agrees(acct, ledger) /\ ledger \in Seq(LRow)
    BY DEF LInv, Agrees
  <1>2. a \in Account /\ a.total = acct.total + 1
    BY <1>1 DEF Account
  <1>3. updateCustomerLoyaltyLevel(a, led, None) /\ lh' = lh /\ past' = past
    BY DEF addBonus
  <1> HIDE DEF a
  <1>4. Agrees(a, led)
    BY <1>1, <1>2, Gained
  <1>5. Len(led) = Len(ledger) + 1 /\ DOMAIN led = 1 .. Len(ledger) + 1 /\ DOMAIN ledger = 1 .. Len(ledger) /\ Len(ledger) \in Nat
    BY <1>1
  <1>6. led[Len(ledger) + 1].type # "REDEEMED" /\ \A i \in 1 .. Len(ledger) : led[i] = ledger[i]
    BY <1>1 DEF Row
  <1> HIDE DEF led
  <1>7. /\ \A i \in DOMAIN ledger : led[i] = ledger[i]
        /\ \A i \in DOMAIN led \ DOMAIN ledger : led[i].type # "REDEEMED"
        /\ Len(led) >= Len(ledger)
    BY <1>5, <1>6
  <1> QED BY <1>3, <1>4, <1>7, LevelledStep

LEMMA RedeemStep ==
  ASSUME LInv, OneWorker, Figures, NEW w \in Worker, redeemPoints(w)
  PROVE  LInv'
  <1>1. lh[w].order \in Order /\ ~Redeemed(lh[w].order)
    BY DEF LInv, Holding, redeemPoints, LIdle
  <1>2. PICK o \in Order : o = lh[w].order
    BY <1>1
  <1>3. PICK n \in Nat : n = Spends[o]
    BY DEF Figures
  <1>4. lh' = [lh EXCEPT ![w] = LIdle] /\ past' = past
    BY DEF redeemPoints
  <1>5. CASE SumLeft(Usable) < n
    <2>1. UNCHANGED <<acct, ledger, past>>
      BY <1>2, <1>3, <1>5 DEF redeemPoints
    <2>2. Holding(LIdle)
      BY DEF Holding
    <2> QED BY <1>4, <2>1, <2>2, ReadsOnly
  <1>6. CASE ~(SumLeft(Usable) < n)
    <2> DEFINE r == [order |-> o, type |-> "REDEEMED", points |-> n, used |-> n, yes |-> TRUE]
               a == [acct EXCEPT !.total = @ - n]
               led == Append(Spent(n), r)
    <2>1. Agrees(acct, ledger) /\ ledger \in Seq(LRow)
      BY DEF LInv, Agrees
    <2>2. SumLeft(Usable) >= n
      <3>1. SumLeft(Usable) = Weight(Worth(ledger), Usable)
        BY <2>1, SumOfOpen DEF Usable
      <3>2. Weight(Worth(ledger), Usable) \in Nat
        BY <2>1, Domains, UnitsFinite DEF Usable
      <3> QED BY <1>6, <3>1, <3>2
    <2>3. updateCustomerLoyaltyLevel(a, led, None)
      BY <1>2, <1>3, <1>6 DEF redeemPoints
    <2>4. Agrees(a, led) /\ r \in LRow
      BY <1>1, <1>2, <2>1, <2>2, OrderCharged
    <2>5. Spent(n) \in Seq(LRow) /\ Len(Spent(n)) = Len(ledger)
      BY <2>1, <2>2, RowsSpent
    <2>6. Len(led) >= Len(ledger)
      <3>1. PICK s \in Seq(LRow) : s = Spent(n)
        BY <2>5
      <3>2. Len(Append(s, r)) = Len(s) + 1 /\ Len(s) \in Nat
        OBVIOUS
      <3> QED BY <2>5, <3>1, <3>2
    <2> HIDE DEF a, led
    <2> QED BY <1>4, <2>3, <2>4, <2>6, LevelledStep
  <1> QED BY <1>5, <1>6

LEMMA RetireStep ==
  ASSUME LInv, OneWorker, NEW w \in Worker, Retire(w)
  PROVE  LInv'
  <1>1. PICK x : x = lh[w]
    OBVIOUS
  <1>2. /\ x.pc = "retire" /\ x = [pc |-> "retire", todo |-> x.todo, left |-> x.left]
        /\ \A i \in x.todo : i \in DOMAIN ledger /\ Live(i) /\ x.left[i] = Left(i)
    BY <1>1 DEF LInv, Holding, Retire, LIdle
  <1>3. PICK i \in x.todo :
          /\ ledger' = RowsWithout(i)
          /\ acct' = [acct EXCEPT !.total = @ - x.left[i]]
          /\ lh' = [lh EXCEPT ![w].todo = @ \ {i}]
    BY <1>1 DEF Retire, RowsWithout
  <1>4. i \in DOMAIN ledger /\ Live(i) /\ x.left[i] = Left(i) /\ Agrees(acct, ledger)
    BY <1>2, <1>3 DEF LInv
  <1>5. Agrees([acct EXCEPT !.total = @ - Left(i)], RowsWithout(i))
    BY <1>4, RowRetired
  <1>6. Agrees(acct', ledger')
    BY <1>3, <1>4, <1>5
  <1>7. Agrees(acct, ledger)'
    BY <1>6 DEF Agrees, Account, Once, Balance
  <1>8. DOMAIN ledger' = DOMAIN ledger /\ Len(ledger') = Len(ledger)
    <2>1. ledger \in Seq(LRow) /\ ledger' \in Seq(LRow)
      BY <1>4, <1>6 DEF Agrees
    <2>2. DOMAIN ledger' = DOMAIN ledger
      BY <1>3 DEF RowsWithout
    <2> QED BY <2>1, <2>2
  <1>9. \A j \in DOMAIN ledger : j # i => ledger'[j] = ledger[j]
    BY <1>3 DEF RowsWithout
  <1>10. PICK y : y = [pc |-> "retire", todo |-> x.todo \ {i}, left |-> x.left]
    OBVIOUS
  <1>11. lh' = [lh EXCEPT ![w] = y]
    <2>1. [x EXCEPT !.todo = @ \ {i}] = y
      BY <1>2, <1>10
    <2>2. lh = [v \in Worker |-> lh[v]]
      BY DEF LInv
    <2>3. lh' = [lh EXCEPT ![w] = [lh[w] EXCEPT !.todo = @ \ {i}]]
      BY <1>3
    <2> QED BY <1>1, <2>1, <2>3
  <1>12. Holding(y)'
    <2>1. \A j \in y.todo : j \in DOMAIN ledger' /\ Live(j)' /\ y.left[j] = Left(j)'
      BY <1>2, <1>8, <1>9, <1>10 DEF Live, Left
    <2>2. y.pc = "retire" /\ y = [pc |-> "retire", todo |-> y.todo, left |-> y.left]
      BY <1>10
    <2> QED BY <2>1, <2>2 DEF Holding
  <1>13. past' = past
    BY DEF Retire
  <1> QED BY <1>7, <1>8, <1>11, <1>12, <1>13, HandlerMoves DEF LInv

LEMMA LedgerStep ==
  ASSUME LInv, OneWorker, Figures, [LNext]_lvars
  PROVE  LInv'
  <1>1. CASE UNCHANGED lvars
    BY <1>1 DEF lvars, LInv, Agrees, Account, Once, Balance, Holding, Redeemed, Live, Left
  <1>2. ASSUME NEW w \in Worker, NEW o \in Order, StartGain(w, o) PROVE LInv'
    <2>1. CASE lh' = lh
      BY <1>2, <2>1 DEF StartGain, LInv, Agrees, Account, Once, Balance, Holding, Redeemed, Live, Left
    <2>2. CASE lh' = [lh EXCEPT ![w] = [pc |-> "gain", order |-> o]]
      BY <1>2, <2>2, ReadsOnly DEF StartGain, Holding
    <2> QED BY <1>2, <2>1, <2>2 DEF StartGain
  <1>3. ASSUME NEW w \in Worker, NEW o \in Order, StartRedeem(w, o) PROVE LInv'
    <2>1. CASE lh' = lh
      BY <1>3, <2>1 DEF StartRedeem, LInv, Agrees, Account, Once, Balance, Holding, Redeemed, Live, Left
    <2>2. CASE lh' = [lh EXCEPT ![w] = [pc |-> "redeem", order |-> o]] /\ ~Redeemed(o)
      BY <1>3, <2>2, ReadsOnly DEF StartRedeem, Holding
    <2> QED BY <1>3, <2>1, <2>2 DEF StartRedeem
  <1>4. ASSUME NEW w \in Worker, NEW rows, StartRetire(w, rows), rows \subseteq DOMAIN ledger, \A i \in rows : Live(i)
        PROVE  LInv'
    <2> DEFINE x == [pc |-> "retire", todo |-> rows, left |-> [i \in rows |-> Left(i)]]
    <2>1. Holding(x)
      BY <1>4 DEF Holding
    <2>2. lh' = [lh EXCEPT ![w] = x] /\ UNCHANGED <<acct, ledger, past>>
      BY <1>4 DEF StartRetire
    <2> HIDE DEF x
    <2> QED BY <2>1, <2>2, ReadsOnly
  <1>5. ASSUME NEW w \in Worker, NEW o \in Order, revokeEarnedPointsForOrder(w, o) PROVE LInv'
    BY <1>4, <1>5 DEF revokeEarnedPointsForOrder, OfOrder
  <1>6. ASSUME NEW w \in Worker, expirePoints(w) PROVE LInv'
    BY <1>4, <1>6 DEF expirePoints
  <1>7. ASSUME NEW w \in Worker, claimYear(w) PROVE LInv'
    BY <1>7, ReadsOnly DEF claimYear, Holding
  <1>8. ASSUME NEW w \in Worker, Retired(w) \/ LStop(w) PROVE LInv'
    <2>1. lh' = [lh EXCEPT ![w] = LIdle] /\ UNCHANGED <<acct, ledger, past>>
      BY <1>8 DEF Retired, LStop
    <2>2. Holding(LIdle)
      BY DEF Holding
    <2> QED BY <2>1, <2>2, ReadsOnly
  <1>9. ASSUME NEW w \in Worker, runReset(w) PROVE LInv'
    <2>1. acct' = [acct EXCEPT !.status = 0, !.level = computeLoyaltyLevel(0)]
          /\ lh' = [lh EXCEPT ![w] = LIdle] /\ UNCHANGED <<ledger, past>>
      BY <1>9 DEF runReset
    <2>2. computeLoyaltyLevel(0) \in ToSet(Levels)
      BY DEF computeLoyaltyLevel, ToSet, Levels
    <2>3. acct \in Account
      BY DEF LInv, Agrees
    <2>4. acct' \in Account /\ acct'.total = acct.total
      <3>1. acct = [total |-> acct.total, status |-> acct.status, level |-> acct.level]
        BY <2>3 DEF Account
      <3>2. acct' = [total |-> acct.total, status |-> 0, level |-> computeLoyaltyLevel(0)]
        BY <2>1, <3>1
      <3> QED BY <2>2, <2>3, <3>2 DEF Account
    <2>5. Agrees(acct, ledger)'
      BY <2>1, <2>4 DEF LInv, Agrees, Account, Once, Balance
    <2> QED BY <2>1, <2>5, HandlerMoves, IdleHolds DEF LInv
  <1>10. ASSUME NEW o \in Order, OrderMoves(o) PROVE LInv'
    BY <1>10 DEF OrderMoves, LInv, Agrees, Account, Once, Balance, Holding, Redeemed, Live, Left
  <1>11. ASSUME GrowOld PROVE LInv'
    <2>1. (past \in 0 .. Len(ledger))'
      <3>1. Len(ledger) \in Nat
        BY DEF LInv, Agrees
      <3> QED BY <1>11, <3>1 DEF GrowOld, LInv
    <2> QED BY <1>11, <2>1 DEF GrowOld, LInv, Agrees, Account, Once, Balance, Holding, Redeemed, Live, Left
  <1> QED BY <1>1, <1>2, <1>3, <1>5, <1>6, <1>7, <1>8, <1>9, <1>10, <1>11, GainStep, BonusStep, RedeemStep, RetireStep
       DEF LNext, LStatement

LEMMA LedgerAlways ==
  ASSUME OneWorker, Figures
  PROVE  LSpec => []LInv
  <1>1. LInv /\ [LNext]_lvars => LInv'
    BY LedgerStep
  <1> QED BY <1>1, InitLedger, PTL DEF LSpec

(* The counters, the rows and the levels keep their types: no total falls  *)
(* below zero and no row is used beyond its points.                        *)
THEOREM TypeCorrect ==
  ASSUME OneWorker, Figures
  PROVE  LSpec => []LTypeOK
  <1>1. LInv => LTypeOK
    BY Domains DEF LInv, Agrees, Account, LTypeOK, LRow
  <1> QED BY <1>1, LedgerAlways, PTL

(* total_points is what the rows still hold, whatever gains, orders paid   *)
(* in points, cancellations, expiries and years follow each other, and     *)
(* wherever a handler stops.                                               *)
THEOREM TotalIsLedger ==
  ASSUME OneWorker, Figures
  PROVE  LSpec => []BalanceIsLedger
  <1>1. LInv => BalanceIsLedger
    BY BalanceSummed DEF LInv, Agrees, BalanceIsLedger
  <1> QED BY <1>1, LedgerAlways, PTL

(* An order is charged once, though its acceptance and its completion both *)
(* ask for it.                                                             *)
THEOREM ChargedOnce ==
  ASSUME OneWorker, Figures
  PROVE  LSpec => []RedeemedOnce
  <1>1. LInv => RedeemedOnce
    BY DEF LInv, Agrees, Once, RedeemedOnce
  <1> QED BY <1>1, LedgerAlways, PTL

-----------------------------------------------------------------------------
(* Levels, whatever runs at once. *)

LevelInv ==
    /\ acct = [total |-> acct.total, status |-> acct.status, level |-> acct.level]
    /\ acct.status \in Nat
    /\ LevelFollowsStatus
    /\ lh = [w \in Worker |-> lh[w]]
    /\ \A w \in Worker : lh[w].pc = "gain" => lh[w].order \in Order

LEMMA TierIs ==
  ASSUME Figures
  PROVE  Tier("STANDARD") = 1 /\ Tier("VIP") = 2 /\ Tier("VVIP") = 3 /\ Tier(None) = 0
  <1>1. Levels[1] = "STANDARD" /\ Levels[2] = "VIP" /\ Levels[3] = "VVIP" /\ DOMAIN Levels = {1, 2, 3}
    BY DEF Levels
  <1>2. None \notin {"STANDARD", "VIP", "VVIP"}
    BY <1>1 DEF Figures, ToSet
  <1> QED BY <1>1, <1>2 DEF Tier

LEMMA LevelsRise ==
  ASSUME Figures, NEW n \in Nat, NEW m \in Nat, m <= n, NEW old \in {None, computeLoyaltyLevel(m)}
  PROVE  ~(Tier(computeLoyaltyLevel(n)) < Tier(old))
  BY TierIs DEF computeLoyaltyLevel, Figures

LEMMA LevelStep ==
  ASSUME LevelInv, Figures, [LNext]_lvars
  PROVE  LevelInv' /\ (Tier(acct'.level) < Tier(acct.level) => acct'.status = 0)
  <1> DEFINE Goal == LevelInv' /\ (Tier(acct'.level) < Tier(acct.level) => acct'.status = 0)
  <1>1. ~(Tier(acct.level) < Tier(acct.level))
    BY TierIs DEF LevelInv, LevelFollowsStatus, computeLoyaltyLevel
  <1>2. ASSUME acct' = acct, lh' = [w \in Worker |-> lh'[w]],
               \A w \in Worker : lh'[w].pc = "gain" => lh'[w].order \in Order
        PROVE  Goal
    BY <1>1, <1>2 DEF LevelInv, LevelFollowsStatus
  <1>3. ASSUME NEW w \in Worker, NEW x, lh' = [lh EXCEPT ![w] = x], x.pc = "gain" => x.order \in Order
        PROVE  lh' = [v \in Worker |-> lh'[v]] /\ \A v \in Worker : lh'[v].pc = "gain" => lh'[v].order \in Order
    BY <1>3 DEF LevelInv
  <1>4. ASSUME NEW n \in Nat, NEW a, a = [total |-> a.total, status |-> acct.status + n, level |-> acct.level],
               NEW led, NEW o, updateCustomerLoyaltyLevel(a, led, o),
               lh' = [w \in Worker |-> lh'[w]], \A w \in Worker : lh'[w].pc = "gain" => lh'[w].order \in Order
        PROVE  Goal
    <2>1. PICK g, k : acct' = [a EXCEPT !.level = k, !.total = @ + g] /\ k = computeLoyaltyLevel(a.status)
      BY <1>4 DEF updateCustomerLoyaltyLevel, NewLevel
    <2>2. acct' = [total |-> a.total + g, status |-> acct.status + n, level |-> computeLoyaltyLevel(acct.status + n)]
      <3>1. a.status = acct.status + n
        BY <1>4
      <3>2. a = [total |-> a.total, status |-> a.status, level |-> a.level]
        BY <1>4
      <3>3. acct' = [total |-> a.total + g, status |-> a.status, level |-> k]
        BY <2>1, <3>2
      <3> QED BY <2>1, <3>1, <3>3
    <2>3. acct.status \in Nat /\ acct.status + n \in Nat /\ acct.status <= acct.status + n
      BY DEF LevelInv
    <2>4. ~(Tier(acct'.level) < Tier(acct.level))
      BY <2>2, <2>3, LevelsRise DEF LevelInv, LevelFollowsStatus
    <2>5. lh' = [w \in Worker |-> lh'[w]] /\ \A w \in Worker : lh'[w].pc = "gain" => lh'[w].order \in Order
      BY <1>4
    <2>6. PICK m : m = acct.status + n
      OBVIOUS
    <2>7. acct' = [total |-> a.total + g, status |-> m, level |-> computeLoyaltyLevel(m)] /\ m \in Nat
      BY <2>2, <2>3, <2>6
    <2> QED BY <2>4, <2>5, <2>7 DEF LevelInv, LevelFollowsStatus
  <1>5. acct = [total |-> acct.total, status |-> acct.status, level |-> acct.level] /\ acct.status \in Nat
        /\ lh = [w \in Worker |-> lh[w]] /\ \A w \in Worker : lh[w].pc = "gain" => lh[w].order \in Order
    BY DEF LevelInv
  <1>6. LIdle.pc # "gain"
    BY DEF LIdle
  <1> HIDE DEF Goal
  <1>7. ASSUME UNCHANGED lvars PROVE Goal
    BY <1>2, <1>5, <1>7 DEF lvars
  <1>8. ASSUME NEW w \in Worker, NEW o \in Order, StartGain(w, o) \/ StartRedeem(w, o) PROVE Goal
    <2>1. acct' = acct
      BY <1>8 DEF StartGain, StartRedeem
    <2>2. CASE lh' = lh
      BY <1>2, <1>5, <2>1, <2>2
    <2>3. CASE \E p \in {"gain", "redeem"} : lh' = [lh EXCEPT ![w] = [pc |-> p, order |-> o]]
      BY <1>2, <1>3, <2>1, <2>3
    <2> QED BY <1>8, <2>2, <2>3 DEF StartGain, StartRedeem
  <1>9. ASSUME NEW w \in Worker, NEW rows, StartRetire(w, rows) PROVE Goal
    BY <1>2, <1>3, <1>9 DEF StartRetire
  <1>10. ASSUME NEW w \in Worker, NEW o \in Order, revokeEarnedPointsForOrder(w, o) PROVE Goal
    BY <1>9, <1>10 DEF revokeEarnedPointsForOrder
  <1>11. ASSUME NEW w \in Worker, expirePoints(w) PROVE Goal
    BY <1>9, <1>11 DEF expirePoints
  <1>12. ASSUME NEW w \in Worker, claimYear(w) PROVE Goal
    BY <1>2, <1>3, <1>12 DEF claimYear
  <1>13. ASSUME NEW w \in Worker, Retired(w) \/ LStop(w) PROVE Goal
    BY <1>2, <1>3, <1>6, <1>13 DEF Retired, LStop
  <1>14. ASSUME NEW w \in Worker, addPoints(w) PROVE Goal
    <2>1. lh[w].order \in Order /\ Earns[lh[w].order] \in Nat
      BY <1>5, <1>14 DEF addPoints, Figures
    <2>2. PICK n \in Nat : n = Earns[lh[w].order]
      BY <2>1
    <2>3. PICK a : a = [acct EXCEPT !.total = @ + n, !.status = @ + n]
      OBVIOUS
    <2>4. a = [total |-> acct.total + n, status |-> acct.status + n, level |-> acct.level]
      BY <1>5, <2>3
    <2>5. a = [total |-> a.total, status |-> acct.status + n, level |-> acct.level]
      BY <2>4
    <2>6. lh' = [lh EXCEPT ![w] = LIdle] /\ \E led, o : updateCustomerLoyaltyLevel(a, led, o)
      BY <1>14, <2>2, <2>3 DEF addPoints
    <2> QED BY <1>3, <1>4, <1>6, <2>5, <2>6
  <1>15. ASSUME addBonus(1) PROVE Goal
    <2>1. PICK a : a = [acct EXCEPT !.total = @ + 1]
      OBVIOUS
    <2>2. a = [total |-> acct.total + 1, status |-> acct.status, level |-> acct.level]
      BY <1>5, <2>1
    <2>3. a = [total |-> a.total, status |-> acct.status + 0, level |-> acct.level]
      BY <1>5, <2>2
    <2>4. lh' = lh /\ \E led, o : updateCustomerLoyaltyLevel(a, led, o)
      BY <1>15, <2>1 DEF addBonus
    <2> QED BY <1>4, <1>5, <2>3, <2>4
  <1>16. ASSUME NEW w \in Worker, redeemPoints(w) PROVE Goal
    <2>1. lh' = [lh EXCEPT ![w] = LIdle]
      BY <1>16 DEF redeemPoints
    <2>2. CASE acct' = acct
      BY <1>2, <1>3, <1>6, <2>1, <2>2
    <2>3. CASE acct' # acct
      <3>1. PICK n : n = Spends[lh[w].order]
        OBVIOUS
      <3>2. PICK a : a = [acct EXCEPT !.total = @ - n]
        OBVIOUS
      <3>3. a = [total |-> acct.total - n, status |-> acct.status, level |-> acct.level]
        BY <1>5, <3>2
      <3>4. a = [total |-> a.total, status |-> acct.status + 0, level |-> acct.level]
        BY <1>5, <3>3
      <3>5. \E led, o : updateCustomerLoyaltyLevel(a, led, o)
        BY <1>16, <2>3, <3>1, <3>2 DEF redeemPoints
      <3> QED BY <1>3, <1>4, <1>6, <2>1, <3>4, <3>5
    <2> QED BY <2>2, <2>3
  <1>17. ASSUME NEW w \in Worker, Retire(w) PROVE Goal
    <2>1. PICK x, t : lh' = [lh EXCEPT ![w] = x] /\ x = [lh[w] EXCEPT !.todo = t]
      BY <1>17 DEF Retire
    <2>2. x.pc = lh[w].pc
      BY <2>1
    <2>3. PICK d : acct' = [acct EXCEPT !.total = @ - d]
      BY <1>17 DEF Retire
    <2>4. acct' = [total |-> acct.total - d, status |-> acct.status, level |-> acct.level]
      BY <1>5, <2>3
    <2>5. lh' = [v \in Worker |-> lh'[v]] /\ \A v \in Worker : lh'[v].pc = "gain" => lh'[v].order \in Order
      BY <1>3, <1>17, <2>1, <2>2 DEF Retire
    <2> QED BY <1>1, <2>4, <2>5 DEF Goal, LevelInv, LevelFollowsStatus
  <1>18. ASSUME NEW w \in Worker, runReset(w) PROVE Goal
    <2>1. acct' = [total |-> acct.total, status |-> 0, level |-> computeLoyaltyLevel(0)]
      <3>1. acct' = [acct EXCEPT !.status = 0, !.level = computeLoyaltyLevel(0)]
        BY <1>18 DEF runReset
      <3> QED BY <1>5, <3>1
    <2>2. lh' = [lh EXCEPT ![w] = LIdle]
      BY <1>18 DEF runReset
    <2>3. lh' = [v \in Worker |-> lh'[v]] /\ \A v \in Worker : lh'[v].pc = "gain" => lh'[v].order \in Order
      BY <1>3, <1>6, <2>2
    <2> QED BY <2>1, <2>3 DEF Goal, LevelInv, LevelFollowsStatus
  <1>19. ASSUME \/ \E o \in Order : OrderMoves(o)
                \/ GrowOld
         PROVE  Goal
    BY <1>2, <1>5, <1>19 DEF OrderMoves, GrowOld
  <1>20. Goal
    <2>1. CASE \E w \in Worker, o \in Order : StartGain(w, o) \/ StartRedeem(w, o) \/ revokeEarnedPointsForOrder(w, o)
      BY <1>8, <1>10, <2>1
    <2>2. CASE \E w \in Worker : expirePoints(w) \/ claimYear(w) \/ LStatement(w) \/ LStop(w)
      BY <1>11, <1>12, <1>13, <1>14, <1>16, <1>17, <1>18, <2>2 DEF LStatement
    <2>3. CASE \E o \in Order : OrderMoves(o)
      BY <1>19, <2>3
    <2>4. CASE GrowOld
      BY <1>19, <2>4
    <2>5. LNext \/ UNCHANGED lvars
      OBVIOUS
    <2> QED BY <1>7, <1>15, <2>1, <2>2, <2>3, <2>4, <2>5 DEF LNext
  <1> QED BY <1>20 DEF Goal

LEMMA LevelAlways ==
  ASSUME Figures
  PROVE  LSpec => []LevelInv
  <1>1. LInit => LevelInv
    BY DEF LInit, LevelInv, LevelFollowsStatus, LIdle
  <1>2. LevelInv /\ [LNext]_lvars => LevelInv'
    BY LevelStep
  <1> QED BY <1>1, <1>2, PTL DEF LSpec

(* The level is the one the points of the year give, for any number of     *)
(* handlers at once and any thresholds.                                    *)
THEOREM LevelIsEarned ==
  ASSUME Figures
  PROVE  LSpec => []LevelFollowsStatus
  <1>1. LevelInv => LevelFollowsStatus
    BY DEF LevelInv
  <1> QED BY <1>1, LevelAlways, PTL

(* No handler but the reset of the year takes a level back.                *)
THEOREM LevelKept ==
  ASSUME Figures
  PROVE  LSpec => LevelFallsAtReset
  <1>1. LevelInv /\ [LNext]_lvars => [Tier(acct'.level) < Tier(acct.level) => acct'.status = 0]_lvars
    BY LevelStep
  <1> QED BY <1>1, LevelAlways, PTL DEF LSpec, LevelFallsAtReset

-----------------------------------------------------------------------------
(***************************************************************************)
(* The promo code and the voucher.                                         *)
(*                                                                         *)
(* The count of a code is kept in the transaction that changes a usage, so *)
(* it follows the usages whatever interleaves (CouponInv).  That an        *)
(* accepted order has its usage leans on the validator of the statuses     *)
(* and on every step that settles a usage coming to its end (SettledInv).  *)
(* A voucher is debited from what was read of it, with no lock: its        *)
(* balance needs one creation of an order at a time (BalanceInv).          *)
(***************************************************************************)

Amounts == Net \in [COrder -> Nat] /\ Value \in Nat /\ Issued \in Nat

Statuses == {"none", "PENDING", "ACCEPTED", "COMPLETED", "CANCELLED"}

CouponRow == [active : BOOLEAN, deleted : BOOLEAN, count : Nat]
UsageRow == [order : COrder, active : BOOLEAN]
VoucherRow == [status : {"ACTIVE", "CANCELLED", "REDEEMED", "EXPIRED"}, remaining : 0 .. Issued,
               deleted : BOOLEAN, dated : BOOLEAN]
OrderRow == [status : Statuses, coupon : {"none", "promo", "voucher"}, discount : Nat, moves : Nat, missed : BOOLEAN]
Handling == {CIdle} \union [pc : {"save"}, order : COrder, coupon : {"promo", "voucher"}, discount : Nat]
                    \union [pc : {"find", "stage", "activate", "deactivate"}, order : COrder]
                    \union [pc : {"debit"}, order : COrder, discount : Nat]
                    \union [pc : {"redeem"}, order : COrder, discount : Nat, seen : 0 .. Issued]

CouponTypes ==
    /\ promo \in CouponRow
    /\ usages \in Seq(UsageRow)
    /\ voucher \in VoucherRow
    /\ redemptions \in Seq([order : COrder, amount : Nat])
    /\ cord \in [COrder -> OrderRow]
    /\ ch \in [CWorker -> Handling]

Working(w) == ch[w].pc # "idle"

(* What a handler holds when it writes: an order that is not saved is in   *)
(* the hands of one handler, one that records a usage has the code, and a  *)
(* debit does not exceed what it has read.                                 *)
HeldInv ==
    \A w \in CWorker :
        LET h == ch[w] IN
        /\ h.pc = "save" =>
              /\ cord[h.order].status = "none"
              /\ h.discount <= Net[h.order]
              /\ \A v \in CWorker : Working(v) /\ ch[v].order = h.order => v = w
        /\ h.pc \in {"find", "stage", "activate"} => cord[h.order].coupon = "promo"
        /\ h.pc = "redeem" => h.discount <= h.seen

OrderInv ==
    /\ \A o \in COrder : /\ cord[o].status = "none" => cord[o].coupon = "none"
                         /\ cord[o].discount <= Net[o]
    /\ \A i \in DOMAIN usages : cord[usages[i].order].coupon = "promo"

CouponInv == CouponTypes /\ HeldInv /\ OrderInv /\ CountIsActive

LEMMA UsagesFinite ==
  ASSUME usages \in Seq(UsageRow)
  PROVE  /\ IsFiniteSet(ActiveUsages) /\ Cardinality(ActiveUsages) \in Nat
         /\ ActiveUsages \subseteq DOMAIN usages
  <1>1. DOMAIN usages = 1 .. Len(usages) /\ Len(usages) \in Nat
    OBVIOUS
  <1>2. IsFiniteSet(DOMAIN usages)
    BY <1>1, FS_Interval
  <1>3. ActiveUsages \subseteq DOMAIN usages
    BY DEF ActiveUsages
  <1> QED BY <1>2, <1>3, FS_Subset, FS_CardinalityType

LEMMA InitCoupons == ASSUME Amounts, CInit PROVE CouponInv
  <1>1. CouponTypes
    BY DEF CInit, CouponTypes, Amounts, CouponRow, VoucherRow, OrderRow, Handling, Statuses
  <1>2. HeldInv /\ OrderInv
    BY DEF CInit, HeldInv, OrderInv, CIdle, Amounts
  <1>3. ActiveUsages = {}
    BY DEF CInit, ActiveUsages
  <1>4. CountIsActive
    BY <1>3, FS_EmptySet DEF CInit, CountIsActive
  <1> QED BY <1>1, <1>2, <1>4 DEF CouponInv

(* A handler goes on to its next step: the others still hold what they did. *)
LEMMA HeldStep ==
  ASSUME Amounts, CouponInv, NEW w \in CWorker, NEW h \in Handling, ch' = [ch EXCEPT ![w] = h],
         \A o \in COrder : /\ cord'[o].coupon = cord[o].coupon
                           /\ cord'[o].status = "none" <=> cord[o].status = "none",
         \/ h = CIdle
         \/ Working(w) /\ h.order = ch[w].order
         \/ \A v \in CWorker : Working(v) => ch[v].order # h.order
         \/ cord[h.order].status # "none",
         h.pc = "save" =>
              /\ cord[h.order].status = "none"
              /\ h.discount <= Net[h.order]
              /\ \A v \in CWorker : Working(v) => ch[v].order # h.order,
         h.pc \in {"find", "stage", "activate"} => cord[h.order].coupon = "promo",
         h.pc = "redeem" => h.discount <= h.seen
  PROVE  HeldInv' /\ ch' \in [CWorker -> Handling]
  <1>1. ch'[w] = h /\ ch' \in [CWorker -> Handling] /\ \A v \in CWorker \ {w} : ch'[v] = ch[v]
    BY DEF CouponInv, CouponTypes
  <1>2. \A v \in CWorker : ch'[v].pc # "idle" => ch'[v].order \in COrder
    BY <1>1 DEF Handling, CIdle
  <1>3. HeldInv'
    <2> SUFFICES ASSUME NEW v \in CWorker
                 PROVE  /\ ch'[v].pc = "save" =>
                              /\ cord'[ch'[v].order].status = "none"
                              /\ ch'[v].discount <= Net[ch'[v].order]
                              /\ \A u \in CWorker : ch'[u].pc # "idle" /\ ch'[u].order = ch'[v].order => u = v
                        /\ ch'[v].pc \in {"find", "stage", "activate"} => cord'[ch'[v].order].coupon = "promo"
                        /\ ch'[v].pc = "redeem" => ch'[v].discount <= ch'[v].seen
      BY DEF HeldInv, Working
    <2>1. CASE v = w
      BY <1>1, <1>2, <2>1 DEF Working
    <2>2. CASE v # w
      <3>1. ch'[v] = ch[v]
        BY <1>1, <2>2
      <3>2. \A u \in CWorker : ch[v].pc = "save" /\ ch'[u].pc # "idle" /\ ch'[u].order = ch[v].order => u = v
        <4> SUFFICES ASSUME NEW u \in CWorker, ch[v].pc = "save", ch'[u].pc # "idle", ch'[u].order = ch[v].order, u # v
                     PROVE  FALSE
          OBVIOUS
        <4>1. cord[ch[v].order].status = "none" /\ Working(v) /\ \A x \in CWorker : Working(x) /\ ch[x].order = ch[v].order => x = v
          BY DEF CouponInv, HeldInv, Working
        <4>2. CASE u # w
          BY <1>1, <4>1, <4>2 DEF Working
        <4>3. CASE u = w
          BY <1>1, <2>2, <4>1, <4>3 DEF CIdle
        <4> QED BY <4>2, <4>3
      <3> QED BY <1>2, <3>1, <3>2 DEF CouponInv, HeldInv, Working
    <2> QED BY <2>1, <2>2
  <1> QED BY <1>1, <1>3

LEMMA SameOrders ==
  ASSUME CouponInv, cord' = cord, usages' = usages, promo'.count = promo.count
  PROVE  OrderInv' /\ CountIsActive'
  BY DEF CouponInv, OrderInv, CountIsActive, ActiveUsages

LEMMA CreateStep ==
  ASSUME Amounts, CouponInv, NEW w \in CWorker, NEW o \in COrder, createv2(w, o)
  PROVE  CouponInv'
  <1>1. cord[o].status = "none" /\ \A v \in CWorker : Working(v) => ch[v].order # o
    BY DEF createv2, Working
  <1>2. /\ promo' = promo /\ usages' = usages /\ voucher' = voucher
        /\ redemptions' = redemptions /\ cord' = cord
    BY DEF createv2
  <1>3. Min2(Value, Net[o]) \in Nat /\ Min2(Value, Net[o]) <= Net[o]
    BY DEF Min2, Amounts
  <1>4. Min2(voucher.remaining, Net[o]) \in Nat /\ Min2(voucher.remaining, Net[o]) <= Net[o]
    BY DEF Min2, Amounts, CouponInv, CouponTypes, VoucherRow
  <1>5. PICK h \in Handling : ch' = [ch EXCEPT ![w] = h] /\ h.pc = "save" /\ h.order = o /\ h.discount <= Net[o]
    <2>1. PICK k \in {"promo", "voucher"}, d \in Nat :
               d <= Net[o] /\ ch' = [ch EXCEPT ![w] = [pc |-> "save", order |-> o, coupon |-> k, discount |-> d]]
      BY <1>3, <1>4 DEF createv2, GoTo
    <2>2. [pc |-> "save", order |-> o, coupon |-> k, discount |-> d] \in Handling
      BY DEF Handling
    <2> QED BY <2>1, <2>2
  <1>6. HeldInv' /\ ch' \in [CWorker -> Handling]
    BY <1>1, <1>2, <1>5, HeldStep
  <1>7. CouponTypes'
    BY <1>2, <1>6 DEF CouponInv, CouponTypes, CouponRow, VoucherRow, UsageRow, OrderRow, Handling, Statuses, CIdle
  <1> QED BY <1>2, <1>6, <1>7, SameOrders DEF CouponInv

(* The steps that read, and those of the voucher.                          *)
LEMMA ReadStep ==
  ASSUME Amounts, CouponInv, NEW w \in CWorker,
         (\E o \in COrder : StartRecord(w, o)) \/ FindUsage(w) \/ RedeemRead(w) \/ RedeemWrite(w)
  PROVE  CouponInv'
  <1>1. promo' = promo /\ usages' = usages /\ cord' = cord
    BY DEF StartRecord, FindUsage, RedeemRead, RedeemWrite
  <1>2. ch[w] \in Handling /\ CIdle \in Handling /\ CIdle.pc = "idle"
    BY DEF CouponInv, CouponTypes, Handling, CIdle
  <1>3. PICK h \in Handling :
             /\ ch' = [ch EXCEPT ![w] = h] /\ h.pc # "save"
             /\ \/ h = CIdle
                \/ Working(w) /\ h.order = ch[w].order
                \/ cord[h.order].status # "none"
             /\ h.pc \in {"find", "stage", "activate"} => cord[h.order].coupon = "promo"
             /\ h.pc = "redeem" => h.discount <= h.seen
    <2>1. ASSUME NEW o \in COrder, StartRecord(w, o) PROVE ch' = [ch EXCEPT ![w] = [pc |-> "find", order |-> o]]
                                                          /\ cord[o].status # "none" /\ cord[o].coupon = "promo"
      BY <2>1 DEF StartRecord, GoTo
    <2>2. ASSUME NEW o \in COrder PROVE [pc |-> "find", order |-> o] \in Handling /\ [pc |-> "stage", order |-> o] \in Handling
      BY DEF Handling
    <2>3. CASE \E o \in COrder : StartRecord(w, o)
      BY <2>1, <2>2, <2>3
    <2>4. CASE FindUsage(w)
      <3>1. PICK o \in COrder : ch[w].order = o /\ cord[o].coupon = "promo" /\ Working(w)
        BY <1>2, <2>4 DEF FindUsage, CouponInv, HeldInv, Handling, CIdle, Working
      <3>2. ch' = [ch EXCEPT ![w] = [pc |-> "stage", order |-> o]] \/ ch' = [ch EXCEPT ![w] = CIdle]
        BY <2>4, <3>1 DEF FindUsage, GoTo
      <3> QED BY <1>2, <2>2, <3>1, <3>2
    <2>5. CASE RedeemRead(w)
      <3>1. PICK o \in COrder, d \in Nat, r \in 0 .. Issued : ch[w].order = o /\ ch[w].discount = d /\ voucher.remaining = r /\ Working(w)
        BY <1>2, <2>5 DEF RedeemRead, CouponInv, CouponTypes, VoucherRow, Handling, CIdle, Working
      <3>2. \/ d <= r /\ ch' = [ch EXCEPT ![w] = [pc |-> "redeem", order |-> o, discount |-> d, seen |-> r]]
            \/ ch' = [ch EXCEPT ![w] = CIdle]
        BY <2>5, <3>1 DEF RedeemRead, GoTo
      <3>3. [pc |-> "redeem", order |-> o, discount |-> d, seen |-> r] \in Handling
        BY DEF Handling
      <3> QED BY <1>2, <3>1, <3>2, <3>3
    <2>6. CASE RedeemWrite(w)
      BY <1>2, <2>6 DEF RedeemWrite, GoTo
    <2> QED BY <2>3, <2>4, <2>5, <2>6
  <1>4. HeldInv' /\ ch' \in [CWorker -> Handling]
    BY <1>1, <1>3, HeldStep
  <1>5. voucher' \in VoucherRow /\ redemptions' \in Seq([order : COrder, amount : Nat])
    <2>1. CASE voucher' = voucher /\ redemptions' = redemptions
      BY <2>1 DEF CouponInv, CouponTypes
    <2>2. CASE RedeemWrite(w)
      <3>1. PICK o \in COrder, d \in Nat, r \in 0 .. Issued : ch[w].order = o /\ ch[w].discount = d /\ ch[w].seen = r /\ d <= r
        BY <1>2, <2>2 DEF RedeemWrite, CouponInv, HeldInv, Handling, CIdle
      <3>2. redemptions' = Append(redemptions, [order |-> o, amount |-> d])
        BY <2>2, <3>1 DEF RedeemWrite
      <3>3. r - d \in 0 .. Issued
        BY <3>1 DEF Amounts
      <3>4. voucher' = [voucher EXCEPT !.remaining = r - d, !.status = IF r - d = 0 THEN "REDEEMED" ELSE @]
        BY <2>2, <3>1 DEF RedeemWrite
      <3>5. [order |-> o, amount |-> d] \in [order : COrder, amount : Nat]
        OBVIOUS
      <3>6. redemptions' \in Seq([order : COrder, amount : Nat])
        BY <3>2, <3>5, AppendProperties DEF CouponInv, CouponTypes
      <3>7. voucher' \in VoucherRow
        BY <3>3, <3>4 DEF CouponInv, CouponTypes, VoucherRow
      <3> QED BY <3>6, <3>7
    <2> QED BY <2>1, <2>2 DEF StartRecord, FindUsage, RedeemRead
  <1>6. CouponTypes'
    BY <1>1, <1>4, <1>5 DEF CouponInv, CouponTypes, CouponRow, VoucherRow, UsageRow, OrderRow, Handling, Statuses, CIdle
  <1> QED BY <1>1, <1>4, <1>6, SameOrders DEF CouponInv

LEMMA SaveStep ==
  ASSUME Amounts, CouponInv, NEW w \in CWorker, SaveOrder(w)
  PROVE  CouponInv'
  <1>1. PICK o \in COrder, k \in {"promo", "voucher"}, d \in Nat :
             ch[w] = [pc |-> "save", order |-> o, coupon |-> k, discount |-> d]
    <2>1. ch[w] \in Handling /\ ch[w].pc = "save"
      BY DEF SaveOrder, CouponInv, CouponTypes
    <2>2. ch[w] \in [pc : {"save"}, order : COrder, coupon : {"promo", "voucher"}, discount : Nat]
      BY <2>1 DEF Handling, CIdle
    <2> QED BY <2>2
  <1>2. /\ cord[o].status = "none" /\ cord[o].coupon = "none" /\ d <= Net[o]
        /\ \A v \in CWorker : Working(v) /\ ch[v].order = o => v = w
    BY <1>1 DEF CouponInv, HeldInv, OrderInv
  <1>3. /\ promo' = promo /\ usages' = usages /\ voucher' = voucher /\ redemptions' = redemptions
        /\ cord' = [cord EXCEPT ![o] = [@ EXCEPT !.status = "PENDING", !.coupon = k, !.discount = d]]
    BY <1>1 DEF SaveOrder
  <1>4. PICK h \in Handling : /\ ch' = [ch EXCEPT ![w] = h] /\ h.order = o /\ h.pc \in {"find", "debit"}
                              /\ h.pc = "find" => k = "promo"
    <2>1. [pc |-> "find", order |-> o] \in Handling /\ [pc |-> "debit", order |-> o, discount |-> d] \in Handling
      BY DEF Handling
    <2>2. \/ k = "promo" /\ ch' = [ch EXCEPT ![w] = [pc |-> "find", order |-> o]]
          \/ ch' = [ch EXCEPT ![w] = [pc |-> "debit", order |-> o, discount |-> d]]
      <3>1. ch[w].order = o /\ ch[w].coupon = k /\ ch[w].discount = d
        BY <1>1
      <3>2. ch' = [ch EXCEPT ![w] = IF k = "promo" THEN [pc |-> "find", order |-> o]
                                    ELSE [pc |-> "debit", order |-> o, discount |-> d]]
        BY <3>1 DEF SaveOrder, GoTo
      <3>3. CASE k = "promo"
        BY <3>2, <3>3
      <3>4. CASE k # "promo"
        BY <3>2, <3>4
      <3> QED BY <3>3, <3>4
    <2> QED BY <2>1, <2>2
  <1>5. /\ cord'[o].status = "PENDING" /\ cord'[o].coupon = k /\ cord'[o].discount = d
        /\ cord' \in [COrder -> OrderRow] /\ \A x \in COrder \ {o} : cord'[x] = cord[x]
    BY <1>3 DEF CouponInv, CouponTypes, OrderRow, Statuses
  <1>6. /\ ch'[w] = h /\ \A v \in CWorker \ {w} : ch'[v] = ch[v] /\ (Working(v) => ch[v].order # o)
        /\ ch' \in [CWorker -> Handling]
    BY <1>2, <1>4 DEF CouponInv, CouponTypes
  <1>7. CouponTypes'
    BY <1>3, <1>5, <1>6 DEF CouponInv, CouponTypes, CouponRow, VoucherRow, UsageRow, OrderRow, Handling, Statuses, CIdle
  <1>8. HeldInv'
    <2> SUFFICES ASSUME NEW v \in CWorker
                 PROVE  /\ ch'[v].pc = "save" =>
                              /\ cord'[ch'[v].order].status = "none"
                              /\ ch'[v].discount <= Net[ch'[v].order]
                              /\ \A u \in CWorker : ch'[u].pc # "idle" /\ ch'[u].order = ch'[v].order => u = v
                        /\ ch'[v].pc \in {"find", "stage", "activate"} => cord'[ch'[v].order].coupon = "promo"
                        /\ ch'[v].pc = "redeem" => ch'[v].discount <= ch'[v].seen
      BY DEF HeldInv, Working
    <2>1. CASE v = w
      BY <1>4, <1>5, <1>6, <2>1
    <2>2. CASE v # w
      <3>1. ch'[v] = ch[v] /\ (Working(v) => ch[v].order \in COrder \ {o})
        BY <1>6, <2>2 DEF CouponInv, CouponTypes, Handling, Working, CIdle
      <3>2. Working(v) => cord'[ch[v].order] = cord[ch[v].order]
        BY <1>5, <3>1
      <3>3. \A u \in CWorker : ch[v].pc = "save" /\ ch'[u].pc # "idle" /\ ch'[u].order = ch[v].order => u = v
        <4> SUFFICES ASSUME NEW u \in CWorker, ch[v].pc = "save", ch'[u].pc # "idle", ch'[u].order = ch[v].order
                     PROVE  u = v
          OBVIOUS
        <4>1. u # w
          BY <1>4, <1>6, <3>1 DEF Working
        <4>2. ch'[u] = ch[u]
          BY <1>6, <4>1
        <4> QED BY <4>2 DEF CouponInv, HeldInv, Working
      <3> QED BY <3>1, <3>2, <3>3 DEF CouponInv, HeldInv, Working
    <2> QED BY <2>1, <2>2
  <1>9. OrderInv'
    <2>1. \A i \in DOMAIN usages : usages[i].order \in COrder \ {o} /\ cord[usages[i].order].coupon = "promo"
      <3> SUFFICES ASSUME NEW i \in DOMAIN usages PROVE usages[i].order \in COrder \ {o} /\ cord[usages[i].order].coupon = "promo"
        OBVIOUS
      <3>1. usages[i] \in UsageRow /\ cord[usages[i].order].coupon = "promo"
        BY DEF CouponInv, CouponTypes, OrderInv
      <3> QED BY <1>2, <3>1 DEF UsageRow
    <2>2. \A i \in DOMAIN usages : cord'[usages[i].order].coupon = "promo"
      BY <1>5, <2>1
    <2>3. \A x \in COrder : /\ cord'[x].status = "none" => cord'[x].coupon = "none"
                            /\ cord'[x].discount <= Net[x]
      BY <1>2, <1>5 DEF CouponInv, OrderInv
    <2> QED BY <1>3, <2>2, <2>3 DEF OrderInv
  <1>10. CountIsActive'
    BY <1>3 DEF CouponInv, CountIsActive, ActiveUsages
  <1> QED BY <1>7, <1>8, <1>9, <1>10 DEF CouponInv

(* The steps that write the status of an order or the trace of an error.   *)
LEMMA StatusStep ==
  ASSUME Amounts, CouponInv, NEW w \in CWorker, (\E o \in COrder : updateStatus(w, o)) \/ Swallowed(w)
  PROVE  CouponInv'
  <1>1. promo' = promo /\ usages' = usages /\ voucher' = voucher /\ redemptions' = redemptions
    BY DEF updateStatus, Swallowed
  <1>2. ch[w] \in Handling /\ CIdle \in Handling /\ CIdle.pc = "idle"
    BY DEF CouponInv, CouponTypes, Handling, CIdle
  <1>3. PICK o \in COrder, h \in Handling :
             /\ ch' = [ch EXCEPT ![w] = h] /\ h.pc \in {"idle", "activate", "deactivate"}
             /\ h = CIdle \/ (h.order = o /\ cord[o].status # "none")
             /\ h.pc = "activate" => cord[o].coupon = "promo"
             /\ cord' \in [COrder -> OrderRow] /\ \A x \in COrder \ {o} : cord'[x] = cord[x]
             /\ cord'[o].coupon = cord[o].coupon /\ cord'[o].discount = cord[o].discount
             /\ cord'[o].status = "none" <=> cord[o].status = "none"
    <2>1. ASSUME NEW o \in COrder, updateStatus(w, o) 
          PROVE  \E h \in Handling :
             /\ ch' = [ch EXCEPT ![w] = h] /\ h.pc \in {"idle", "activate", "deactivate"}
             /\ h = CIdle \/ (h.order = o /\ cord[o].status # "none")
             /\ h.pc = "activate" => cord[o].coupon = "promo"
             /\ cord' \in [COrder -> OrderRow] /\ \A x \in COrder \ {o} : cord'[x] = cord[x]
             /\ cord'[o].coupon = cord[o].coupon /\ cord'[o].discount = cord[o].discount
             /\ cord'[o].status = "none" <=> cord[o].status = "none"
      <3>1. PICK m \in Moves : /\ m[1] = cord[o].status
                               /\ cord' = [cord EXCEPT ![o].status = m[2], ![o].moves = @ + 1, ![o].missed = FALSE]
                               /\ ch' = [ch EXCEPT ![w] =
                                    CASE m[2] = "ACCEPTED" /\ cord[o].coupon = "promo" -> [pc |-> "activate", order |-> o]
                                      [] m[2] = "CANCELLED" -> [pc |-> "deactivate", order |-> o]
                                      [] OTHER -> CIdle]
        BY <2>1 DEF updateStatus, GoTo
      <3>2. PICK st \in Statuses \ {"none"} : m[2] = st /\ m[1] # "none"
        BY DEF Moves, Statuses
      <3>3. /\ cord' \in [COrder -> OrderRow] /\ \A x \in COrder \ {o} : cord'[x] = cord[x]
            /\ cord'[o].coupon = cord[o].coupon /\ cord'[o].discount = cord[o].discount /\ cord'[o].status = st
        <4>1. cord[o] \in OrderRow /\ cord \in [COrder -> OrderRow] /\ cord[o].moves + 1 \in Nat
          BY DEF CouponInv, CouponTypes, OrderRow
        <4>2. cord' = [cord EXCEPT ![o].status = st, ![o].moves = cord[o].moves + 1, ![o].missed = FALSE]
          BY <3>1, <3>2, <4>1
        <4> QED BY <4>1, <4>2 DEF OrderRow
      <3>4. [pc |-> "activate", order |-> o] \in Handling /\ [pc |-> "deactivate", order |-> o] \in Handling
        BY DEF Handling
      <3>5. \/ ch' = [ch EXCEPT ![w] = [pc |-> "activate", order |-> o]] /\ cord[o].coupon = "promo"
            \/ ch' = [ch EXCEPT ![w] = [pc |-> "deactivate", order |-> o]]
            \/ ch' = [ch EXCEPT ![w] = CIdle]
        BY <3>1
      <3> QED BY <1>2, <3>1, <3>2, <3>3, <3>4, <3>5
    <2>2. CASE Swallowed(w)
      <3>1. PICK o \in COrder : ch[w].order = o
        BY <1>2, <2>2 DEF Swallowed, Handling, CIdle
      <3>2. PICK b \in BOOLEAN : cord' = [cord EXCEPT ![o].missed = b]
        <4> DEFINE b == cord[o].missed \/ ch[w].pc \in {"activate", "deactivate"}
        <4>1. cord' = [cord EXCEPT ![o].missed = b]
          BY <2>2, <3>1 DEF Swallowed
        <4>2. b \in BOOLEAN
          OBVIOUS
        <4> QED BY <4>1, <4>2
      <3>3. /\ cord' \in [COrder -> OrderRow] /\ \A x \in COrder \ {o} : cord'[x] = cord[x]
            /\ cord'[o].coupon = cord[o].coupon /\ cord'[o].discount = cord[o].discount /\ cord'[o].status = cord[o].status
        BY <3>2 DEF CouponInv, CouponTypes, OrderRow
      <3>4. ch' = [ch EXCEPT ![w] = CIdle]
        BY <2>2 DEF Swallowed, GoTo
      <3> QED BY <1>2, <3>3, <3>4
    <2> QED BY <2>1, <2>2
  <1>4. \A x \in COrder : cord'[x].coupon = cord[x].coupon /\ (cord'[x].status = "none" <=> cord[x].status = "none")
                          /\ cord'[x].discount = cord[x].discount
    BY <1>3
  <1>5. HeldInv' /\ ch' \in [CWorker -> Handling]
    <2>1. h = CIdle \/ cord[h.order].status # "none"
      BY <1>3
    <2>2. h.pc # "save" /\ h.pc # "redeem" /\ (h.pc \in {"find", "stage", "activate"} => cord[h.order].coupon = "promo")
      BY <1>2, <1>3
    <2>3. ch' = [ch EXCEPT ![w] = h]
      BY <1>3
    <2> QED BY <1>4, <2>1, <2>2, <2>3, HeldStep
  <1>6. CouponTypes'
    BY <1>1, <1>3, <1>5 DEF CouponInv, CouponTypes, CouponRow, VoucherRow, UsageRow, OrderRow, Handling, Statuses, CIdle
  <1>7. OrderInv' /\ CountIsActive'
    <2>1. ASSUME NEW i \in DOMAIN usages PROVE usages[i].order \in COrder
      <3>1. usages[i] \in UsageRow
        BY DEF CouponInv, CouponTypes
      <3> QED BY <3>1 DEF UsageRow
    <2> QED BY <1>1, <1>4, <2>1 DEF CouponInv, OrderInv, CountIsActive, ActiveUsages
  <1> QED BY <1>5, <1>6, <1>7 DEF CouponInv

LEMMA OfficeStep ==
  ASSUME Amounts, CouponInv, BackOffice
  PROVE  CouponInv'
  <1>1. usages' = usages /\ redemptions' = redemptions /\ cord' = cord /\ ch' = ch
    BY DEF BackOffice, toggleActive, removePromo, updateVoucher, cancelVoucher, removeOrRestoreVoucher,
           DatePasses, updateExpiredVouchers
  <1>2. promo' \in CouponRow /\ promo'.count = promo.count
    BY DEF CouponInv, CouponTypes, CouponRow, BackOffice, toggleActive, removePromo, updateVoucher, cancelVoucher,
           removeOrRestoreVoucher, DatePasses, updateExpiredVouchers
  <1>3. voucher' \in VoucherRow
    BY DEF CouponInv, CouponTypes, VoucherRow, BackOffice, toggleActive, removePromo, updateVoucher, cancelVoucher,
           removeOrRestoreVoucher, DatePasses, updateExpiredVouchers
  <1>4. CouponTypes'
    BY <1>1, <1>2, <1>3 DEF CouponInv, CouponTypes, CouponRow, VoucherRow, UsageRow, OrderRow, Handling, Statuses, CIdle
  <1>5. HeldInv'
    BY <1>1 DEF CouponInv, HeldInv, Working
  <1> QED BY <1>1, <1>2, <1>4, <1>5, SameOrders DEF CouponInv

(* What a step on the usages does to those of its order o and to the count. *)
Kept(o) ==
    /\ usages' \in Seq(UsageRow) /\ DOMAIN usages \subseteq DOMAIN usages'
    /\ \A i \in DOMAIN usages : usages'[i].order = usages[i].order
    /\ \A i \in DOMAIN usages' \ DOMAIN usages : usages'[i].order = o

Staged == ActiveUsages' = ActiveUsages /\ promo' = promo
Activated(o) == \E i \in UsagesOf(o)' :
    /\ ActiveUsages' = ActiveUsages \union {i}
    /\ promo' = [promo EXCEPT !.count = IF i \in ActiveUsages THEN @ ELSE @ + 1]
Deactivated(o) ==
    /\ ActiveUsages' = ActiveUsages \ UsagesOf(o)
    /\ promo' = [promo EXCEPT !.count = @ - Cardinality(UsagesOf(o) \intersect ActiveUsages)]

LEMMA UsageEffects ==
  ASSUME CouponInv, NEW w \in CWorker
  PROVE  /\ StageUsage(w) => ch[w].order \in COrder /\ Kept(ch[w].order) /\ Staged
         /\ activateUsageForOrder(w) => ch[w].order \in COrder /\ Kept(ch[w].order) /\ Activated(ch[w].order)
         /\ deactivateUsageForOrder(w) => ch[w].order \in COrder /\ Kept(ch[w].order) /\ Deactivated(ch[w].order)
  <1>1. ch[w] \in Handling /\ usages \in Seq(UsageRow)
    BY DEF CouponInv, CouponTypes
  <1>2. DOMAIN usages = 1 .. Len(usages) /\ Len(usages) \in Nat /\ \A i \in DOMAIN usages : usages[i] \in UsageRow
    BY <1>1
  <1>3. ASSUME NEW o \in COrder, NEW b \in BOOLEAN, usages' = Append(usages, [order |-> o, active |-> b])
        PROVE  /\ Kept(o) /\ DOMAIN usages' = DOMAIN usages \union {Len(usages) + 1}
               /\ \A i \in DOMAIN usages : usages'[i] = usages[i]
               /\ usages'[Len(usages) + 1] = [order |-> o, active |-> b]
               /\ Len(usages) + 1 \notin DOMAIN usages
    <2>1. [order |-> o, active |-> b] \in UsageRow
      BY DEF UsageRow
    <2>2. /\ usages' \in Seq(UsageRow) /\ Len(usages') = Len(usages) + 1
          /\ \A i \in 1 .. Len(usages) : usages'[i] = usages[i]
          /\ usages'[Len(usages) + 1] = [order |-> o, active |-> b]
      BY <1>1, <1>3, <2>1, AppendProperties
    <2>3. DOMAIN usages' = 1 .. Len(usages) + 1
      BY <2>2
    <2> QED BY <1>2, <2>2, <2>3 DEF Kept
  <1>4. CASE StageUsage(w)
    <2>1. PICK o \in COrder : ch[w].order = o
      BY <1>1, <1>4 DEF StageUsage, Handling, CIdle
    <2>2. usages' = Append(usages, [order |-> o, active |-> FALSE]) /\ promo' = promo
      BY <1>4, <2>1 DEF StageUsage
    <2>3. ActiveUsages' = ActiveUsages
      BY <1>3, <2>2 DEF ActiveUsages
    <2> QED BY <1>3, <1>4, <2>1, <2>2, <2>3 DEF Staged, StageUsage, activateUsageForOrder, deactivateUsageForOrder
  <1>5. CASE activateUsageForOrder(w)
    <2>1. PICK o \in COrder : ch[w].order = o
      BY <1>1, <1>5 DEF activateUsageForOrder, Handling, CIdle
    <2>2. ASSUME NEW i \in UsagesOf(o), usages' = [usages EXCEPT ![i].active = TRUE],
                 promo' = [promo EXCEPT !.count = IF usages[i].active THEN @ ELSE @ + 1]
          PROVE  Kept(o) /\ Activated(o)
      <3>1. i \in DOMAIN usages /\ usages[i].order = o
        BY DEF UsagesOf
      <3>2. PICK r \in UsageRow : usages[i] = r
        BY <1>2, <3>1
      <3>3. PICK n : n = [r EXCEPT !.active = TRUE]
        OBVIOUS
      <3>3a. n \in UsageRow /\ n.order = o /\ n.active
        BY <3>1, <3>2, <3>3 DEF UsageRow
      <3>4. usages' = [usages EXCEPT ![i] = n]
        BY <2>2, <3>2, <3>3
      <3>5. usages' \in Seq(UsageRow) /\ DOMAIN usages' = DOMAIN usages /\ \A j \in DOMAIN usages : usages'[j] = IF j = i THEN n ELSE usages[j]
        BY <1>1, <3>1, <3>4, <3>3a
      <3>6. Kept(o)
        BY <3>1, <3>3a, <3>5 DEF Kept
      <3>7. ActiveUsages' = ActiveUsages \union {i}
        BY <3>1, <3>3a, <3>5 DEF ActiveUsages
      <3>8. i \in UsagesOf(o)'
        BY <3>1, <3>3a, <3>5 DEF UsagesOf
      <3>9. i \in ActiveUsages <=> usages[i].active
        BY <3>1 DEF ActiveUsages
      <3> QED BY <2>2, <3>6, <3>7, <3>8, <3>9 DEF Activated
    <2>3. ASSUME usages' = Append(usages, [order |-> o, active |-> TRUE]), promo' = [promo EXCEPT !.count = @ + 1]
          PROVE  Kept(o) /\ Activated(o)
      <3>1. ActiveUsages' = ActiveUsages \union {Len(usages) + 1}
        BY <1>3, <2>3 DEF ActiveUsages
      <3>2. Len(usages) + 1 \in UsagesOf(o)' /\ Len(usages) + 1 \notin ActiveUsages
        BY <1>3, <2>3 DEF UsagesOf, ActiveUsages
      <3> QED BY <1>3, <2>3, <3>1, <3>2 DEF Activated
    <2> QED BY <1>5, <2>1, <2>2, <2>3 DEF activateUsageForOrder, StageUsage, deactivateUsageForOrder
  <1>6. CASE deactivateUsageForOrder(w)
    <2>1. PICK o \in COrder : ch[w].order = o
      BY <1>1, <1>6 DEF deactivateUsageForOrder, Handling, CIdle
    <2>2. usages' = [i \in DOMAIN usages |->
                       IF usages[i].order = o THEN [usages[i] EXCEPT !.active = FALSE] ELSE usages[i]]
      BY <1>6, <2>1 DEF deactivateUsageForOrder
    <2>3. \A i \in DOMAIN usages : /\ usages'[i] \in UsageRow /\ usages'[i].order = usages[i].order
                                   /\ usages'[i].active <=> usages[i].active /\ usages[i].order # o
      BY <1>2, <2>2 DEF UsageRow
    <2>4. DOMAIN usages' = 1 .. Len(usages) /\ usages' \in [1 .. Len(usages) -> UsageRow]
      BY <1>2, <2>2, <2>3
    <2>5. usages' \in Seq(UsageRow)
      BY <1>2, <2>4
    <2>6. ActiveUsages' = ActiveUsages \ UsagesOf(o)
      BY <1>2, <2>3, <2>4 DEF ActiveUsages, UsagesOf
    <2>7. Kept(o)
      BY <1>2, <2>3, <2>4, <2>5 DEF Kept
    <2> QED BY <1>6, <2>1, <2>6, <2>7 DEF deactivateUsageForOrder, Deactivated, StageUsage, activateUsageForOrder
  <1> QED BY <1>4, <1>5, <1>6

LEMMA UsageStep ==
  ASSUME Amounts, CouponInv, NEW w \in CWorker,
         StageUsage(w) \/ activateUsageForOrder(w) \/ deactivateUsageForOrder(w)
  PROVE  CouponInv'
  <1>1. PICK o \in COrder : ch[w].order = o /\ Kept(o) /\ (Staged \/ Activated(o) \/ Deactivated(o))
    BY UsageEffects
  <1>2. /\ voucher' = voucher /\ redemptions' = redemptions /\ cord' = cord /\ ch' = [ch EXCEPT ![w] = CIdle]
        /\ cord[o].coupon = "promo" \/ DOMAIN usages' = DOMAIN usages
    BY <1>1 DEF StageUsage, activateUsageForOrder, deactivateUsageForOrder, GoTo, CouponInv, HeldInv
  <1>3. HeldInv' /\ ch' \in [CWorker -> Handling]
    <2>1. CIdle \in Handling /\ CIdle.pc = "idle"
      BY DEF Handling, CIdle
    <2> QED BY <1>2, <2>1, HeldStep
  <1>4. IsFiniteSet(ActiveUsages) /\ Cardinality(ActiveUsages) \in Nat /\ promo.count = Cardinality(ActiveUsages)
    BY UsagesFinite DEF CouponInv, CouponTypes, CountIsActive
  <1>5. promo' \in CouponRow /\ CountIsActive'
    <2>1. CASE Staged
      BY <2>1 DEF Staged, CouponInv, CouponTypes, CountIsActive
    <2>2. ASSUME NEW n \in Nat, promo' = [promo EXCEPT !.count = n], n = Cardinality(ActiveUsages') PROVE promo' \in CouponRow /\ CountIsActive'
      BY <2>2 DEF CouponInv, CouponTypes, CouponRow, CountIsActive
    <2>3. CASE Activated(o)
      <3>1. PICK i : /\ ActiveUsages' = ActiveUsages \union {i}
                     /\ promo' = [promo EXCEPT !.count = IF i \in ActiveUsages THEN @ ELSE @ + 1]
        BY <2>3 DEF Activated
      <3>2. CASE i \in ActiveUsages
        <4>1. ActiveUsages' = ActiveUsages /\ promo' = [promo EXCEPT !.count = promo.count]
          BY <3>1, <3>2
        <4> QED BY <1>4, <2>2, <4>1
      <3>3. CASE i \notin ActiveUsages
        <4>1. Cardinality(ActiveUsages') = promo.count + 1
          BY <1>4, <3>1, <3>3, FS_AddElement
        <4>2. promo' = [promo EXCEPT !.count = promo.count + 1]
          BY <3>1, <3>3
        <4> QED BY <1>4, <2>2, <4>1, <4>2
      <3> QED BY <3>2, <3>3
    <2>4. CASE Deactivated(o)
      <3>1. /\ IsFiniteSet(ActiveUsages \ UsagesOf(o))
            /\ Cardinality(ActiveUsages \ UsagesOf(o)) = Cardinality(ActiveUsages) - Cardinality(ActiveUsages \cap UsagesOf(o))
        BY <1>4, FS_Difference
      <3>2. Cardinality(ActiveUsages') \in Nat
        BY <2>4, <3>1, FS_CardinalityType DEF Deactivated
      <3>3. ActiveUsages \cap UsagesOf(o) = UsagesOf(o) \cap ActiveUsages
        OBVIOUS
      <3>4. Cardinality(ActiveUsages') = promo.count - Cardinality(UsagesOf(o) \cap ActiveUsages)
        BY <1>4, <2>4, <3>1, <3>3 DEF Deactivated
      <3> QED BY <2>2, <2>4, <3>2, <3>4 DEF Deactivated
    <2> QED BY <1>1, <2>1, <2>3, <2>4
  <1>6. CouponTypes'
    <2>1. usages' \in Seq(UsageRow)
      BY <1>1 DEF Kept
    <2> QED BY <1>2, <1>3, <1>5, <2>1 DEF CouponInv, CouponTypes, CouponRow, VoucherRow, UsageRow, OrderRow, Handling, Statuses, CIdle
  <1>7. OrderInv'
    <2>1. \A i \in DOMAIN usages' \ DOMAIN usages : cord[usages'[i].order].coupon = "promo"
      BY <1>1, <1>2 DEF Kept
    <2>2. \A i \in DOMAIN usages : cord[usages'[i].order].coupon = "promo"
      BY <1>1 DEF Kept, CouponInv, OrderInv
    <2> QED BY <1>2, <2>1, <2>2 DEF CouponInv, OrderInv
  <1> QED BY <1>3, <1>5, <1>6, <1>7 DEF CouponInv

LEMMA CouponStep ==
  ASSUME Amounts, CouponInv, [CNext]_cvars
  PROVE  CouponInv'
  <1>1. CASE UNCHANGED cvars
    BY <1>1 DEF cvars, CouponInv, CouponTypes, HeldInv, OrderInv, CountIsActive, ActiveUsages, Working,
                CouponRow, VoucherRow, UsageRow, OrderRow, Handling, Statuses, CIdle
  <1> QED BY <1>1, CreateStep, ReadStep, SaveStep, StatusStep, OfficeStep, UsageStep DEF CNext

LEMMA CouponAlways == ASSUME Amounts PROVE CSpec => []CouponInv
  <1>1. CInit => CouponInv
    BY InitCoupons
  <1>2. CouponInv /\ [CNext]_cvars => CouponInv'
    BY CouponStep
  <1> QED BY <1>1, <1>2, PTL DEF CSpec

(* Codes, vouchers and usages keep their types, and no discount exceeds    *)
(* the price of its order, whatever interleaves.                           *)
THEOREM CouponTypeCorrect ==
  ASSUME Amounts
  PROVE  CSpec => []CTypeOK
  <1>1. CouponInv => CTypeOK
    <2> SUFFICES ASSUME CouponInv PROVE CTypeOK
      OBVIOUS
    <2>1. ASSUME NEW o \in COrder PROVE cord[o].discount \in 0 .. Net[o]
      <3>1. cord[o].discount \in Nat /\ cord[o].discount <= Net[o] /\ Net[o] \in Nat
        BY DEF CouponInv, CouponTypes, OrderInv, OrderRow, Amounts
      <3> QED BY <3>1
    <2> QED BY <2>1 DEF CTypeOK, CouponInv, CouponTypes, OrderInv, CouponRow, VoucherRow
  <1> QED BY <1>1, CouponAlways, PTL

(* usage_count is the number of usages that count, with any number of      *)
(* handlers and errors (activateUsageForOrder, deactivateUsageForOrder).   *)
THEOREM CountAgrees ==
  ASSUME Amounts
  PROVE  CSpec => []CountIsActive
  <1>1. CouponInv => CountIsActive
    BY DEF CouponInv
  <1> QED BY <1>1, CouponAlways, PTL

-----------------------------------------------------------------------------
(* The usages of one order, when no error is swallowed.                    *)

NoErrors == MaxErrors = 0

Counted(o) == UsagesOf(o) \intersect ActiveUsages
Settles(w) == ch[w].pc \in {"activate", "deactivate"}
Light(w) == ch[w].pc \in {"idle", "find", "stage"}

(* Who settles the usage of an order is alone with it, but for handlers    *)
(* that stage a usage, and its status is the one that asked for it.        *)
SettleInv ==
    \A w \in CWorker : Settles(w) =>
        /\ cord[ch[w].order].status = IF ch[w].pc = "activate" THEN "ACCEPTED" ELSE "CANCELLED"
        /\ \A v \in CWorker : Working(v) /\ ch[v].order = ch[w].order => v = w \/ Light(v)

(* What the status of an order says of the usages that count, up to the    *)
(* handler that is about to settle them.                                   *)
CountedInv ==
    \A o \in COrder : cord[o].coupon = "promo" =>
        /\ \A i, j \in Counted(o) : i = j
        /\ cord[o].status = "PENDING" => Counted(o) = {}
        /\ cord[o].status = "ACCEPTED" =>
              (Counted(o) = {} <=> \E w \in CWorker : ch[w].pc = "activate" /\ ch[w].order = o)
        /\ cord[o].status = "CANCELLED" =>
              Counted(o) = {} \/ \E w \in CWorker : ch[w].pc = "deactivate" /\ ch[w].order = o

SettledInv == errors \in Nat /\ SettleInv /\ CountedInv

(* A step of a handler that settles nothing.                               *)
LEMMA SettlesNothing ==
  ASSUME CouponInv, SettledInv, NEW w \in CWorker, NEW h \in Handling, ch' = [ch EXCEPT ![w] = h],
         ~Settles(w), h.pc \notin {"activate", "deactivate"}, errors' = errors,
         \/ h.pc \in {"idle", "find", "stage"}
         \/ Working(w) /\ ~Light(w) /\ h.order = ch[w].order
         \/ cord[h.order].status = "none",
         \A o \in COrder : Counted(o)' = Counted(o),
         \A o \in COrder : \/ cord'[o].status = cord[o].status /\ cord'[o].coupon = cord[o].coupon
                           \/ cord[o].status = "none" /\ cord'[o].status = "PENDING" /\ Counted(o) = {}
  PROVE  SettledInv'
  <1>1. ch'[w] = h /\ \A v \in CWorker \ {w} : ch'[v] = ch[v]
    BY DEF CouponInv, CouponTypes
  <1>2. \A v \in CWorker : Settles(v) => ch[v].order \in COrder
    BY DEF CouponInv, CouponTypes, Handling, CIdle, Settles
  <1>3. \A v \in CWorker : Settles(v)' => v # w /\ Settles(v) /\ ch'[v] = ch[v]
    BY <1>1 DEF Settles
  <1>4. SettleInv'
    <2> SUFFICES ASSUME NEW v \in CWorker, Settles(v)'
                 PROVE  /\ cord'[ch'[v].order].status = IF ch'[v].pc = "activate" THEN "ACCEPTED" ELSE "CANCELLED"
                        /\ \A u \in CWorker : ch'[u].pc # "idle" /\ ch'[u].order = ch'[v].order
                                                => u = v \/ ch'[u].pc \in {"idle", "find", "stage"}
      BY DEF SettleInv, Working, Light
    <2>1. /\ v # w /\ Settles(v) /\ ch'[v] = ch[v] /\ ch[v].order \in COrder
          /\ cord[ch[v].order].status = IF ch[v].pc = "activate" THEN "ACCEPTED" ELSE "CANCELLED"
          /\ \A u \in CWorker : Working(u) /\ ch[u].order = ch[v].order => u = v \/ Light(u)
      BY <1>2, <1>3 DEF SettledInv, SettleInv
    <2>2. cord[ch[v].order].status # "none"
      BY <2>1
    <2>3. cord'[ch[v].order].status = cord[ch[v].order].status
      BY <2>1, <2>2
    <2>4. ASSUME NEW u \in CWorker, ch'[u].pc # "idle", ch'[u].order = ch[v].order
          PROVE  u = v \/ ch'[u].pc \in {"idle", "find", "stage"}
      <3>1. CASE u = w
        <4>1. CASE Working(w) /\ ~Light(w) /\ h.order = ch[w].order
          BY <1>1, <2>1, <2>4, <3>1, <4>1
        <4> QED BY <1>1, <2>2, <2>4, <3>1, <4>1
      <3>2. CASE u # w
        BY <1>1, <2>1, <2>4, <3>2 DEF Working, Light
      <3> QED BY <3>1, <3>2
    <2> QED BY <2>1, <2>3, <2>4
  <1>5. CountedInv'
    <2> SUFFICES ASSUME NEW o \in COrder, cord'[o].coupon = "promo"
                 PROVE  /\ \A i, j \in Counted(o) : i = j
                        /\ cord'[o].status = "PENDING" => Counted(o) = {}
                        /\ cord'[o].status = "ACCEPTED" =>
                              (Counted(o) = {} <=> \E v \in CWorker : ch'[v].pc = "activate" /\ ch'[v].order = o)
                        /\ cord'[o].status = "CANCELLED" =>
                              Counted(o) = {} \/ \E v \in CWorker : ch'[v].pc = "deactivate" /\ ch'[v].order = o
      BY DEF CountedInv
    <2>1. CASE cord'[o].status = cord[o].status /\ cord'[o].coupon = cord[o].coupon
      <3>1. \A v \in CWorker : /\ ch'[v].pc = "activate" /\ ch'[v].order = o <=> ch[v].pc = "activate" /\ ch[v].order = o
                               /\ ch'[v].pc = "deactivate" /\ ch'[v].order = o <=> ch[v].pc = "deactivate" /\ ch[v].order = o
        BY <1>1, <1>3 DEF Settles
      <3> QED BY <2>1, <3>1 DEF SettledInv, CountedInv
    <2>2. CASE cord'[o].status = "PENDING" /\ Counted(o) = {}
      BY <2>2
    <2> QED BY <2>1, <2>2
  <1> QED BY <1>4, <1>5 DEF SettledInv

(* Usages of other orders count as before.                                 *)
LEMMA OtherCounts ==
  ASSUME CouponInv, NEW o \in COrder, Kept(o), NEW x \in COrder,
         \/ ActiveUsages' = ActiveUsages
         \/ x # o /\ \E i \in UsagesOf(o)' : ActiveUsages' = ActiveUsages \union {i}
         \/ x # o /\ ActiveUsages' = ActiveUsages \ UsagesOf(o)
  PROVE  Counted(x)' = Counted(x)
  <1>1. UsagesOf(x)' \cap DOMAIN usages = UsagesOf(x)
    BY DEF Kept, UsagesOf
  <1>2. ActiveUsages \subseteq DOMAIN usages
    BY DEF ActiveUsages
  <1>3. CASE ActiveUsages' = ActiveUsages
    BY <1>1, <1>2, <1>3 DEF Counted
  <1>4. ASSUME x # o PROVE UsagesOf(x)' = UsagesOf(x) /\ UsagesOf(x)' \cap UsagesOf(o)' = {} /\ UsagesOf(x) \cap UsagesOf(o) = {}
    BY <1>4 DEF Kept, UsagesOf
  <1> QED BY <1>3, <1>4 DEF Counted

LEMMA SettledInit == ASSUME CInit PROVE SettledInv
  <1>1. \A w \in CWorker : ch[w].pc = "idle"
    BY DEF CInit, CIdle
  <1>2. \A o \in COrder : cord[o].coupon = "none"
    BY DEF CInit
  <1> QED BY <1>1, <1>2 DEF CInit, SettledInv, SettleInv, CountedInv, Settles

LEMMA LightStep ==
  ASSUME CouponInv, CouponInv', SettledInv, NEW w \in CWorker,
         \/ \E o \in COrder : createv2(w, o) \/ StartRecord(w, o)
         \/ SaveOrder(w) \/ FindUsage(w) \/ StageUsage(w) \/ RedeemRead(w) \/ RedeemWrite(w)
  PROVE  SettledInv'
  <1>1. ch \in [CWorker -> Handling] /\ ch' \in [CWorker -> Handling] /\ CIdle.pc = "idle"
    BY DEF CouponInv, CouponTypes, CIdle
  <1>2. errors' = errors
    BY DEF createv2, StartRecord, SaveOrder, FindUsage, StageUsage, RedeemRead, RedeemWrite
  <1>3. ASSUME NEW r, GoTo(w, r), r.pc \notin {"activate", "deactivate"}, ~Settles(w),
               \A o \in COrder : Counted(o)' = Counted(o),
               \A o \in COrder : \/ cord'[o].status = cord[o].status /\ cord'[o].coupon = cord[o].coupon
                                 \/ cord[o].status = "none" /\ cord'[o].status = "PENDING" /\ Counted(o) = {},
               \/ r.pc \in {"idle", "find", "stage"}
               \/ Working(w) /\ ~Light(w) /\ r.order = ch[w].order
               \/ cord[r.order].status = "none"
        PROVE  SettledInv'
    <2>1. ch' = [ch EXCEPT ![w] = r]
      BY <1>3 DEF GoTo
    <2>2. PICK h \in Handling : h = r
      BY <1>1, <2>1
    <2> QED BY <1>2, <1>3, <2>1, <2>2, SettlesNothing
  <1>4. ASSUME usages' = usages PROVE \A o \in COrder : Counted(o)' = Counted(o)
    BY <1>4 DEF Counted, UsagesOf, ActiveUsages
  <1>5. ASSUME NEW o \in COrder, createv2(w, o) PROVE SettledInv'
    <2>1. cord[o].status = "none" /\ cord' = cord /\ usages' = usages /\ ~Settles(w)
      BY <1>1, <1>5 DEF createv2, Free, Settles
    <2>2. PICK k, d : GoTo(w, [pc |-> "save", order |-> o, coupon |-> k, discount |-> d])
      BY <1>5 DEF createv2
    <2> QED BY <1>3, <1>4, <2>1, <2>2
  <1>6. ASSUME NEW o \in COrder, StartRecord(w, o) PROVE SettledInv'
    <2>1. cord' = cord /\ usages' = usages /\ ~Settles(w) /\ GoTo(w, [pc |-> "find", order |-> o])
      BY <1>1, <1>6 DEF StartRecord, Free, Settles
    <2> QED BY <1>3, <1>4, <2>1
  <1>7. ASSUME SaveOrder(w) PROVE SettledInv'
    <2>1. PICK o \in COrder : \E k, d : ch[w].order = o /\ ch[w].coupon = k /\ ch[w].discount = d /\ ch[w].pc = "save"
      BY <1>1, <1>7 DEF SaveOrder, Handling, CIdle
    <2> PICK k, d : ch[w].order = o /\ ch[w].coupon = k /\ ch[w].discount = d /\ ch[w].pc = "save"
      BY <2>1
    <2>2. /\ usages' = usages /\ cord' = [cord EXCEPT ![o] = [@ EXCEPT !.status = "PENDING", !.coupon = k, !.discount = d]]
          /\ GoTo(w, IF k = "promo" THEN [pc |-> "find", order |-> o] ELSE [pc |-> "debit", order |-> o, discount |-> d])
      BY <1>7, <2>1 DEF SaveOrder
    <2>3. cord[o].status = "none" /\ cord[o].coupon = "none"
      BY <2>1 DEF CouponInv, HeldInv, OrderInv
    <2>4. Counted(o) = {}
      BY <2>3 DEF CouponInv, OrderInv, Counted, UsagesOf
    <2>5. cord'[o].status = "PENDING" /\ \A x \in COrder \ {o} : cord'[x] = cord[x]
      BY <2>2 DEF CouponInv, CouponTypes, OrderRow
    <2>6. ~Settles(w) /\ ~Light(w) /\ Working(w)
      BY <2>1 DEF Settles, Light, Working
    <2>7. CASE GoTo(w, [pc |-> "find", order |-> o])
      BY <1>3, <1>4, <2>2, <2>3, <2>4, <2>5, <2>6, <2>7
    <2>8. CASE GoTo(w, [pc |-> "debit", order |-> o, discount |-> d])
      BY <1>3, <1>4, <2>1, <2>2, <2>3, <2>4, <2>5, <2>6, <2>8
    <2>9. CASE k = "promo"
      BY <2>2, <2>7, <2>9
    <2>10. CASE k # "promo"
      BY <2>2, <2>8, <2>10
    <2> QED BY <2>9, <2>10
  <1>8. ASSUME FindUsage(w) PROVE SettledInv'
    <2>1. cord' = cord /\ usages' = usages /\ ~Settles(w)
      BY <1>8 DEF FindUsage, Settles
    <2>2. GoTo(w, [pc |-> "stage", order |-> ch[w].order]) \/ GoTo(w, CIdle)
      BY <1>8 DEF FindUsage
    <2> QED BY <1>1, <1>3, <1>4, <2>1, <2>2
  <1>9. ASSUME StageUsage(w) PROVE SettledInv'
    <2>1. cord' = cord /\ GoTo(w, CIdle) /\ ~Settles(w)
      BY <1>9 DEF StageUsage, Settles
    <2>2. \A o \in COrder : Counted(o)' = Counted(o)
      BY <1>9, UsageEffects, OtherCounts DEF Staged
    <2> QED BY <1>1, <1>3, <2>1, <2>2
  <1>10. ASSUME RedeemRead(w) PROVE SettledInv'
    <2>1. cord' = cord /\ usages' = usages /\ ch[w].pc = "debit"
      BY <1>10 DEF RedeemRead
    <2>2. ~Settles(w) /\ ~Light(w) /\ Working(w)
      BY <2>1 DEF Settles, Light, Working
    <2>3. \/ GoTo(w, [pc |-> "redeem", order |-> ch[w].order, discount |-> ch[w].discount, seen |-> voucher.remaining])
          \/ GoTo(w, CIdle)
      BY <1>10 DEF RedeemRead
    <2> QED BY <1>1, <1>3, <1>4, <2>1, <2>2, <2>3
  <1>11. ASSUME RedeemWrite(w) PROVE SettledInv'
    <2>1. cord' = cord /\ usages' = usages /\ GoTo(w, CIdle) /\ ~Settles(w)
      BY <1>11 DEF RedeemWrite, Settles
    <2> QED BY <1>1, <1>3, <1>4, <2>1
  <1> QED BY <1>5, <1>6, <1>7, <1>8, <1>9, <1>10, <1>11

(* A new status: the handler that settles the usage comes with it.         *)
LEMMA NewStatus ==
  ASSUME CouponInv, CouponInv', SettledInv, NEW w \in CWorker, NEW o \in COrder, updateStatus(w, o)
  PROVE  SettledInv'
  <1>1. ch \in [CWorker -> Handling] /\ ch' \in [CWorker -> Handling] /\ ch[w] = CIdle /\ CIdle.pc = "idle"
    BY DEF CouponInv, CouponTypes, CIdle, updateStatus, Free
  <1>2. \A v \in CWorker : Working(v) /\ ch[v].order = o => Light(v)
    BY DEF updateStatus, Working, Light
  <1>3. errors' = errors /\ \A x : Counted(x)' = Counted(x)
    BY DEF updateStatus, Counted, UsagesOf, ActiveUsages
  <1>4. PICK m \in Moves : /\ m[1] = cord[o].status
                           /\ cord' = [cord EXCEPT ![o].status = m[2], ![o].moves = @ + 1, ![o].missed = FALSE]
                           /\ GoTo(w, CASE m[2] = "ACCEPTED" /\ cord[o].coupon = "promo" -> [pc |-> "activate", order |-> o]
                                        [] m[2] = "CANCELLED" -> [pc |-> "deactivate", order |-> o]
                                        [] OTHER -> CIdle)
    BY DEF updateStatus
  <1>5. /\ cord'[o].status = m[2] /\ cord'[o].coupon = cord[o].coupon /\ \A x \in COrder \ {o} : cord'[x] = cord[x]
    BY <1>4 DEF CouponInv, CouponTypes, OrderRow
  <1>6. /\ m[2] = "ACCEPTED" /\ cord[o].coupon = "promo" => ch'[w] = [pc |-> "activate", order |-> o]
        /\ m[2] = "CANCELLED" => ch'[w] = [pc |-> "deactivate", order |-> o]
        /\ ~(m[2] = "ACCEPTED" /\ cord[o].coupon = "promo") /\ m[2] # "CANCELLED" => ch'[w] = CIdle
        /\ \A v \in CWorker \ {w} : ch'[v] = ch[v]
    BY <1>1, <1>4 DEF GoTo
  <1>7. SettleInv'
    <2> SUFFICES ASSUME NEW v \in CWorker, Settles(v)'
                 PROVE  /\ cord'[ch'[v].order].status = IF ch'[v].pc = "activate" THEN "ACCEPTED" ELSE "CANCELLED"
                        /\ \A u \in CWorker : ch'[u].pc # "idle" /\ ch'[u].order = ch'[v].order
                                                => u = v \/ ch'[u].pc \in {"idle", "find", "stage"}
      BY DEF SettleInv, Working, Light
    <2>1. CASE v = w
      BY <1>1, <1>2, <1>5, <1>6, <2>1 DEF Settles, Working, Light
    <2>2. CASE v # w
      <3>1. Settles(v) /\ ch'[v] = ch[v] /\ ch[v].order \in COrder
        BY <1>1, <1>6, <2>2 DEF Settles, Handling, CIdle
      <3>2. ch[v].order # o
        BY <1>2, <3>1 DEF Settles, Working, Light
      <3>3. cord'[ch[v].order] = cord[ch[v].order]
        BY <1>5, <3>1, <3>2
      <3>4. ch'[w].pc = "idle" \/ ch'[w].order = o
        BY <1>1, <1>6
      <3> QED BY <1>6, <3>1, <3>2, <3>3, <3>4 DEF SettledInv, SettleInv, Working, Light
    <2> QED BY <2>1, <2>2
  <1>8. CountedInv'
    <2> SUFFICES ASSUME NEW x \in COrder, cord'[x].coupon = "promo"
                 PROVE  /\ \A i, j \in Counted(x) : i = j
                        /\ cord'[x].status = "PENDING" => Counted(x) = {}
                        /\ cord'[x].status = "ACCEPTED" =>
                              (Counted(x) = {} <=> \E v \in CWorker : ch'[v].pc = "activate" /\ ch'[v].order = x)
                        /\ cord'[x].status = "CANCELLED" =>
                              Counted(x) = {} \/ \E v \in CWorker : ch'[v].pc = "deactivate" /\ ch'[v].order = x
      BY <1>3 DEF CountedInv
    <2>1. CASE x # o
      <3>1. \A v \in CWorker : /\ ch'[v].pc = "activate" /\ ch'[v].order = x <=> ch[v].pc = "activate" /\ ch[v].order = x
                               /\ ch'[v].pc = "deactivate" /\ ch'[v].order = x <=> ch[v].pc = "deactivate" /\ ch[v].order = x
        BY <1>1, <1>6, <2>1
      <3> QED BY <1>5, <2>1, <3>1 DEF SettledInv, CountedInv
    <2>2. CASE x = o
      <3>1. cord[o].coupon = "promo" /\ \A i, j \in Counted(o) : i = j
        BY <1>5, <2>2 DEF SettledInv, CountedInv
      <3>2. m[1] \in {"PENDING", "CANCELLED"} => Counted(o) = {}
        BY <1>2, <1>4, <3>1 DEF SettledInv, CountedInv, Working, Light
      <3>3. (m[2] = "PENDING" \/ m[2] = "ACCEPTED") => m[1] \in {"PENDING", "CANCELLED"}
        BY DEF Moves
      <3> QED BY <1>5, <1>6, <2>2, <3>1, <3>2, <3>3
    <2> QED BY <2>1, <2>2
  <1> QED BY <1>3, <1>7, <1>8 DEF SettledInv

(* The handler that settles the usage of an order ends.                    *)
LEMMA SettleStep ==
  ASSUME CouponInv, CouponInv', SettledInv, NEW w \in CWorker,
         activateUsageForOrder(w) \/ deactivateUsageForOrder(w)
  PROVE  SettledInv'
  <1>1. ch \in [CWorker -> Handling] /\ CIdle.pc = "idle" /\ Settles(w) /\ Working(w)
    BY DEF CouponInv, CouponTypes, CIdle, activateUsageForOrder, deactivateUsageForOrder, Settles, Working
  <1>2. errors' = errors /\ cord' = cord /\ ch'[w] = CIdle /\ \A v \in CWorker \ {w} : ch'[v] = ch[v]
    BY <1>1 DEF activateUsageForOrder, deactivateUsageForOrder, GoTo
  <1>3. PICK o \in COrder : /\ ch[w].order = o /\ Kept(o)
                            /\ \/ Activated(o) /\ ch[w].pc = "activate" /\ cord[o].coupon = "promo" /\ cord[o].status = "ACCEPTED"
                               \/ Deactivated(o) /\ ch[w].pc = "deactivate" /\ cord[o].status = "CANCELLED"
    BY <1>1, UsageEffects DEF activateUsageForOrder, deactivateUsageForOrder, CouponInv, HeldInv, SettledInv, SettleInv
  <1>4. \A v \in CWorker \ {w} : Working(v) /\ ch[v].order = o => Light(v)
    BY <1>1, <1>3 DEF SettledInv, SettleInv
  <1>5. \A x \in COrder \ {o} : Counted(x)' = Counted(x)
    BY <1>3, OtherCounts DEF Activated, Deactivated
  <1>6. \A v \in CWorker : Settles(v)' => v # w /\ Settles(v) /\ ch'[v] = ch[v]
    BY <1>1, <1>2 DEF Settles
  <1>7. SettleInv'
    BY <1>1, <1>2, <1>6 DEF SettledInv, SettleInv, Working, Light
  <1>8. /\ Deactivated(o) => Counted(o)' = {}
        /\ Activated(o) /\ Counted(o) = {} => \E i : Counted(o)' = {i}
    <2>1. ActiveUsages \subseteq DOMAIN usages /\ UsagesOf(o)' \cap DOMAIN usages = UsagesOf(o)
      BY <1>3 DEF ActiveUsages, Kept, UsagesOf
    <2> QED BY <2>1 DEF Activated, Deactivated, Counted
  <1>9. CountedInv'
    <2> SUFFICES ASSUME NEW x \in COrder, cord[x].coupon = "promo"
                 PROVE  /\ \A i, j \in Counted(x)' : i = j
                        /\ cord[x].status = "PENDING" => Counted(x)' = {}
                        /\ cord[x].status = "ACCEPTED" =>
                              (Counted(x)' = {} <=> \E v \in CWorker : ch'[v].pc = "activate" /\ ch'[v].order = x)
                        /\ cord[x].status = "CANCELLED" =>
                              Counted(x)' = {} \/ \E v \in CWorker : ch'[v].pc = "deactivate" /\ ch'[v].order = x
      BY <1>2 DEF CountedInv
    <2>1. CASE x # o
      <3>1. \A v \in CWorker : /\ ch'[v].pc = "activate" /\ ch'[v].order = x <=> ch[v].pc = "activate" /\ ch[v].order = x
                               /\ ch'[v].pc = "deactivate" /\ ch'[v].order = x <=> ch[v].pc = "deactivate" /\ ch[v].order = x
        BY <1>1, <1>2, <1>3, <2>1
      <3> QED BY <1>5, <2>1, <3>1 DEF SettledInv, CountedInv
    <2>2. CASE x = o
      <3>1. \A v \in CWorker : ~(ch'[v].pc = "activate" /\ ch'[v].order = o)
        BY <1>1, <1>2, <1>4 DEF Working, Light
      <3>2. CASE Activated(o) /\ ch[w].pc = "activate" /\ cord[o].coupon = "promo" /\ cord[o].status = "ACCEPTED"
        <4>1. Counted(o) = {}
          BY <1>3, <3>2 DEF SettledInv, CountedInv
        <4>2. PICK i : Counted(o)' = {i}
          BY <1>8, <3>2, <4>1
        <4> QED BY <2>2, <3>1, <3>2, <4>2
      <3>3. CASE Deactivated(o) /\ cord[o].status = "CANCELLED"
        BY <1>8, <2>2, <3>3
      <3> QED BY <1>3, <3>2, <3>3
    <2> QED BY <2>1, <2>2
  <1> QED BY <1>2, <1>7, <1>9 DEF SettledInv

LEMMA SettledStep ==
  ASSUME NoErrors, CouponInv, CouponInv', SettledInv, [CNext]_cvars
  PROVE  SettledInv'
  <1>1. \A w : ~Swallowed(w)
    BY DEF NoErrors, SettledInv, Swallowed
  <1>2. CASE usages' = usages /\ cord' = cord /\ ch' = ch /\ errors' = errors
    BY <1>2 DEF SettledInv, SettleInv, CountedInv, Settles, Light, Working, Counted, UsagesOf, ActiveUsages
  <1>3. CASE BackOffice
    BY <1>2, <1>3 DEF BackOffice, toggleActive, removePromo, updateVoucher, cancelVoucher, removeOrRestoreVoucher,
                      DatePasses, updateExpiredVouchers
  <1>4. CASE UNCHANGED cvars
    BY <1>2, <1>4 DEF cvars
  <1> QED BY <1>1, <1>3, <1>4, LightStep, NewStatus, SettleStep DEF CNext

(* At rest an accepted order counts its usage once and a cancelled or      *)
(* pending one does not, whoever staged it, while no error is swallowed    *)
(* (activateUsageForOrder, deactivateUsageForOrder).                       *)
THEOREM UsageFollowsOrder ==
  ASSUME Amounts, NoErrors
  PROVE  CSpec => []AcceptedIsCounted
  <1>1. CInit => SettledInv
    BY SettledInit
  <1>2. CouponInv /\ CouponInv' /\ SettledInv /\ [CNext]_cvars => SettledInv'
    BY SettledStep
  <1>3. SettledInv => AcceptedIsCounted
    <2> SUFFICES ASSUME SettledInv, NEW o \in COrder, \A w \in CWorker : ch[w] = CIdle, cord[o].coupon = "promo"
                 PROVE  /\ cord[o].status = "ACCEPTED" => Cardinality(Counted(o)) = 1
                        /\ cord[o].status = "CANCELLED" => Cardinality(Counted(o)) = 0
      BY DEF AcceptedIsCounted, Counted
    <2>1. \A w \in CWorker : ch[w].pc = "idle"
      BY DEF CIdle
    <2>2. cord[o].status = "ACCEPTED" => \E i : Counted(o) = {i}
      <3>1. \A i, j \in Counted(o) : i = j
        BY DEF SettledInv, CountedInv
      <3>2. cord[o].status = "ACCEPTED" => Counted(o) # {}
        BY <2>1 DEF SettledInv, CountedInv
      <3> QED BY <3>1, <3>2
    <2>3. cord[o].status = "CANCELLED" => Counted(o) = {}
      BY <2>1 DEF SettledInv, CountedInv
    <2> QED BY <2>2, <2>3, FS_EmptySet, FS_Singleton
  <1> QED BY <1>1, <1>2, <1>3, CouponAlways, PTL DEF CSpec

-----------------------------------------------------------------------------
(* The balance of the voucher, when one handler at a time redeems it.      *)

OneCheckout == \A v, w \in CWorker : "create" \in CKinds[v] /\ "create" \in CKinds[w] => v = w

(* Who redeems has read what the voucher still holds.                      *)
CheckoutInv ==
    \A w \in CWorker :
        /\ ch[w].pc \in {"save", "debit", "redeem"} => "create" \in CKinds[w]
        /\ ch[w].pc = "redeem" => ch[w].seen = voucher.remaining

BalanceInv == CheckoutInv /\ VoucherBalance

LEMMA DebitedGrows ==
  ASSUME CouponInv, NEW o \in COrder, NEW d \in Nat, redemptions' = Append(redemptions, [order |-> o, amount |-> d])
  PROVE  Debited \in Nat /\ Debited' = Debited + d
  <1> DEFINE v == [i \in DOMAIN redemptions |-> redemptions[i].amount]
             w == [i \in DOMAIN redemptions' |-> redemptions'[i].amount]
             n == Len(redemptions)
  <1>1. n \in Nat /\ DOMAIN redemptions = 1 .. n /\ \A i \in 1 .. n : redemptions[i].amount \in Nat
    <2>1. redemptions \in Seq([order : COrder, amount : Nat])
      BY DEF CouponInv, CouponTypes
    <2>2. ASSUME NEW i \in 1 .. n PROVE redemptions[i].amount \in Nat
      <3>1. redemptions[i] \in [order : COrder, amount : Nat]
        BY <2>1, ElementOfSeq
      <3> QED BY <3>1
    <2> QED BY <2>1, <2>2
  <1>2. /\ DOMAIN redemptions' = 1 .. n + 1 /\ redemptions'[n + 1].amount = d
        /\ \A i \in 1 .. n : redemptions'[i] = redemptions[i]
    <2>1. [order |-> o, amount |-> d] \in [order : COrder, amount : Nat]
      OBVIOUS
    <2>2. /\ Len(redemptions') = n + 1 /\ redemptions'[n + 1] = [order |-> o, amount |-> d]
          /\ \A i \in 1 .. n : redemptions'[i] = redemptions[i]
          /\ redemptions' \in Seq([order : COrder, amount : Nat])
      BY <2>1, AppendProperties DEF CouponInv, CouponTypes
    <2> QED BY <2>2
  <1>3. v \in [1 .. n -> Nat] /\ w \in [1 .. n + 1 -> Nat] /\ \A i \in 1 .. n : w[i] = v[i]
    BY <1>1, <1>2
  <1>4. w[n + 1] = d /\ DOMAIN v = 1 .. n /\ DOMAIN w = 1 .. n + 1
    BY <1>1, <1>2
  <1>5. Debited = SumFunctionOnSet(v, 1 .. n) /\ Debited' = SumFunctionOnSet(w, 1 .. n + 1)
    BY <1>4 DEF Debited, SumFunction
  <1>6. IsFiniteSet(1 .. n) /\ IsFiniteSet(1 .. n + 1)
    BY <1>1, FS_Interval
  <1> HIDE DEF v, w, n
  <1>7. Debited = Weight(v, 1 .. n) /\ Weight(v, 1 .. n) \in Nat
    BY <1>3, <1>5, <1>6, SumIsWeight, UnitsFinite
  <1>8. Debited' = Weight(w, 1 .. n + 1)
    <2> DEFINE N == 1 .. n + 1
    <2>1. w \in [N -> Nat] /\ IsFiniteSet(N) /\ Debited' = SumFunctionOnSet(w, N)
      BY <1>3, <1>5, <1>6
    <2> HIDE DEF N
    <2>2. SumFunctionOnSet(w, N) = Weight(w, N)
      BY <2>1, SumIsWeight
    <2> QED BY <2>1, <2>2 DEF N
  <1>9. Weight(w, 1 .. n + 1) = Weight(v, 1 .. n) + w[n + 1]
    BY <1>1, <1>3, WeightAppend
  <1> QED BY <1>4, <1>7, <1>8, <1>9

LEMMA BalanceInit == ASSUME Amounts, CInit PROVE BalanceInv
  <1>1. CheckoutInv
    BY DEF CInit, CheckoutInv, CIdle
  <1> DEFINE v == [i \in DOMAIN redemptions |-> redemptions[i].amount]
  <1>2. DOMAIN v = {} /\ v \in [{} -> Nat] /\ IsFiniteSet({})
    BY FS_EmptySet DEF CInit
  <1>3. Debited = SumFunctionOnSet(v, {})
    BY <1>2 DEF Debited, SumFunction
  <1> HIDE DEF v
  <1>4. Debited = 0
    BY <1>2, <1>3, SumIsWeight, WeightNone
  <1> QED BY <1>1, <1>4 DEF BalanceInv, VoucherBalance, CInit, Amounts

LEMMA BalanceStep ==
  ASSUME Amounts, OneCheckout, CouponInv, BalanceInv, [CNext]_cvars
  PROVE  BalanceInv'
  <1>1. ch \in [CWorker -> Handling] /\ CIdle.pc = "idle"
    BY DEF CouponInv, CouponTypes, CIdle
  <1>2. ASSUME NEW w \in CWorker, NEW r, GoTo(w, r), voucher' = voucher, redemptions' = redemptions,
               r.pc \in {"save", "debit", "redeem"} => "create" \in CKinds[w],
               r.pc = "redeem" => r.seen = voucher.remaining
        PROVE  BalanceInv'
    <2>1. ch'[w] = r /\ \A v \in CWorker \ {w} : ch'[v] = ch[v]
      BY <1>1, <1>2 DEF GoTo
    <2>2. CheckoutInv'
      BY <1>2, <2>1 DEF BalanceInv, CheckoutInv
    <2> QED BY <1>2, <2>2 DEF BalanceInv, VoucherBalance, Debited
  <1>3. ASSUME ch' = ch, redemptions' = redemptions, voucher'.remaining = voucher.remaining PROVE BalanceInv'
    BY <1>3 DEF BalanceInv, CheckoutInv, VoucherBalance, Debited
  <1>4. CASE BackOffice
    <2>1. ch' = ch /\ redemptions' = redemptions
      BY <1>4 DEF BackOffice, toggleActive, removePromo, updateVoucher, cancelVoucher, removeOrRestoreVoucher,
                  DatePasses, updateExpiredVouchers
    <2>2. voucher'.remaining = voucher.remaining
      BY <1>4 DEF CouponInv, CouponTypes, VoucherRow, BackOffice, toggleActive, removePromo, updateVoucher, cancelVoucher,
                  removeOrRestoreVoucher, DatePasses, updateExpiredVouchers
    <2> QED BY <1>3, <2>1, <2>2
  <1>5. CASE UNCHANGED cvars
    BY <1>3, <1>5 DEF cvars
  <1>6. ASSUME NEW w \in CWorker, NEW o \in COrder, createv2(w, o) PROVE BalanceInv'
    <2>1. "create" \in CKinds[w] /\ voucher' = voucher /\ redemptions' = redemptions
      BY <1>6 DEF createv2, Free
    <2>2. PICK k, d : GoTo(w, [pc |-> "save", order |-> o, coupon |-> k, discount |-> d])
      BY <1>6 DEF createv2
    <2> QED BY <1>2, <2>1, <2>2
  <1>7. ASSUME NEW w \in CWorker, SaveOrder(w) PROVE BalanceInv'
    <2>1. "create" \in CKinds[w] /\ voucher' = voucher /\ redemptions' = redemptions
      BY <1>7 DEF SaveOrder, BalanceInv, CheckoutInv
    <2>2. \/ GoTo(w, [pc |-> "find", order |-> ch[w].order])
          \/ GoTo(w, [pc |-> "debit", order |-> ch[w].order, discount |-> ch[w].discount])
      <3>1. GoTo(w, IF ch[w].coupon = "promo" THEN [pc |-> "find", order |-> ch[w].order]
                    ELSE [pc |-> "debit", order |-> ch[w].order, discount |-> ch[w].discount])
        BY <1>7 DEF SaveOrder
      <3>2. CASE ch[w].coupon = "promo"
        BY <3>1, <3>2
      <3>3. CASE ch[w].coupon # "promo"
        BY <3>1, <3>3
      <3> QED BY <3>2, <3>3
    <2> QED BY <1>2, <2>1, <2>2
  <1>8. ASSUME NEW w \in CWorker, RedeemRead(w) PROVE BalanceInv'
    <2>1. "create" \in CKinds[w] /\ voucher' = voucher /\ redemptions' = redemptions
      BY <1>8 DEF RedeemRead, BalanceInv, CheckoutInv
    <2>2. \/ GoTo(w, [pc |-> "redeem", order |-> ch[w].order, discount |-> ch[w].discount, seen |-> voucher.remaining])
          \/ GoTo(w, CIdle)
      BY <1>8 DEF RedeemRead
    <2> QED BY <1>1, <1>2, <2>1, <2>2
  <1>9. ASSUME NEW w \in CWorker, RedeemWrite(w) PROVE BalanceInv'
    <2>1. PICK o \in COrder, d \in Nat, r \in 0 .. Issued :
               /\ ch[w].order = o /\ ch[w].discount = d /\ ch[w].seen = r /\ d <= r
               /\ "create" \in CKinds[w] /\ voucher.remaining = r
      <3>1. ch[w] \in Handling /\ ch[w].pc = "redeem"
        BY <1>1, <1>9 DEF RedeemWrite
      <3>2. ch[w].order \in COrder /\ ch[w].discount \in Nat /\ ch[w].seen \in 0 .. Issued
        BY <3>1 DEF Handling, CIdle
      <3> QED BY <3>1, <3>2 DEF CouponInv, HeldInv, BalanceInv, CheckoutInv
    <2>2. /\ redemptions' = Append(redemptions, [order |-> o, amount |-> d])
          /\ voucher' = [voucher EXCEPT !.remaining = r - d, !.status = IF r - d = 0 THEN "REDEEMED" ELSE @]
          /\ ch'[w] = CIdle /\ \A v \in CWorker \ {w} : ch'[v] = ch[v]
      BY <1>1, <1>9, <2>1 DEF RedeemWrite, GoTo
    <2>3. voucher'.remaining = r - d
      BY <2>2 DEF CouponInv, CouponTypes, VoucherRow
    <2>4. Debited \in Nat /\ Debited' = Debited + d
      BY <2>2, DebitedGrows
    <2>5. VoucherBalance'
      BY <2>1, <2>3, <2>4 DEF BalanceInv, VoucherBalance, Amounts
    <2>6. \A v \in CWorker \ {w} : ch[v].pc # "redeem"
      BY <2>1 DEF OneCheckout, BalanceInv, CheckoutInv
    <2>7. CheckoutInv'
      BY <1>1, <2>2, <2>6 DEF BalanceInv, CheckoutInv
    <2> QED BY <2>5, <2>7 DEF BalanceInv
  <1>10. ASSUME NEW w \in CWorker,
                \/ \E o \in COrder : StartRecord(w, o) \/ updateStatus(w, o)
                \/ FindUsage(w) \/ StageUsage(w) \/ activateUsageForOrder(w) \/ deactivateUsageForOrder(w) \/ Swallowed(w)
         PROVE  BalanceInv'
    <2>1. voucher' = voucher /\ redemptions' = redemptions
      BY <1>10 DEF StartRecord, updateStatus, FindUsage, StageUsage, activateUsageForOrder, deactivateUsageForOrder, Swallowed
    <2>2. \E r : GoTo(w, r) /\ r.pc \notin {"save", "debit", "redeem"}
      <3>1. ASSUME NEW o \in COrder, updateStatus(w, o) PROVE \E r : GoTo(w, r) /\ r.pc \notin {"save", "debit", "redeem"}
        <4>1. \/ GoTo(w, [pc |-> "activate", order |-> o]) \/ GoTo(w, [pc |-> "deactivate", order |-> o]) \/ GoTo(w, CIdle)
          BY <3>1 DEF updateStatus, GoTo
        <4> QED BY <1>1, <4>1
      <3>2. ASSUME NEW o \in COrder, StartRecord(w, o) PROVE \E r : GoTo(w, r) /\ r.pc \notin {"save", "debit", "redeem"}
        <4>1. GoTo(w, [pc |-> "find", order |-> o])
          BY <3>2 DEF StartRecord
        <4> QED BY <4>1
      <3>3. FindUsage(w) => GoTo(w, [pc |-> "stage", order |-> ch[w].order]) \/ GoTo(w, CIdle)
        BY DEF FindUsage
      <3>4. StageUsage(w) \/ activateUsageForOrder(w) \/ deactivateUsageForOrder(w) \/ Swallowed(w) => GoTo(w, CIdle)
        BY DEF StageUsage, activateUsageForOrder, deactivateUsageForOrder, Swallowed
      <3>5. CASE \E o \in COrder : StartRecord(w, o) \/ updateStatus(w, o)
        BY <3>1, <3>2, <3>5
      <3>6. CASE GoTo(w, CIdle)
        BY <1>1, <3>6
      <3>7. CASE GoTo(w, [pc |-> "stage", order |-> ch[w].order])
        BY <3>7
      <3> QED BY <1>10, <3>3, <3>4, <3>5, <3>6, <3>7
    <2> QED BY <1>2, <2>1, <2>2
  <1> QED BY <1>4, <1>5, <1>6, <1>7, <1>8, <1>9, <1>10 DEF CNext

(* What was debited from the voucher and what remains make its amount,     *)
(* whatever the back office, the crons and errors do in between, when the  *)
(* orders of its customer are created one at a time (redeemVoucher reads   *)
(* and then writes, with no lock).                                         *)
THEOREM DebitsAddUp ==
  ASSUME Amounts, OneCheckout
  PROVE  CSpec => []VoucherBalance
  <1>1. CInit => BalanceInv
    BY BalanceInit
  <1>2. CouponInv /\ BalanceInv /\ [CNext]_cvars => BalanceInv'
    BY BalanceStep
  <1>3. BalanceInv => VoucherBalance
    BY DEF BalanceInv
  <1> QED BY <1>1, <1>2, <1>3, CouponAlways, PTL DEF CSpec

-----------------------------------------------------------------------------
(***************************************************************************)
(* The scratch game.                                                       *)
(*                                                                         *)
(* Two layers.  Whatever runs at once, a voucher is issued by the handler  *)
(* whose update scratched the reward, and a gift goes from the rewards to  *)
(* a cart in the transaction that saves the order (ScratchInv).            *)
(*                                                                         *)
(* The draw of an order is a row, a unit of the stock, a reward and a link *)
(* written one after the other, and a cancellation undoes them one by one. *)
(* With one handler of an order at a time, the step of the handler says    *)
(* which of the four are there (DrawAt), so that a draw that is run again  *)
(* finds nothing to do; and while no handler is cut the units taken are    *)
(* those of the orders that hold a lot, counted with the unit that is      *)
(* about to be taken or given back (StockInv).                             *)
(***************************************************************************)

(* The types of the columns of a Reward.                                   *)
PrizeTypes == {LotType[l] : l \in Lot \union {Nobody}} \union {"POINTS"}
PrizeRow ==
    [order : SOrder \union {Nobody}, from : SOrder, type : PrizeTypes, lot : Lot \union {Nobody},
     status : {"PENDING", "SCRATCHED", "CONSUMED", "REVOKED"}, vouchers : Nat]
DrawRow == [made : BOOLEAN, lot : Lot \union {Nobody}, reward : Nat, restored : BOOLEAN]
ScratchHandlers ==
    [pc : {"idle"}, order : {Nobody}]
    \union [pc : {"floor", "reconcile", "revoke", "restore", "giveback", "decrement"}, order : SOrder]
    \union [pc : {"claim", "floor"}, order : SOrder, lot : Lot \union {Nobody}]
    \union [pc : {"stock", "prize"}, order : SOrder, lot : Lot]
    \union [pc : {"link", "issue", "cart"}, order : SOrder, reward : Nat \ {0}]

(* A row that is named exists.                                             *)
ScratchTypes ==
    /\ sorder \in [SOrder -> {"new", "placed", "cancelled"}]
    /\ draw \in [SOrder -> DrawRow] /\ used \in [Lot -> Nat]
    /\ rewards \in Seq(PrizeRow) /\ gift \in [SOrder -> Nat]
    /\ due \in SUBSET SOrder /\ broken \in SUBSET SOrder
    /\ sh \in [SWorker -> ScratchHandlers]
    /\ \A o \in SOrder : draw[o].reward \in 0 .. Len(rewards) /\ gift[o] \in 0 .. Len(rewards)
    /\ \A w \in SWorker : sh[w].pc \in {"link", "issue", "cart"} => sh[w].reward \in DOMAIN rewards

(* A voucher is about to be issued, or has been, once.                     *)
VouchersInv ==
    /\ \A i \in DOMAIN rewards :
          rewards[i].vouchers # 0 =>
             /\ rewards[i].vouchers = 1 /\ rewards[i].type = "VOUCHER"
             /\ rewards[i].status = "SCRATCHED"
    /\ \A w \in SWorker :
          sh[w].pc = "issue" =>
             /\ rewards[sh[w].reward].type = "VOUCHER" /\ rewards[sh[w].reward].status = "SCRATCHED"
             /\ rewards[sh[w].reward].vouchers = 0
             /\ \A v \in SWorker : sh[v].pc = "issue" /\ sh[v].reward = sh[w].reward => v = w
    /\ \A w \in SWorker : sh[w].pc = "cart" => rewards[sh[w].reward].type = "GIFT"

(* A gift is in the cart of the order its row names, until that order is   *)
(* cancelled.                                                              *)
GiftInv ==
    /\ \A i \in DOMAIN rewards :
          /\ rewards[i].order = Nobody => rewards[i].status = "SCRATCHED"
          /\ rewards[i].order # rewards[i].from => rewards[i].type = "GIFT"
    /\ \A o \in due : sorder[o] = "cancelled"
    /\ \A o \in SOrder : sorder[o] = "new" => gift[o] = 0
    /\ \A o \in SOrder :
          gift[o] # 0 /\ sorder[o] # "cancelled" =>
             rewards[gift[o]].status = "CONSUMED" /\ rewards[gift[o]].order = o
    /\ \A w \in SWorker : sh[w].pc = "cart" => sorder[sh[w].order] = "new"
    /\ \A v, w \in SWorker :
          sh[v].pc = "cart" /\ sh[w].pc = "cart" /\ sh[v].order = sh[w].order => v = w

ScratchInv == ScratchTypes /\ VouchersInv /\ GiftInv

(* No order is the name for none.                                          *)
Orders == Nobody \notin SOrder /\ Nobody \notin Lot

LEMMA ScratchStart ==
    ASSUME SInit PROVE ScratchInv
BY DEF SInit, ScratchInv, ScratchTypes, VouchersInv, GiftInv, DrawRow, ScratchHandlers, SIdle, NoDraw

(* What a handler holds, by its step.                                      *)
LEMMA HandlerIs ==
    ASSUME NEW h \in ScratchHandlers
    PROVE  /\ h.order \in SOrder \union {Nobody}
           /\ h.pc = "idle" => h = SIdle
           /\ h.pc # "idle" => h.order \in SOrder
           /\ h.pc = "claim" => h.lot \in Lot \union {Nobody}
           /\ h.pc \in {"stock", "prize"} => h.lot \in Lot
           /\ h.pc \in {"link", "issue", "cart"} => h.reward \in Nat \ {0}
BY DEF ScratchHandlers, SIdle

LEMMA RowAppended ==
    ASSUME rewards \in Seq(PrizeRow), NEW r \in PrizeRow, rewards' = Append(rewards, r)
    PROVE  /\ rewards' \in Seq(PrizeRow) /\ Len(rewards') = Len(rewards) + 1
           /\ DOMAIN rewards = 1 .. Len(rewards) /\ DOMAIN rewards' = 1 .. Len(rewards) + 1
           /\ \A i \in DOMAIN rewards : rewards'[i] = rewards[i]
           /\ rewards'[Len(rewards) + 1] = r
OBVIOUS

LEMMA RowsMapped ==
    ASSUME rewards \in Seq(PrizeRow), DOMAIN rewards' = DOMAIN rewards,
           rewards' = [i \in DOMAIN rewards |-> rewards'[i]],
           \A i \in DOMAIN rewards : rewards'[i] \in PrizeRow
    PROVE  rewards' \in Seq(PrizeRow) /\ Len(rewards') = Len(rewards) /\ DOMAIN rewards = 1 .. Len(rewards)
<1>1. Len(rewards) \in Nat /\ DOMAIN rewards = 1 .. Len(rewards)
    OBVIOUS
<1>2. PICK f : f = rewards'
    OBVIOUS
<1>3. f \in [1 .. Len(rewards) -> PrizeRow]
    BY <1>1, <1>2
<1>4. f \in Seq(PrizeRow)
    BY <1>1, <1>3, SeqDef
<1>5. Len(f) = Len(rewards)
    BY <1>1, <1>3, <1>4, LenProperties
<1> QED
    BY <1>1, <1>2, <1>4, <1>5

-----------------------------------------------------------------------------
(* What a step does, by the rows it writes. *)

Goes(w, h) == sh' = [sh EXCEPT ![w] = h]

(* A step that only moves its handler.                                     *)
Quiet(w, h) ==
    /\ UNCHANGED <<sorder, rewards, gift, due>> /\ Goes(w, h) /\ h \in ScratchHandlers
    /\ h.pc \notin {"issue", "cart"} /\ (h.pc = "link" => h.reward \in DOMAIN rewards)

(* A new reward of the order of the handler.                               *)
Awards(w, h, r) ==
    /\ UNCHANGED <<sorder, gift, due>> /\ Goes(w, h) /\ h \in ScratchHandlers
    /\ rewards' = Append(rewards, r) /\ r \in PrizeRow
    /\ r.status = "PENDING" /\ r.vouchers = 0 /\ r.order \in SOrder /\ r.order = r.from
    /\ h.pc \notin {"issue", "cart"} /\ (h.pc = "link" => h.reward = Len(rewards) + 1)

Customers(w) ==
    \/ \E i \in DOMAIN rewards : scratchReward(w, i) \/ \E o \in SOrder : validateGiftLines(w, o, i)
    \/ IssueVoucher(w) \/ ConsumeGift(w)
Office(w) == revokeForOrder(w) \/ \E o \in SOrder : CancelOrder(w, o)
Alone(o) == PlaceOrder(o) \/ restoreConsumedGiftsForOrder(o)

(* The columns of the draws and the stock.                                 *)
Columns ==
    /\ draw' \in [SOrder -> DrawRow] /\ used' \in [Lot -> Nat] /\ broken' \in SUBSET SOrder
    /\ \A o \in SOrder : draw'[o].reward \in 0 .. Len(rewards')

LEMMA PrizeTyped ==
    ASSUME NEW o \in SOrder, NEW l \in Lot \union {Nobody}, NEW t \in PrizeTypes
    PROVE  /\ Prize(o, t, l) \in PrizeRow /\ Prize(o, t, l).status = "PENDING" /\ Prize(o, t, l).vouchers = 0
           /\ Prize(o, t, l).order = o /\ Prize(o, t, l).from = o
           /\ Prize(o, t, l).lot = l /\ Prize(o, t, l).type = t
BY DEF Prize, PrizeRow

LEMMA DrawWritten ==
    ASSUME ScratchTypes, NEW o \in SOrder, NEW d \in DrawRow, draw' = [draw EXCEPT ![o] = d],
           UNCHANGED <<used, broken>>, d.reward \in 0 .. Len(rewards'),
           Len(rewards') \in Nat, Len(rewards) <= Len(rewards')
    PROVE  Columns
<1>1. Len(rewards) \in Nat
    BY DEF ScratchTypes
<1>2. draw' \in [SOrder -> DrawRow] /\ used' \in [Lot -> Nat] /\ broken' \in SUBSET SOrder
    BY DEF ScratchTypes
<1>3. ASSUME NEW p \in SOrder PROVE draw'[p].reward \in 0 .. Len(rewards')
    BY <1>1 DEF ScratchTypes
<1> QED
    BY <1>2, <1>3 DEF Columns

LEMMA DrawSteps ==
    ASSUME ScratchTypes, NEW w \in SWorker, DrawStep(w)
    PROVE  /\ (\E h : Quiet(w, h)) \/ (\E h, r : Awards(w, h, r))
           /\ Columns
<1>o. PICK o : o = sh[w].order
    OBVIOUS
<1>1. sh[w] \in ScratchHandlers /\ Len(rewards) \in Nat /\ DOMAIN rewards = 1 .. Len(rewards)
    BY DEF ScratchTypes
<1>2. SIdle \in ScratchHandlers /\ SIdle.pc = "idle"
    BY DEF ScratchHandlers, SIdle
<1>a. ASSUME o \in SOrder, NEW r \in Nat \ {0}
      PROVE  /\ [pc |-> "link", order |-> o, reward |-> r] \in ScratchHandlers
             /\ [pc |-> "link", order |-> o, reward |-> r].pc = "link"
             /\ [pc |-> "link", order |-> o, reward |-> r].reward = r
    BY <1>a DEF ScratchHandlers
<1>b. ASSUME o \in SOrder
      PROVE  draw[o] \in DrawRow /\ draw[o].lot \in Lot \union {Nobody} /\ draw[o].reward \in 0 .. Len(rewards)
    BY <1>b DEF ScratchTypes, DrawRow
<1>c. ASSUME UNCHANGED <<draw, used, rewards, broken>> PROVE Columns
    BY <1>c DEF Columns, ScratchTypes
<1>3. CASE claimDraw(w)
  <2>1. sh[w].pc = "claim" /\ o \in SOrder /\ sh[w].lot \in Lot \union {Nobody}
      BY <1>o, <1>1, <1>3, HandlerIs DEF claimDraw, At
  <2>2. UNCHANGED <<sorder, rewards, gift, due, used, broken>>
      BY <1>3 DEF claimDraw
  <2>3. CASE draw[o].made
    <3>1. Goes(w, SIdle) /\ draw' = draw
        BY <1>o, <1>3, <2>3 DEF claimDraw, Goes, Done
    <3> QED
        BY <1>2, <1>c, <2>2, <3>1 DEF Quiet
  <2>4. CASE ~draw[o].made
    <3>1. PICK d : d = [draw[o] EXCEPT !.made = TRUE, !.lot = sh[w].lot]
        OBVIOUS
    <3>2. d \in DrawRow /\ d.reward = draw[o].reward
        BY <1>b, <2>1, <3>1 DEF DrawRow
    <3>3. draw' = [draw EXCEPT ![o] = d]
        BY <1>o, <1>3, <2>4, <3>1 DEF claimDraw
    <3>4. Columns
      <4>1. Len(rewards') = Len(rewards) /\ used' = used /\ broken' = broken
          BY <2>2
      <4>2. d.reward \in 0 .. Len(rewards')
          BY <1>b, <2>1, <3>2, <4>1
      <4>3. Len(rewards') \in Nat /\ Len(rewards) <= Len(rewards')
          BY <1>1, <4>1
      <4> QED
          BY <2>1, <3>2, <3>3, <4>1, <4>2, <4>3, DrawWritten
    <3>5. PICK pc : pc = IF sh[w].lot = Nobody THEN "floor" ELSE "stock"
        OBVIOUS
    <3>6. PICK h : h = [sh[w] EXCEPT !.pc = pc]
        OBVIOUS
    <3>7. Goes(w, h)
        BY <1>o, <1>3, <2>4, <3>5, <3>6 DEF claimDraw, To, Goes, ScratchTypes
    <3>8. h \in ScratchHandlers /\ h.pc \in {"floor", "stock"}
      <4>1. pc \in {"floor", "stock"} /\ (pc = "stock" => sh[w].lot # Nobody)
          BY <3>5
      <4>2. h \in ScratchHandlers /\ h.pc = pc
          BY <1>1, <2>1, <3>6, <4>1 DEF ScratchHandlers
      <4> QED
          BY <4>1, <4>2
    <3> QED
        BY <2>2, <3>4, <3>7, <3>8 DEF Quiet
  <2> QED
      BY <2>3, <2>4
<1>4. CASE ClaimStock(w)
  <2>1. sh[w].pc = "stock" /\ o \in SOrder /\ sh[w].lot \in Lot
      BY <1>o, <1>1, <1>4, HandlerIs DEF ClaimStock, At
  <2>2. UNCHANGED <<sorder, rewards, gift, due, broken>>
      BY <1>4 DEF ClaimStock
  <2>3. PICK pc : pc = IF used[sh[w].lot] < Stock[sh[w].lot] THEN "prize" ELSE "floor"
      OBVIOUS
  <2>4. PICK h : h = [sh[w] EXCEPT !.pc = pc]
      OBVIOUS
  <2>5. h \in ScratchHandlers /\ h.pc \in {"floor", "prize"}
    <3>1. pc \in {"floor", "prize"}
        BY <2>3
    <3>2. h \in ScratchHandlers /\ h.pc = pc
        BY <1>1, <2>1, <2>4, <3>1 DEF ScratchHandlers
    <3> QED
        BY <3>1, <3>2
  <2>6. Goes(w, h)
      BY <1>4, <2>3, <2>4 DEF ClaimStock, Goes, To, ScratchTypes
  <2>7. CASE pc = "prize"
    <3>1. used' = [used EXCEPT ![sh[w].lot] = @ + 1] /\ draw' = draw
        BY <1>4, <2>3, <2>7 DEF ClaimStock
    <3>2. Columns
        BY <2>1, <2>2, <3>1 DEF Columns, ScratchTypes
    <3> QED
        BY <2>2, <2>5, <2>6, <3>2 DEF Quiet
  <2>8. CASE pc = "floor"
    <3>1. PICK d : d = [draw[o] EXCEPT !.lot = Nobody]
        OBVIOUS
    <3>2. d \in DrawRow /\ d.reward = draw[o].reward
        BY <1>b, <2>1, <3>1 DEF DrawRow
    <3>3. draw' = [draw EXCEPT ![o] = d] /\ used' = used
        BY <1>o, <1>4, <2>3, <2>8, <3>1 DEF ClaimStock
    <3>4. Columns
      <4>1. Len(rewards') = Len(rewards) /\ used' = used /\ broken' = broken
          BY <2>2, <3>3
      <4>2. d.reward \in 0 .. Len(rewards')
          BY <1>b, <2>1, <3>2, <4>1
      <4>3. Len(rewards') \in Nat /\ Len(rewards) <= Len(rewards')
          BY <1>1, <4>1
      <4> QED
          BY <2>1, <3>2, <3>3, <4>1, <4>2, <4>3, DrawWritten
    <3> QED
        BY <2>2, <2>5, <2>6, <3>4 DEF Quiet
  <2> QED
      BY <2>3, <2>7, <2>8
<1>5. CASE createRewardFromLot(w)
  <2>1. o \in SOrder
      BY <1>o, <1>1, <1>5, HandlerIs DEF createRewardFromLot, At
  <2>2. PICK t, l : t = LotType[draw[o].lot] /\ l = draw[o].lot
      OBVIOUS
  <2>3. t \in PrizeTypes /\ l \in Lot \union {Nobody}
      BY <1>b, <2>1, <2>2 DEF PrizeTypes
  <2>4. PICK r : r = Prize(o, t, l)
      OBVIOUS
  <2>5. r \in PrizeRow /\ r.status = "PENDING" /\ r.vouchers = 0 /\ r.order \in SOrder /\ r.order = r.from
      BY <2>1, <2>3, <2>4, PrizeTyped
  <2>6. PICK h : h = [pc |-> "link", order |-> o, reward |-> Len(rewards) + 1]
      OBVIOUS
  <2>7. h \in ScratchHandlers /\ h.pc = "link" /\ h.reward = Len(rewards) + 1
      BY <1>1, <1>a, <2>1, <2>6
  <2>8. rewards' = Append(rewards, r) /\ Goes(w, h) /\ UNCHANGED <<sorder, gift, due, draw, used, broken>>
      BY <1>o, <1>5, <2>2, <2>4, <2>6 DEF createRewardFromLot, Goes
  <2>9. Len(rewards') = Len(rewards) + 1
      BY <2>5, <2>8, RowAppended DEF ScratchTypes
  <2>10. Columns
      BY <1>1, <2>8, <2>9 DEF Columns, ScratchTypes
  <2> QED
      BY <2>5, <2>7, <2>8, <2>10 DEF Awards
<1>6. CASE createPointsReward(w)
  <2>1. o \in SOrder
      BY <1>o, <1>1, <1>6, HandlerIs DEF createPointsReward, At
  <2>2. UNCHANGED <<sorder, gift, due, draw, used, broken>>
      BY <1>6 DEF createPointsReward
  <2>3. CASE \E i \in DOMAIN rewards :
                /\ rewards' = rewards
                /\ sh' = [sh EXCEPT ![w] = [pc |-> "link", order |-> o, reward |-> i]]
    <3>1. PICK i \in DOMAIN rewards :
                /\ rewards' = rewards
                /\ sh' = [sh EXCEPT ![w] = [pc |-> "link", order |-> o, reward |-> i]]
        BY <2>3
    <3>2. PICK h : h = [pc |-> "link", order |-> o, reward |-> i]
        OBVIOUS
    <3>3. h \in ScratchHandlers /\ h.pc = "link" /\ h.reward = i
        BY <1>1, <1>a, <2>1, <3>1, <3>2
    <3>4. Columns
        BY <1>c, <2>2, <3>1
    <3> QED
        BY <2>2, <3>1, <3>2, <3>3, <3>4 DEF Quiet, Goes
  <2>4. CASE /\ rewards' = Append(rewards, Prize(o, "POINTS", Nobody))
             /\ sh' = [sh EXCEPT ![w] = [pc |-> "link", order |-> o, reward |-> Len(rewards) + 1]]
    <3>1. PICK r : r = Prize(o, "POINTS", Nobody)
        OBVIOUS
    <3>2. r \in PrizeRow /\ r.status = "PENDING" /\ r.vouchers = 0 /\ r.order \in SOrder /\ r.order = r.from
      <4>1. "POINTS" \in PrizeTypes
          BY DEF PrizeTypes
      <4> QED
          BY <2>1, <3>1, <4>1, PrizeTyped
    <3>3. PICK h : h = [pc |-> "link", order |-> o, reward |-> Len(rewards) + 1]
        OBVIOUS
    <3>4. h \in ScratchHandlers /\ h.pc = "link" /\ h.reward = Len(rewards) + 1
        BY <1>1, <1>a, <2>1, <3>3
    <3>5. rewards' = Append(rewards, r) /\ Goes(w, h)
        BY <2>4, <3>1, <3>3 DEF Goes
    <3>6. Len(rewards') = Len(rewards) + 1
        BY <3>2, <3>5, RowAppended DEF ScratchTypes
    <3>7. Columns
        BY <1>1, <2>2, <3>6 DEF Columns, ScratchTypes
    <3> QED
        BY <2>2, <3>2, <3>4, <3>5, <3>7 DEF Awards
  <2> QED
      BY <1>o, <1>6, <2>3, <2>4 DEF createPointsReward
<1>7. CASE Link(w)
  <2>1. o \in SOrder /\ sh[w].reward \in DOMAIN rewards
      BY <1>o, <1>1, <1>7, HandlerIs DEF Link, At, ScratchTypes
  <2>2. Goes(w, SIdle) /\ UNCHANGED <<sorder, rewards, gift, due, used, broken>>
      BY <1>7 DEF Link, Goes, Done
  <2>3. PICK d : d = [draw[o] EXCEPT !.reward = sh[w].reward]
      OBVIOUS
  <2>4. d \in DrawRow /\ d.reward = sh[w].reward
      BY <1>1, <1>b, <2>1, <2>3 DEF DrawRow
  <2>5. draw' = [draw EXCEPT ![o] = d]
      BY <1>o, <1>7, <2>3 DEF Link
  <2>6. Columns
    <3>1. Len(rewards') = Len(rewards) /\ used' = used /\ broken' = broken
        BY <2>2
    <3>2. d.reward \in 0 .. Len(rewards')
        BY <1>1, <2>1, <2>4, <3>1
    <3>3. Len(rewards') \in Nat /\ Len(rewards) <= Len(rewards')
        BY <1>1, <3>1
    <3> QED
        BY <2>1, <2>4, <2>5, <3>1, <3>2, <3>3, DrawWritten
  <2> QED
      BY <1>2, <2>2, <2>6 DEF Quiet
<1>8. CASE reconcileMissingReward(w)
  <2>1. o \in SOrder
      BY <1>o, <1>1, <1>8, HandlerIs DEF reconcileMissingReward, At
  <2>2. Goes(w, SIdle) /\ UNCHANGED <<sorder, gift, due, used, broken>>
      BY <1>8 DEF reconcileMissingReward, Goes, Done
  <2>3. CASE rewards' = rewards /\ draw' = draw
      BY <1>2, <1>c, <2>2, <2>3 DEF Quiet
  <2>4. CASE rewards' = rewards /\ \E i \in DOMAIN rewards : draw' = [draw EXCEPT ![o].reward = i]
    <3>1. PICK i \in DOMAIN rewards : draw' = [draw EXCEPT ![o].reward = i]
        BY <2>4
    <3>2. PICK d : d = [draw[o] EXCEPT !.reward = i]
        OBVIOUS
    <3>3. d \in DrawRow /\ d.reward = i
        BY <1>1, <1>b, <2>1, <3>1, <3>2 DEF DrawRow
    <3>4. draw' = [draw EXCEPT ![o] = d]
        BY <3>1, <3>2
    <3>5. Columns
      <4>1. Len(rewards') = Len(rewards) /\ used' = used /\ broken' = broken
          BY <2>2, <2>4
      <4>2. d.reward \in 0 .. Len(rewards')
          BY <1>1, <3>1, <3>3, <4>1
      <4>3. Len(rewards') \in Nat /\ Len(rewards) <= Len(rewards')
          BY <1>1, <4>1
      <4> QED
          BY <2>1, <3>3, <3>4, <4>1, <4>2, <4>3, DrawWritten
    <3> QED
        BY <1>2, <2>2, <2>4, <3>5 DEF Quiet
  <2>5. CASE /\ rewards' = Append(rewards, Prize(o, LotType[draw[o].lot], draw[o].lot))
             /\ draw' = [draw EXCEPT ![o].reward = Len(rewards) + 1]
    <3>1. PICK t, l : t = LotType[draw[o].lot] /\ l = draw[o].lot
        OBVIOUS
    <3>2. t \in PrizeTypes /\ l \in Lot \union {Nobody}
        BY <1>b, <2>1, <3>1 DEF PrizeTypes
    <3>3. PICK r : r = Prize(o, t, l)
        OBVIOUS
    <3>4. r \in PrizeRow /\ r.status = "PENDING" /\ r.vouchers = 0 /\ r.order \in SOrder /\ r.order = r.from
        BY <2>1, <3>2, <3>3, PrizeTyped
    <3>5. rewards' = Append(rewards, r)
        BY <2>5, <3>1, <3>3
    <3>6. Len(rewards') = Len(rewards) + 1
        BY <3>4, <3>5, RowAppended DEF ScratchTypes
    <3>7. PICK d : d = [draw[o] EXCEPT !.reward = Len(rewards) + 1]
        OBVIOUS
    <3>8. d \in DrawRow /\ d.reward = Len(rewards) + 1
        BY <1>1, <1>b, <2>1, <3>7 DEF DrawRow
    <3>9. draw' = [draw EXCEPT ![o] = d]
        BY <2>5, <3>7
    <3>10. Columns
      <4>1. used' = used /\ broken' = broken
          BY <2>2
      <4>2. d.reward \in 0 .. Len(rewards') /\ Len(rewards') \in Nat /\ Len(rewards) <= Len(rewards')
          BY <1>1, <3>6, <3>8
      <4> QED
          BY <2>1, <3>8, <3>9, <4>1, <4>2, DrawWritten
    <3> QED
        BY <1>2, <2>2, <3>4, <3>5, <3>10 DEF Awards
  <2> QED
      BY <1>o, <1>8, <2>3, <2>4, <2>5 DEF reconcileMissingReward
<1> QED
    BY <1>3, <1>4, <1>5, <1>6, <1>7, <1>8 DEF DrawStep

(* The steps of a cancellation that read the draw and give the stock back. *)
LEMMA BackSteps ==
    ASSUME ScratchTypes, NEW w \in SWorker, NEW p \in SOrder,
           \/ drawForOrder(w, p) \/ Break(w)
           \/ RestoreRead(w) \/ RestoreClaim(w) \/ restoreStockForCancelledOrder(w)
    PROVE  (\E h : Quiet(w, h)) /\ Columns
<1>o. PICK o : o = sh[w].order
    OBVIOUS
<1>1. sh[w] \in ScratchHandlers /\ Len(rewards) \in Nat
    BY DEF ScratchTypes
<1>2. SIdle \in ScratchHandlers /\ SIdle.pc = "idle"
    BY DEF ScratchHandlers, SIdle
<1>b. ASSUME NEW q \in SOrder
      PROVE  draw[q] \in DrawRow /\ draw[q].lot \in Lot \union {Nobody} /\ draw[q].reward \in 0 .. Len(rewards)
    BY <1>b DEF ScratchTypes, DrawRow
<1>c. ASSUME UNCHANGED <<draw, used, rewards, broken>> PROVE Columns
    BY <1>c DEF Columns, ScratchTypes
<1>3. CASE drawForOrder(w, p)
  <2>1. UNCHANGED <<sorder, draw, used, rewards, gift, due, broken>>
      BY <1>3 DEF drawForOrder
  <2>2. CASE draw[p].made
    <3>1. PICK pc : pc = IF draw[p].lot = Nobody THEN "floor" ELSE "reconcile"
        OBVIOUS
    <3>2. PICK h : h = [pc |-> pc, order |-> p]
        OBVIOUS
    <3>3. Goes(w, h)
        BY <1>3, <2>2, <3>1, <3>2 DEF drawForOrder, Goes
    <3>4. pc \in {"floor", "reconcile"}
        BY <3>1
    <3>5. h \in ScratchHandlers /\ h.pc = pc
        BY <3>2, <3>4 DEF ScratchHandlers
    <3> QED
        BY <1>c, <2>1, <3>3, <3>4, <3>5 DEF Quiet
  <2>3. CASE ~draw[p].made
    <3>1. PICK l \in {Nobody} \union {k \in Lot : used[k] < Stock[k]} :
              sh' = [sh EXCEPT ![w] = [pc |-> "claim", order |-> p, lot |-> l]]
        BY <1>3, <2>3 DEF drawForOrder
    <3>2. PICK h : h = [pc |-> "claim", order |-> p, lot |-> l]
        OBVIOUS
    <3>3. Goes(w, h)
        BY <3>1, <3>2 DEF Goes
    <3>4. h \in ScratchHandlers /\ h.pc = "claim"
        BY <3>1, <3>2 DEF ScratchHandlers
    <3> QED
        BY <1>c, <2>1, <3>3, <3>4 DEF Quiet
  <2> QED
      BY <2>2, <2>3
<1>4. CASE Break(w)
  <2>1. sh[w].pc # "idle" /\ o \in SOrder
      BY <1>o, <1>1, <1>4, HandlerIs DEF Break
  <2>2. Goes(w, SIdle) /\ UNCHANGED <<sorder, draw, used, rewards, gift, due>> /\ broken' = broken \union {o}
      BY <1>o, <1>4 DEF Break, Done, Goes
  <2>3. Columns
      BY <2>1, <2>2 DEF Columns, ScratchTypes
  <2> QED
      BY <1>2, <2>2, <2>3 DEF Quiet
<1>5. CASE RestoreRead(w)
  <2>1. sh[w].pc = "restore" /\ o \in SOrder
      BY <1>o, <1>1, <1>5, HandlerIs DEF RestoreRead, At
  <2>2. UNCHANGED <<sorder, draw, used, rewards, gift, due, broken>>
      BY <1>5 DEF RestoreRead
  <2>3. PICK h : h = [sh[w] EXCEPT !.pc = "giveback"]
      OBVIOUS
  <2>4. h \in ScratchHandlers /\ h.pc = "giveback"
      BY <1>1, <2>1, <2>3 DEF ScratchHandlers
  <2>5. Goes(w, SIdle) \/ Goes(w, h)
      BY <1>5, <2>3 DEF RestoreRead, Goes, Done, To, ScratchTypes
  <2> QED
      BY <1>2, <1>c, <2>2, <2>4, <2>5 DEF Quiet
<1>6. CASE RestoreClaim(w)
  <2>1. sh[w].pc = "giveback" /\ o \in SOrder
      BY <1>o, <1>1, <1>6, HandlerIs DEF RestoreClaim, At
  <2>2. UNCHANGED <<sorder, used, rewards, gift, due, broken>>
      BY <1>6 DEF RestoreClaim
  <2>3. PICK h : h = [sh[w] EXCEPT !.pc = "decrement"]
      OBVIOUS
  <2>4. h \in ScratchHandlers /\ h.pc = "decrement"
      BY <1>1, <2>1, <2>3 DEF ScratchHandlers
  <2>5. CASE draw[o].restored
    <3>1. Goes(w, SIdle) /\ draw' = draw
        BY <1>o, <1>6, <2>5 DEF RestoreClaim, Goes, Done
    <3> QED
        BY <1>2, <1>c, <2>2, <3>1 DEF Quiet
  <2>6. CASE ~draw[o].restored
    <3>1. PICK d : d = [draw[o] EXCEPT !.restored = TRUE]
        OBVIOUS
    <3>2. d \in DrawRow /\ d.reward = draw[o].reward
        BY <1>b, <2>1, <3>1 DEF DrawRow
    <3>3. draw' = [draw EXCEPT ![o] = d] /\ Goes(w, h)
        BY <1>o, <1>6, <2>3, <2>6, <3>1 DEF RestoreClaim, Goes, To
    <3>4. Columns
      <4>1. Len(rewards') = Len(rewards) /\ used' = used /\ broken' = broken
          BY <2>2
      <4>2. d.reward \in 0 .. Len(rewards')
          BY <1>b, <2>1, <3>2, <4>1
      <4>3. Len(rewards') \in Nat /\ Len(rewards) <= Len(rewards')
          BY <1>1, <4>1
      <4> QED
          BY <2>1, <3>2, <3>3, <4>1, <4>2, <4>3, DrawWritten
    <3> QED
        BY <2>2, <2>4, <3>3, <3>4 DEF Quiet
  <2> QED
      BY <2>5, <2>6
<1>7. CASE restoreStockForCancelledOrder(w)
  <2>1. Goes(w, SIdle) /\ UNCHANGED <<sorder, draw, rewards, gift, due, broken>>
      BY <1>7 DEF restoreStockForCancelledOrder, Done, Goes
  <2>2. PICK l : used' = IF used[l] > 0 THEN [used EXCEPT ![l] = @ - 1] ELSE used
      BY <1>7 DEF restoreStockForCancelledOrder
  <2>3. used' \in [Lot -> Nat]
    <3>1. used \in [Lot -> Nat]
        BY DEF ScratchTypes
    <3>2. CASE l \in Lot
      <4>1. used[l] \in Nat
          BY <3>1, <3>2
      <4>2. CASE used[l] > 0
        <5>1. used[l] - 1 \in Nat
            BY <4>1, <4>2
        <5> QED
            BY <2>2, <3>1, <4>2, <5>1
      <4>3. CASE ~(used[l] > 0)
          BY <2>2, <3>1, <4>3
      <4> QED
          BY <4>2, <4>3
    <3>3. CASE l \notin Lot
      <4>1. [used EXCEPT ![l] = @ - 1] = used
          BY <3>1, <3>3
      <4> QED
          BY <2>2, <3>1, <4>1
    <3> QED
        BY <3>2, <3>3
  <2>4. Columns
      BY <2>1, <2>3 DEF Columns, ScratchTypes
  <2> QED
      BY <1>2, <2>1, <2>4 DEF Quiet
<1> QED
    BY <1>3, <1>4, <1>5, <1>6, <1>7

(* The kinds of the steps.                                                 *)
LEMMA ScratchKinds ==
    ASSUME ScratchTypes, SNext
    PROVE  \/ \E w \in SWorker : \E h : Quiet(w, h) /\ Columns
           \/ \E w \in SWorker : \E h, r : Awards(w, h, r) /\ Columns
           \/ \E w \in SWorker : Customers(w) \/ Office(w)
           \/ \E o \in SOrder : Alone(o)
<1>1. ASSUME NEW w \in SWorker, DrawStep(w)
      PROVE  \/ \E h : Quiet(w, h) /\ Columns
             \/ \E h, r : Awards(w, h, r) /\ Columns
    BY <1>1, DrawSteps
<1>2. ASSUME NEW w \in SWorker, CancelStep(w) \/ Break(w)
      PROVE  Office(w) \/ \E h : Quiet(w, h) /\ Columns
  <2>1. CASE revokeForOrder(w)
      BY <2>1 DEF Office
  <2>2. CASE \/ RestoreRead(w) \/ RestoreClaim(w) \/ restoreStockForCancelledOrder(w) \/ Break(w)
    <3>1. sh[w] \in ScratchHandlers /\ sh[w].pc # "idle"
        BY <2>2, HandlerIs DEF RestoreRead, RestoreClaim, restoreStockForCancelledOrder, Break, At, ScratchTypes
    <3>2. PICK p \in SOrder : TRUE
        BY <3>1, HandlerIs
    <3> QED
        BY <2>2, <3>2, BackSteps
  <2> QED
      BY <1>2, <2>1, <2>2 DEF CancelStep
<1>3. ASSUME NEW w \in SWorker, NEW o \in SOrder, drawForOrder(w, o)
      PROVE  \E h : Quiet(w, h) /\ Columns
    BY <1>3, BackSteps
<1> QED
    BY <1>1, <1>2, <1>3 DEF SNext, Customers, Office, Alone

LEMMA HandlersTyped ==
    ASSUME ScratchTypes, NEW w \in SWorker, NEW h, Goes(w, h)
    PROVE  /\ h \in ScratchHandlers => sh' \in [SWorker -> ScratchHandlers]
           /\ sh'[w] = h /\ \A v \in SWorker : v # w => sh'[v] = sh[v]
BY DEF ScratchTypes, Goes

(* A step that leaves the rows alone.                                      *)
LEMMA QuietKeeps ==
    ASSUME ScratchInv, NEW w \in SWorker, NEW h, Quiet(w, h), Columns
    PROVE  ScratchInv'
<1>1. /\ h \in ScratchHandlers /\ h.pc \notin {"issue", "cart"} /\ (h.pc = "link" => h.reward \in DOMAIN rewards)
      /\ sorder' = sorder /\ rewards' = rewards /\ gift' = gift /\ due' = due /\ ScratchTypes
    BY DEF Quiet, ScratchInv
<1>2. sh' \in [SWorker -> ScratchHandlers] /\ sh'[w] = h /\ \A v \in SWorker : v # w => sh'[v] = sh[v]
    BY <1>1, HandlersTyped DEF Quiet
<1>3. ScratchTypes'
  <2>1. \A v \in SWorker : sh'[v].pc \in {"link", "issue", "cart"} => sh'[v].reward \in DOMAIN rewards'
      BY <1>1, <1>2 DEF ScratchTypes
  <2> QED
      BY <1>1, <1>2, <2>1 DEF ScratchTypes, Columns
<1>4. \A v \in SWorker : sh'[v].pc \in {"issue", "cart"} => v # w /\ sh'[v] = sh[v]
    BY <1>1, <1>2
<1>5. VouchersInv'
    BY <1>1, <1>4 DEF VouchersInv, ScratchInv
<1>6. GiftInv'
    BY <1>1, <1>4 DEF GiftInv, ScratchInv
<1> QED
    BY <1>3, <1>5, <1>6 DEF ScratchInv

(* A reward is added.                                                      *)
LEMMA AwardsKeeps ==
    ASSUME Orders, ScratchInv, NEW w \in SWorker, NEW h, NEW r, Awards(w, h, r), Columns
    PROVE  ScratchInv'
<1>1. /\ h \in ScratchHandlers /\ h.pc \notin {"issue", "cart"} /\ (h.pc = "link" => h.reward = Len(rewards) + 1)
      /\ sorder' = sorder /\ gift' = gift /\ due' = due /\ ScratchTypes
      /\ r.vouchers = 0 /\ r.order \in SOrder /\ r.order = r.from
    BY DEF Awards, ScratchInv
<1>2. sh' \in [SWorker -> ScratchHandlers] /\ sh'[w] = h /\ \A v \in SWorker : v # w => sh'[v] = sh[v]
    BY <1>1, HandlersTyped DEF Awards
<1>3. /\ rewards' \in Seq(PrizeRow) /\ Len(rewards') = Len(rewards) + 1 /\ Len(rewards) \in Nat
      /\ DOMAIN rewards = 1 .. Len(rewards) /\ DOMAIN rewards' = 1 .. Len(rewards) + 1
      /\ \A i \in DOMAIN rewards : rewards'[i] = rewards[i]
      /\ rewards'[Len(rewards) + 1] = r
    BY <1>1, RowAppended DEF Awards, ScratchTypes
<1>a. \A i \in DOMAIN rewards' : i \in DOMAIN rewards \/ i = Len(rewards) + 1
    BY <1>3
<1>b. DOMAIN rewards \subseteq DOMAIN rewards'
    BY <1>3
<1>4. ScratchTypes'
  <2>1. \A v \in SWorker : sh'[v].pc \in {"link", "issue", "cart"} => sh'[v].reward \in DOMAIN rewards'
    <3>1. ASSUME NEW v \in SWorker, v # w, sh'[v].pc \in {"link", "issue", "cart"}
          PROVE  sh'[v].reward \in DOMAIN rewards'
        BY <1>1, <1>2, <1>b, <3>1 DEF ScratchTypes
    <3> QED
        BY <1>1, <1>2, <1>3, <3>1
  <2>2. \A o \in SOrder : gift'[o] \in 0 .. Len(rewards')
      BY <1>1, <1>3 DEF ScratchTypes
  <2> QED
      BY <1>1, <1>2, <1>3, <2>1, <2>2 DEF ScratchTypes, Columns
<1>5. \A v \in SWorker : sh'[v].pc \in {"issue", "cart"} => v # w /\ sh'[v] = sh[v] /\ sh[v].reward \in DOMAIN rewards
    BY <1>1, <1>2 DEF ScratchTypes
<1>6. VouchersInv'
    BY <1>1, <1>3, <1>5, <1>a DEF VouchersInv, ScratchInv
<1>7. GiftInv'
  <2>1. ASSUME NEW o \in SOrder, gift'[o] # 0, sorder'[o] # "cancelled"
        PROVE  rewards'[gift'[o]].status = "CONSUMED" /\ rewards'[gift'[o]].order = o
    <3>1. gift[o] \in DOMAIN rewards
        BY <1>1, <1>3, <2>1 DEF ScratchTypes
    <3> QED
        BY <1>1, <1>3, <2>1, <3>1 DEF GiftInv, ScratchInv
  <2>2. ASSUME NEW i \in DOMAIN rewards'
        PROVE  /\ rewards'[i].order = Nobody => rewards'[i].status = "SCRATCHED"
               /\ rewards'[i].order # rewards'[i].from => rewards'[i].type = "GIFT"
    <3>1. CASE i \in DOMAIN rewards
        BY <1>3, <3>1 DEF GiftInv, ScratchInv
    <3>2. CASE i = Len(rewards) + 1
        BY <1>1, <1>3, <3>2 DEF Orders
    <3> QED
        BY <1>a, <3>1, <3>2
  <2>3. /\ \A o \in due' : sorder'[o] = "cancelled"
        /\ \A o \in SOrder : sorder'[o] = "new" => gift'[o] = 0
        /\ \A v \in SWorker : sh'[v].pc = "cart" => sorder'[sh'[v].order] = "new"
      BY <1>1, <1>5 DEF GiftInv, ScratchInv
  <2>4. ASSUME NEW u \in SWorker, NEW v \in SWorker, sh'[u].pc = "cart", sh'[v].pc = "cart",
               sh'[u].order = sh'[v].order
        PROVE  u = v
      BY <1>5, <2>4 DEF GiftInv, ScratchInv
  <2> QED
      BY <2>1, <2>2, <2>3, <2>4 DEF GiftInv
<1> QED
    BY <1>4, <1>6, <1>7 DEF ScratchInv

(* The steps of the customers and of the office.                           *)

LEMMA ScratchStep ==
    ASSUME Orders, ScratchInv, NEW w \in SWorker, NEW i \in DOMAIN rewards, scratchReward(w, i)
    PROVE  ScratchInv'
<1>1. /\ ScratchTypes /\ rewards \in Seq(PrizeRow) /\ DOMAIN rewards = 1 .. Len(rewards) /\ Len(rewards) \in Nat
      /\ \A k \in DOMAIN rewards : rewards[k] \in PrizeRow
    BY DEF ScratchInv, ScratchTypes
<1>2. PICK r : r = [rewards[i] EXCEPT !.status = "SCRATCHED"]
    OBVIOUS
<1>3. /\ r \in PrizeRow /\ r.status = "SCRATCHED" /\ r.vouchers = rewards[i].vouchers /\ r.type = rewards[i].type
      /\ r.order = rewards[i].order /\ r.from = rewards[i].from /\ r.from \in SOrder
    BY <1>1, <1>2 DEF PrizeRow
<1>4. /\ rewards[i].status = "PENDING" /\ sh[w] = SIdle
      /\ UNCHANGED <<sorder, draw, used, gift, due, broken>>
      /\ rewards' = [rewards EXCEPT ![i] = r]
    BY <1>2 DEF scratchReward, FreeFor
<1>5. /\ rewards' \in Seq(PrizeRow) /\ Len(rewards') = Len(rewards) /\ DOMAIN rewards' = DOMAIN rewards
      /\ rewards'[i] = r /\ \A k \in DOMAIN rewards : k # i => rewards'[k] = rewards[k]
    BY <1>1, <1>3, <1>4
<1>6. PICK h : h = IF r.type = "VOUCHER" THEN [pc |-> "issue", order |-> r.from, reward |-> i] ELSE SIdle
    OBVIOUS
<1>7. h \in ScratchHandlers /\ h.pc \in {"idle", "issue"} /\ (h.pc = "issue" => r.type = "VOUCHER" /\ h.reward = i)
  <2>1. CASE r.type = "VOUCHER"
      BY <1>1, <1>3, <1>6, <2>1 DEF ScratchHandlers
  <2>2. CASE r.type # "VOUCHER"
      BY <1>6, <2>2 DEF ScratchHandlers, SIdle
  <2> QED
      BY <2>1, <2>2
<1>8. sh \in [SWorker -> ScratchHandlers] /\ sh' = [sh EXCEPT ![w] = h]
  <2>1. sh \in [SWorker -> ScratchHandlers]
      BY <1>1 DEF ScratchTypes
  <2>2. CASE r.type = "VOUCHER"
    <3>1. sh' = [sh EXCEPT ![w] = [pc |-> "issue", order |-> r.from, reward |-> i]]
        BY <1>3, <2>2 DEF scratchReward
    <3>2. h = [pc |-> "issue", order |-> r.from, reward |-> i]
        BY <1>6, <2>2
    <3> QED
        BY <2>1, <3>1, <3>2
  <2>3. CASE r.type # "VOUCHER"
    <3>1. sh' = sh /\ h = sh[w]
        BY <1>3, <1>4, <1>6, <2>3 DEF scratchReward
    <3> QED
        BY <2>1, <3>1
  <2> QED
      BY <2>1, <2>2, <2>3
<1>9. sh' \in [SWorker -> ScratchHandlers] /\ sh'[w] = h /\ \A v \in SWorker : v # w => sh'[v] = sh[v]
    BY <1>7, <1>8
<1>a. \A v \in SWorker : sh[v].pc \in {"link", "issue", "cart"} => sh[v].reward \in DOMAIN rewards
    BY <1>1 DEF ScratchTypes
<1>10. ScratchTypes'
  <2>1. \A v \in SWorker : sh'[v].pc \in {"link", "issue", "cart"} => sh'[v].reward \in DOMAIN rewards'
      BY <1>5, <1>7, <1>9, <1>a
  <2>2. \A o \in SOrder : draw'[o].reward \in 0 .. Len(rewards') /\ gift'[o] \in 0 .. Len(rewards')
      BY <1>1, <1>4, <1>5 DEF ScratchTypes
  <2> QED
      BY <1>1, <1>4, <1>5, <1>9, <2>1, <2>2 DEF ScratchTypes
<1>11. VouchersInv'
  <2>1. rewards[i].vouchers = 0
      BY <1>4 DEF VouchersInv, ScratchInv
  <2>2. ASSUME NEW k \in DOMAIN rewards', rewards'[k].vouchers # 0
        PROVE  rewards'[k].vouchers = 1 /\ rewards'[k].type = "VOUCHER" /\ rewards'[k].status = "SCRATCHED"
      BY <1>3, <1>5, <2>1, <2>2 DEF VouchersInv, ScratchInv
  <2>3. ASSUME NEW v \in SWorker, v # w, sh[v].pc = "issue"
        PROVE  sh[v].reward # i
      BY <1>4, <2>3 DEF VouchersInv, ScratchInv
  <2>4. ASSUME NEW v \in SWorker, sh'[v].pc = "issue"
        PROVE  /\ rewards'[sh'[v].reward].type = "VOUCHER" /\ rewards'[sh'[v].reward].status = "SCRATCHED"
               /\ rewards'[sh'[v].reward].vouchers = 0
               /\ \A u \in SWorker : sh'[u].pc = "issue" /\ sh'[u].reward = sh'[v].reward => u = v
    <3>1. CASE v = w
        BY <1>3, <1>5, <1>7, <1>9, <2>1, <2>3, <2>4, <3>1
    <3>2. CASE v # w
        BY <1>5, <1>7, <1>9, <1>a, <2>3, <2>4, <3>2 DEF VouchersInv, ScratchInv
    <3> QED
        BY <3>1, <3>2
  <2>5. ASSUME NEW v \in SWorker, sh'[v].pc = "cart" PROVE rewards'[sh'[v].reward].type = "GIFT"
      BY <1>3, <1>5, <1>7, <1>9, <1>a, <2>5 DEF VouchersInv, ScratchInv
  <2> QED
      BY <2>2, <2>4, <2>5 DEF VouchersInv
<1>12. GiftInv'
  <2>1. ASSUME NEW o \in SOrder, gift'[o] # 0, sorder'[o] # "cancelled"
        PROVE  rewards'[gift'[o]].status = "CONSUMED" /\ rewards'[gift'[o]].order = o
    <3>1. gift[o] \in DOMAIN rewards
        BY <1>1, <1>4, <2>1 DEF ScratchTypes
    <3>2. rewards[gift[o]].status = "CONSUMED" /\ rewards[gift[o]].order = o
        BY <1>4, <2>1 DEF GiftInv, ScratchInv
    <3> QED
        BY <1>4, <1>5, <3>1, <3>2
  <2>2. ASSUME NEW k \in DOMAIN rewards'
        PROVE  /\ rewards'[k].order = Nobody => rewards'[k].status = "SCRATCHED"
               /\ rewards'[k].order # rewards'[k].from => rewards'[k].type = "GIFT"
      BY <1>3, <1>5 DEF GiftInv, ScratchInv
  <2>3. \A v \in SWorker : sh'[v].pc = "cart" => v # w /\ sh'[v] = sh[v]
      BY <1>7, <1>9
  <2> QED
      BY <1>4, <2>1, <2>2, <2>3 DEF GiftInv, ScratchInv
<1> QED
    BY <1>10, <1>11, <1>12 DEF ScratchInv

LEMMA IssueStep ==
    ASSUME Orders, ScratchInv, NEW w \in SWorker, IssueVoucher(w)
    PROVE  ScratchInv'
<1>1. /\ ScratchTypes /\ rewards \in Seq(PrizeRow) /\ DOMAIN rewards = 1 .. Len(rewards) /\ Len(rewards) \in Nat
      /\ \A k \in DOMAIN rewards : rewards[k] \in PrizeRow
    BY DEF ScratchInv, ScratchTypes
<1>2. PICK i : i = sh[w].reward
    OBVIOUS
<1>3. /\ sh[w].pc = "issue" /\ i \in DOMAIN rewards
      /\ rewards[i].type = "VOUCHER" /\ rewards[i].status = "SCRATCHED" /\ rewards[i].vouchers = 0
      /\ \A v \in SWorker : sh[v].pc = "issue" /\ sh[v].reward = i => v = w
    BY <1>1, <1>2 DEF IssueVoucher, At, ScratchTypes, ScratchInv, VouchersInv
<1>4. PICK r : r = [rewards[i] EXCEPT !.vouchers = 1]
    OBVIOUS
<1>5. /\ r \in PrizeRow /\ r.status = "SCRATCHED" /\ r.vouchers = 1 /\ r.type = "VOUCHER"
      /\ r.order = rewards[i].order /\ r.from = rewards[i].from
    BY <1>1, <1>3, <1>4 DEF PrizeRow
<1>6. rewards' = [rewards EXCEPT ![i] = r] /\ UNCHANGED <<sorder, draw, used, gift, due, broken>>
  <2>1. rewards' = [rewards EXCEPT ![i].vouchers = @ + 1]
      BY <1>2 DEF IssueVoucher
  <2>2. rewards[i].vouchers + 1 = 1
      BY <1>3
  <2> QED
      BY <1>4, <2>1, <2>2 DEF IssueVoucher
<1>7. /\ rewards' \in Seq(PrizeRow) /\ Len(rewards') = Len(rewards) /\ DOMAIN rewards' = DOMAIN rewards
      /\ rewards'[i] = r /\ \A k \in DOMAIN rewards : k # i => rewards'[k] = rewards[k]
    BY <1>1, <1>3, <1>5, <1>6
<1>8. SIdle \in ScratchHandlers /\ SIdle.pc = "idle"
    BY DEF ScratchHandlers, SIdle
<1>9. sh' \in [SWorker -> ScratchHandlers] /\ sh'[w] = SIdle /\ \A v \in SWorker : v # w => sh'[v] = sh[v]
    BY <1>1, <1>8 DEF IssueVoucher, Done, ScratchTypes
<1>a. \A v \in SWorker : sh[v].pc \in {"link", "issue", "cart"} => sh[v].reward \in DOMAIN rewards
    BY <1>1 DEF ScratchTypes
<1>10. ScratchTypes'
    BY <1>1, <1>6, <1>7, <1>8, <1>9 DEF ScratchTypes
<1>b. \A v \in SWorker : sh'[v].pc \in {"issue", "cart"} => v # w /\ sh'[v] = sh[v]
    BY <1>8, <1>9
<1>11. VouchersInv'
  <2>1. \A v \in SWorker : sh'[v].pc = "issue" => sh'[v].reward # i
      BY <1>3, <1>b
  <2> QED
      BY <1>3, <1>5, <1>7, <1>a, <1>b, <2>1 DEF VouchersInv, ScratchInv
<1>12. GiftInv'
  <2>1. \A k \in DOMAIN rewards : /\ rewards'[k].status = rewards[k].status /\ rewards'[k].order = rewards[k].order
                                  /\ rewards'[k].type = rewards[k].type /\ rewards'[k].from = rewards[k].from
      BY <1>3, <1>5, <1>7
  <2>2. ASSUME NEW o \in SOrder, gift'[o] # 0, sorder'[o] # "cancelled"
        PROVE  rewards'[gift'[o]].status = "CONSUMED" /\ rewards'[gift'[o]].order = o
    <3>1. gift[o] \in DOMAIN rewards
        BY <1>1, <1>6, <2>2 DEF ScratchTypes
    <3> QED
        BY <1>6, <2>1, <2>2, <3>1 DEF GiftInv, ScratchInv
  <2> QED
      BY <1>6, <1>7, <1>b, <2>1, <2>2 DEF GiftInv, ScratchInv
<1> QED
    BY <1>10, <1>11, <1>12 DEF ScratchInv

(* A gift is put in a cart.                                                *)
LEMMA CartStep ==
    ASSUME Orders, ScratchInv, NEW w \in SWorker, NEW o \in SOrder, NEW i \in DOMAIN rewards,
           validateGiftLines(w, o, i)
    PROVE  ScratchInv'
<1>1. ScratchTypes /\ DOMAIN rewards \subseteq Nat \ {0}
    BY DEF ScratchInv, ScratchTypes
<1>2. PICK h : h = [pc |-> "cart", order |-> o, reward |-> i]
    OBVIOUS
<1>3. h \in ScratchHandlers /\ h.pc = "cart" /\ h.order = o /\ h.reward = i
    BY <1>1, <1>2 DEF ScratchHandlers
<1>4. /\ sorder[o] = "new" /\ rewards[i].type = "GIFT" /\ UNCHANGED <<sorder, draw, used, rewards, gift, due, broken>>
      /\ Goes(w, h) /\ \A v \in SWorker : sh[v].order # o
    BY <1>2 DEF validateGiftLines, Goes
<1>5. sh' \in [SWorker -> ScratchHandlers] /\ sh'[w] = h /\ \A v \in SWorker : v # w => sh'[v] = sh[v]
    BY <1>1, <1>3, <1>4, HandlersTyped
<1>6. ScratchTypes'
  <2>1. \A v \in SWorker : sh'[v].pc \in {"link", "issue", "cart"} => sh'[v].reward \in DOMAIN rewards'
      BY <1>1, <1>3, <1>4, <1>5 DEF ScratchTypes
  <2> QED
      BY <1>1, <1>4, <1>5, <2>1 DEF ScratchTypes
<1>7. VouchersInv'
  <2>1. \A v \in SWorker : sh'[v].pc = "issue" => v # w /\ sh'[v] = sh[v]
      BY <1>3, <1>5
  <2>2. \A v \in SWorker : sh'[v].pc = "cart" => rewards[sh'[v].reward].type = "GIFT"
      BY <1>3, <1>4, <1>5 DEF VouchersInv, ScratchInv
  <2> QED
      BY <1>4, <2>1, <2>2 DEF VouchersInv, ScratchInv
<1>8. GiftInv'
  <2>1. \A v \in SWorker : sh'[v].pc = "cart" => sorder[sh'[v].order] = "new"
      BY <1>3, <1>4, <1>5 DEF GiftInv, ScratchInv
  <2>2. \A u, v \in SWorker :
            sh'[u].pc = "cart" /\ sh'[v].pc = "cart" /\ sh'[u].order = sh'[v].order => u = v
      BY <1>3, <1>4, <1>5 DEF GiftInv, ScratchInv
  <2> QED
      BY <1>4, <2>1, <2>2 DEF GiftInv, ScratchInv
<1> QED
    BY <1>6, <1>7, <1>8 DEF ScratchInv

(* An order is saved with its gift, or not at all.                         *)
LEMMA GiftStep ==
    ASSUME Orders, ScratchInv, NEW w \in SWorker, ConsumeGift(w)
    PROVE  ScratchInv'
<1>1. /\ ScratchTypes /\ rewards \in Seq(PrizeRow) /\ DOMAIN rewards = 1 .. Len(rewards) /\ Len(rewards) \in Nat
      /\ \A k \in DOMAIN rewards : rewards[k] \in PrizeRow
    BY DEF ScratchInv, ScratchTypes
<1>2. PICK o, i : o = sh[w].order /\ i = sh[w].reward
    OBVIOUS
<1>3. /\ sh[w].pc = "cart" /\ i \in DOMAIN rewards /\ o \in SOrder
      /\ rewards[i].type = "GIFT" /\ sorder[o] = "new"
  <2>1. sh[w].pc = "cart"
      BY DEF ConsumeGift, At
  <2> QED
      BY <1>1, <1>2, <2>1, HandlerIs DEF ScratchTypes, ScratchInv, VouchersInv, GiftInv
<1>4. SIdle \in ScratchHandlers /\ SIdle.pc = "idle"
    BY DEF ScratchHandlers, SIdle
<1>5. /\ sh' \in [SWorker -> ScratchHandlers] /\ sh'[w] = SIdle /\ \A v \in SWorker : v # w => sh'[v] = sh[v]
      /\ UNCHANGED <<draw, used, due, broken>>
    BY <1>1, <1>4 DEF ConsumeGift, Done, ScratchTypes
<1>6. \A v \in SWorker : sh'[v].pc \in {"link", "issue", "cart"} =>
          v # w /\ sh'[v] = sh[v] /\ sh[v].reward \in DOMAIN rewards
    BY <1>1, <1>4, <1>5 DEF ScratchTypes
<1>7. CASE rewards[i].status = "SCRATCHED"
  <2>1. PICK r : r = [rewards[i] EXCEPT !.status = "CONSUMED", !.order = o]
      OBVIOUS
  <2>2. /\ r \in PrizeRow /\ r.status = "CONSUMED" /\ r.vouchers = rewards[i].vouchers /\ r.type = "GIFT"
        /\ r.order = o
      BY <1>1, <1>3, <2>1 DEF PrizeRow
  <2>3. /\ rewards' = [rewards EXCEPT ![i] = r] /\ gift' = [gift EXCEPT ![o] = i]
        /\ sorder' = [sorder EXCEPT ![o] = "placed"]
      BY <1>2, <1>7, <2>1 DEF ConsumeGift
  <2>4. /\ rewards' \in Seq(PrizeRow) /\ Len(rewards') = Len(rewards) /\ DOMAIN rewards' = DOMAIN rewards
        /\ rewards'[i] = r /\ \A k \in DOMAIN rewards : k # i => rewards'[k] = rewards[k]
      BY <1>1, <1>3, <2>2, <2>3
  <2>5. /\ gift' \in [SOrder -> Nat] /\ gift'[o] = i /\ \A p \in SOrder : p # o => gift'[p] = gift[p]
        /\ sorder' \in [SOrder -> {"new", "placed", "cancelled"}] /\ sorder'[o] = "placed"
        /\ \A p \in SOrder : p # o => sorder'[p] = sorder[p]
    <3>1. i \in Nat
        BY <1>1, <1>3
    <3> QED
        BY <1>1, <1>3, <2>3, <3>1 DEF ScratchTypes
  <2>6. ScratchTypes'
    <3>1. ASSUME NEW p \in SOrder
          PROVE  draw'[p].reward \in 0 .. Len(rewards') /\ gift'[p] \in 0 .. Len(rewards')
      <4>1. draw'[p].reward \in 0 .. Len(rewards')
          BY <1>1, <1>5, <2>4 DEF ScratchTypes
      <4>2. CASE p = o
          BY <1>1, <1>3, <2>4, <2>5, <4>1, <4>2
      <4>3. CASE p # o
          BY <1>1, <2>4, <2>5, <4>1, <4>3 DEF ScratchTypes
      <4> QED
          BY <4>2, <4>3
    <3>2. \A v \in SWorker : sh'[v].pc \in {"link", "issue", "cart"} => sh'[v].reward \in DOMAIN rewards'
        BY <1>6, <2>4
    <3> QED
        BY <1>1, <1>5, <2>4, <2>5, <3>1, <3>2 DEF ScratchTypes
  <2>7. VouchersInv'
    <3>1. rewards[i].vouchers = 0
        BY <1>3 DEF VouchersInv, ScratchInv
    <3>2. ASSUME NEW v \in SWorker, sh'[v].pc = "issue" PROVE sh'[v].reward # i
        BY <1>3, <1>6, <3>2 DEF VouchersInv, ScratchInv
    <3>3. \A k \in DOMAIN rewards : rewards'[k].type = rewards[k].type
        BY <1>3, <2>2, <2>4
    <3> QED
        BY <1>6, <2>2, <2>4, <3>1, <3>2, <3>3 DEF VouchersInv, ScratchInv
  <2>8. GiftInv'
    <3>1. ASSUME NEW p \in SOrder, gift'[p] # 0, sorder'[p] # "cancelled"
          PROVE  rewards'[gift'[p]].status = "CONSUMED" /\ rewards'[gift'[p]].order = p
      <4>1. CASE p = o
          BY <2>2, <2>4, <2>5, <4>1
      <4>2. CASE p # o
        <5>1. gift[p] # 0 /\ sorder[p] # "cancelled" /\ gift[p] \in DOMAIN rewards
            BY <1>1, <2>5, <3>1, <4>2 DEF ScratchTypes
        <5>2. rewards[gift[p]].status = "CONSUMED" /\ rewards[gift[p]].order = p
            BY <5>1 DEF GiftInv, ScratchInv
        <5> QED
            BY <1>7, <2>4, <2>5, <4>2, <5>1, <5>2
      <4> QED
          BY <4>1, <4>2
    <3>2. ASSUME NEW k \in DOMAIN rewards'
          PROVE  /\ rewards'[k].order = Nobody => rewards'[k].status = "SCRATCHED"
                 /\ rewards'[k].order # rewards'[k].from => rewards'[k].type = "GIFT"
      <4>1. CASE k = i
          BY <1>3, <2>2, <2>4, <4>1 DEF Orders
      <4>2. CASE k # i
          BY <2>4, <3>2, <4>2 DEF GiftInv, ScratchInv
      <4> QED
          BY <4>1, <4>2
    <3>3. \A p \in due : sorder'[p] = "cancelled"
        BY <1>1, <1>3, <2>5 DEF GiftInv, ScratchInv, ScratchTypes
    <3>4. \A p \in SOrder : sorder'[p] = "new" => gift'[p] = 0
        BY <2>5 DEF GiftInv, ScratchInv
    <3>5. ASSUME NEW v \in SWorker, sh'[v].pc = "cart" PROVE sorder'[sh'[v].order] = "new"
      <4>1. v # w /\ sh'[v] = sh[v] /\ sh[v].order \in SOrder
          BY <1>1, <1>6, <3>5, HandlerIs DEF ScratchTypes
      <4>2. sh[v].order # o
          BY <1>2, <1>3, <3>5, <4>1 DEF GiftInv, ScratchInv
      <4> QED
          BY <2>5, <3>5, <4>1, <4>2 DEF GiftInv, ScratchInv
    <3>6. \A u, v \in SWorker :
              sh'[u].pc = "cart" /\ sh'[v].pc = "cart" /\ sh'[u].order = sh'[v].order => u = v
        BY <1>6 DEF GiftInv, ScratchInv
    <3> QED
        BY <1>5, <3>1, <3>2, <3>3, <3>4, <3>5, <3>6 DEF GiftInv
  <2> QED
      BY <2>6, <2>7, <2>8 DEF ScratchInv
<1>8. CASE rewards[i].status # "SCRATCHED"
  <2>1. UNCHANGED <<sorder, draw, used, rewards, gift, due, broken>>
      BY <1>2, <1>8 DEF ConsumeGift
  <2>2. Quiet(w, SIdle)
      BY <1>4, <2>1 DEF Quiet, ConsumeGift, Done, Goes
  <2>3. Columns
      BY <1>1, <2>1 DEF Columns, ScratchTypes
  <2> QED
      BY <2>2, <2>3, QuietKeeps
<1> QED
    BY <1>7, <1>8

LEMMA PlaceStep ==
    ASSUME Orders, ScratchInv, NEW o \in SOrder, PlaceOrder(o)
    PROVE  ScratchInv'
<1>1. /\ ScratchTypes /\ sorder[o] = "new" /\ \A v \in SWorker : sh[v].order # o
      /\ sorder' = [sorder EXCEPT ![o] = "placed"]
      /\ UNCHANGED <<draw, used, rewards, gift, due, sh, broken>>
    BY DEF PlaceOrder, ScratchInv
<1>2. /\ sorder' \in [SOrder -> {"new", "placed", "cancelled"}] /\ sorder'[o] = "placed"
      /\ \A p \in SOrder : p # o => sorder'[p] = sorder[p]
    BY <1>1 DEF ScratchTypes
<1>3. ScratchTypes'
    BY <1>1, <1>2 DEF ScratchTypes
<1>4. VouchersInv'
    BY <1>1 DEF VouchersInv, ScratchInv
<1>5. GiftInv'
  <2>1. gift[o] = 0 /\ o \notin due /\ due \subseteq SOrder
      BY <1>1 DEF GiftInv, ScratchInv, ScratchTypes
  <2>2. \A v \in SWorker : sh[v].pc = "cart" => sorder'[sh[v].order] = "new"
    <3>1. ASSUME NEW v \in SWorker, sh[v].pc = "cart" PROVE sorder'[sh[v].order] = "new"
      <4>1. sh[v].order \in SOrder \ {o}
          BY <1>1, <3>1, HandlerIs DEF ScratchTypes
      <4> QED
          BY <1>2, <3>1, <4>1 DEF GiftInv, ScratchInv
    <3> QED
        BY <3>1
  <2> QED
      BY <1>1, <1>2, <2>1, <2>2 DEF GiftInv, ScratchInv
<1> QED
    BY <1>3, <1>4, <1>5 DEF ScratchInv

LEMMA CancelStart ==
    ASSUME Orders, ScratchInv, NEW w \in SWorker, NEW o \in SOrder, CancelOrder(w, o)
    PROVE  ScratchInv'
<1>1. /\ ScratchTypes /\ sorder[o] # "new" /\ due' = due \union {o}
      /\ sorder' = [sorder EXCEPT ![o] = "cancelled"]
      /\ UNCHANGED <<draw, used, rewards, gift, broken>>
    BY DEF CancelOrder, ScratchInv
<1>2. /\ sorder' \in [SOrder -> {"new", "placed", "cancelled"}] /\ sorder'[o] = "cancelled"
      /\ \A p \in SOrder : p # o => sorder'[p] = sorder[p]
    BY <1>1 DEF ScratchTypes
<1>3. PICK h : h = [pc |-> "revoke", order |-> o]
    OBVIOUS
<1>4. h \in ScratchHandlers /\ h.pc = "revoke" /\ Goes(w, h)
    BY <1>3 DEF ScratchHandlers, CancelOrder, Goes
<1>5. sh' \in [SWorker -> ScratchHandlers] /\ sh'[w] = h /\ \A v \in SWorker : v # w => sh'[v] = sh[v]
    BY <1>1, <1>4, HandlersTyped
<1>6. \A v \in SWorker : sh'[v].pc \in {"link", "issue", "cart"} => v # w /\ sh'[v] = sh[v]
    BY <1>4, <1>5
<1>7. ScratchTypes'
    BY <1>1, <1>2, <1>5, <1>6 DEF ScratchTypes
<1>8. VouchersInv'
    BY <1>1, <1>6 DEF VouchersInv, ScratchInv
<1>9. GiftInv'
  <2>1. ASSUME NEW v \in SWorker, sh'[v].pc = "cart" PROVE sorder'[sh'[v].order] = "new"
    <3>1. sh'[v] = sh[v] /\ sh[v].order \in SOrder
        BY <1>1, <1>6, <2>1, HandlerIs DEF ScratchTypes
    <3>2. sorder[sh[v].order] = "new"
        BY <2>1, <3>1 DEF GiftInv, ScratchInv
    <3> QED
        BY <1>1, <1>2, <3>1, <3>2
  <2>2. \A p \in due' : sorder'[p] = "cancelled"
      BY <1>1, <1>2 DEF GiftInv, ScratchInv, ScratchTypes
  <2>3. \A u, v \in SWorker :
            sh'[u].pc = "cart" /\ sh'[v].pc = "cart" /\ sh'[u].order = sh'[v].order => u = v
      BY <1>6 DEF GiftInv, ScratchInv
  <2>4. \A p \in SOrder : sorder'[p] = "new" => gift'[p] = 0
      BY <1>1, <1>2 DEF GiftInv, ScratchInv
  <2>5. \A p \in SOrder :
            gift'[p] # 0 /\ sorder'[p] # "cancelled" =>
                rewards'[gift'[p]].status = "CONSUMED" /\ rewards'[gift'[p]].order = p
      BY <1>1, <1>2 DEF GiftInv, ScratchInv
  <2> QED
      BY <1>1, <2>1, <2>2, <2>3, <2>4, <2>5 DEF GiftInv, ScratchInv
<1> QED
    BY <1>7, <1>8, <1>9 DEF ScratchInv

(* What was not scratched is revoked.                                      *)
LEMMA RevokeRows ==
    ASSUME ScratchTypes, NEW w \in SWorker, revokeForOrder(w)
    PROVE  /\ rewards' \in Seq(PrizeRow) /\ Len(rewards') = Len(rewards) /\ DOMAIN rewards' = DOMAIN rewards
           /\ \A k \in DOMAIN rewards :
                 /\ rewards'[k].order = rewards[k].order /\ rewards'[k].from = rewards[k].from
                 /\ rewards'[k].type = rewards[k].type /\ rewards'[k].lot = rewards[k].lot
                 /\ rewards'[k].vouchers = rewards[k].vouchers
                 /\ rewards[k].status # "PENDING" => rewards'[k] = rewards[k]
                 /\ rewards'[k].status \in {rewards[k].status, "REVOKED"}
                 /\ rewards[k].status = "PENDING" /\ rewards[k].order = sh[w].order =>
                        rewards'[k].status = "REVOKED"
<1>1. DOMAIN rewards = 1 .. Len(rewards) /\ rewards \in Seq(PrizeRow)
      /\ \A k \in DOMAIN rewards : rewards[k] \in PrizeRow
    BY DEF ScratchTypes
<1>2. rewards' = [k \in DOMAIN rewards |->
          IF rewards[k].order = sh[w].order /\ rewards[k].status = "PENDING"
          THEN [rewards[k] EXCEPT !.status = "REVOKED"] ELSE rewards[k]]
    BY DEF revokeForOrder
<1>3. ASSUME NEW k \in DOMAIN rewards
      PROVE  /\ rewards'[k] \in PrizeRow
             /\ rewards'[k].order = rewards[k].order /\ rewards'[k].from = rewards[k].from
             /\ rewards'[k].type = rewards[k].type /\ rewards'[k].lot = rewards[k].lot
             /\ rewards'[k].vouchers = rewards[k].vouchers
             /\ rewards[k].status # "PENDING" => rewards'[k] = rewards[k]
             /\ rewards'[k].status \in {rewards[k].status, "REVOKED"}
             /\ rewards[k].status = "PENDING" /\ rewards[k].order = sh[w].order =>
                    rewards'[k].status = "REVOKED"
  <2>1. PICK r : r = rewards[k]
      OBVIOUS
  <2>2. PICK q : q = [r EXCEPT !.status = "REVOKED"]
      OBVIOUS
  <2>3. /\ q \in PrizeRow /\ q.order = r.order /\ q.from = r.from /\ q.type = r.type /\ q.lot = r.lot
        /\ q.vouchers = r.vouchers /\ q.status = "REVOKED" /\ r \in PrizeRow
      BY <1>1, <2>1, <2>2 DEF PrizeRow
  <2>4. rewards'[k] = IF r.order = sh[w].order /\ r.status = "PENDING" THEN q ELSE r
      BY <1>2, <2>1, <2>2
  <2> QED
      BY <2>1, <2>3, <2>4
<1>4. DOMAIN rewards' = DOMAIN rewards /\ rewards' = [k \in DOMAIN rewards |-> rewards'[k]]
    BY <1>2
<1>5. rewards' \in Seq(PrizeRow) /\ Len(rewards') = Len(rewards)
    BY <1>1, <1>3, <1>4, RowsMapped
<1> QED
    BY <1>3, <1>4, <1>5

LEMMA RevokeStep ==
    ASSUME Orders, ScratchInv, NEW w \in SWorker, revokeForOrder(w)
    PROVE  ScratchInv'
<1>1. /\ ScratchTypes /\ rewards \in Seq(PrizeRow) /\ DOMAIN rewards = 1 .. Len(rewards) /\ Len(rewards) \in Nat
      /\ UNCHANGED <<sorder, draw, used, gift, due, broken>>
    BY DEF ScratchInv, ScratchTypes, revokeForOrder
<1>2. /\ rewards' \in Seq(PrizeRow) /\ Len(rewards') = Len(rewards) /\ DOMAIN rewards' = DOMAIN rewards
      /\ \A k \in DOMAIN rewards :
            /\ rewards'[k].order = rewards[k].order /\ rewards'[k].from = rewards[k].from
            /\ rewards'[k].type = rewards[k].type /\ rewards'[k].vouchers = rewards[k].vouchers
            /\ rewards[k].status # "PENDING" => rewards'[k] = rewards[k]
    BY <1>1, RevokeRows
<1>3. PICK h : h = [sh[w] EXCEPT !.pc = "restore"]
    OBVIOUS
<1>4. h \in ScratchHandlers /\ h.pc = "restore" /\ Goes(w, h)
  <2>1. sh[w] \in ScratchHandlers /\ sh[w].pc = "revoke"
      BY <1>1 DEF ScratchTypes, revokeForOrder, At
  <2>2. h \in ScratchHandlers /\ h.pc = "restore"
      BY <1>3, <2>1 DEF ScratchHandlers
  <2> QED
      BY <1>3, <2>2 DEF revokeForOrder, To, Goes
<1>5. sh' \in [SWorker -> ScratchHandlers] /\ sh'[w] = h /\ \A v \in SWorker : v # w => sh'[v] = sh[v]
    BY <1>1, <1>4, HandlersTyped
<1>6. \A v \in SWorker : sh'[v].pc \in {"link", "issue", "cart"} =>
          v # w /\ sh'[v] = sh[v] /\ sh[v].reward \in DOMAIN rewards
    BY <1>1, <1>4, <1>5 DEF ScratchTypes
<1>7. ScratchTypes'
    BY <1>1, <1>2, <1>5, <1>6 DEF ScratchTypes
<1>8. VouchersInv'
  <2>1. ASSUME NEW k \in DOMAIN rewards', rewards'[k].vouchers # 0
        PROVE  rewards'[k].vouchers = 1 /\ rewards'[k].type = "VOUCHER" /\ rewards'[k].status = "SCRATCHED"
    <3>1. rewards[k].vouchers = 1 /\ rewards[k].type = "VOUCHER" /\ rewards[k].status = "SCRATCHED"
        BY <1>2, <2>1 DEF VouchersInv, ScratchInv
    <3> QED
        BY <1>2, <2>1, <3>1
  <2>2. ASSUME NEW v \in SWorker, sh'[v].pc = "issue"
        PROVE  /\ rewards'[sh'[v].reward].type = "VOUCHER" /\ rewards'[sh'[v].reward].status = "SCRATCHED"
               /\ rewards'[sh'[v].reward].vouchers = 0
               /\ \A u \in SWorker : sh'[u].pc = "issue" /\ sh'[u].reward = sh'[v].reward => u = v
    <3>1. sh'[v] = sh[v] /\ sh[v].reward \in DOMAIN rewards
        BY <1>6, <2>2
    <3>2. /\ rewards[sh[v].reward].type = "VOUCHER" /\ rewards[sh[v].reward].status = "SCRATCHED"
          /\ rewards[sh[v].reward].vouchers = 0
          /\ \A u \in SWorker : sh[u].pc = "issue" /\ sh[u].reward = sh[v].reward => u = v
        BY <2>2, <3>1 DEF VouchersInv, ScratchInv
    <3>3. rewards'[sh[v].reward] = rewards[sh[v].reward]
        BY <1>2, <3>1, <3>2
    <3> QED
        BY <1>6, <3>1, <3>2, <3>3
  <2>3. ASSUME NEW v \in SWorker, sh'[v].pc = "cart" PROVE rewards'[sh'[v].reward].type = "GIFT"
      BY <1>2, <1>6, <2>3 DEF VouchersInv, ScratchInv
  <2> QED
      BY <2>1, <2>2, <2>3 DEF VouchersInv
<1>9. GiftInv'
  <2>1. ASSUME NEW o \in SOrder, gift'[o] # 0, sorder'[o] # "cancelled"
        PROVE  rewards'[gift'[o]].status = "CONSUMED" /\ rewards'[gift'[o]].order = o
    <3>1. gift[o] \in DOMAIN rewards
        BY <1>1, <2>1 DEF ScratchTypes
    <3>2. rewards[gift[o]].status = "CONSUMED" /\ rewards[gift[o]].order = o
        BY <1>1, <2>1 DEF GiftInv, ScratchInv
    <3> QED
        BY <1>1, <1>2, <3>1, <3>2
  <2>2. ASSUME NEW k \in DOMAIN rewards'
        PROVE  /\ rewards'[k].order = Nobody => rewards'[k].status = "SCRATCHED"
               /\ rewards'[k].order # rewards'[k].from => rewards'[k].type = "GIFT"
      BY <1>2 DEF GiftInv, ScratchInv
  <2>3. \A u, v \in SWorker :
            sh'[u].pc = "cart" /\ sh'[v].pc = "cart" /\ sh'[u].order = sh'[v].order => u = v
      BY <1>6 DEF GiftInv, ScratchInv
  <2>4. \A v \in SWorker : sh'[v].pc = "cart" => sorder'[sh'[v].order] = "new"
      BY <1>1, <1>6 DEF GiftInv, ScratchInv
  <2> QED
      BY <1>1, <2>1, <2>2, <2>3, <2>4 DEF GiftInv, ScratchInv
<1> QED
    BY <1>7, <1>8, <1>9 DEF ScratchInv

(* The gift of a cancelled order is given back.                            *)
LEMMA ReturnRows ==
    ASSUME ScratchTypes, NEW o \in SOrder, restoreConsumedGiftsForOrder(o)
    PROVE  /\ rewards' \in Seq(PrizeRow) /\ Len(rewards') = Len(rewards) /\ DOMAIN rewards' = DOMAIN rewards
           /\ \A k \in DOMAIN rewards :
                 /\ rewards'[k].from = rewards[k].from /\ rewards'[k].type = rewards[k].type
                 /\ rewards'[k].lot = rewards[k].lot /\ rewards'[k].vouchers = rewards[k].vouchers
                 /\ \/ rewards'[k] = rewards[k]
                    \/ /\ rewards[k].order = o /\ rewards[k].type = "GIFT" /\ rewards[k].status = "CONSUMED"
                       /\ rewards'[k].order = Nobody /\ rewards'[k].status = "SCRATCHED"
<1>1. DOMAIN rewards = 1 .. Len(rewards) /\ rewards \in Seq(PrizeRow)
      /\ \A k \in DOMAIN rewards : rewards[k] \in PrizeRow
    BY DEF ScratchTypes
<1>2. rewards' = [k \in DOMAIN rewards |->
          IF /\ rewards[k].order = o
             /\ rewards[k].type = "GIFT" /\ rewards[k].status = "CONSUMED"
          THEN [rewards[k] EXCEPT !.status = "SCRATCHED", !.order = Nobody] ELSE rewards[k]]
    BY DEF restoreConsumedGiftsForOrder
<1>3. ASSUME NEW k \in DOMAIN rewards
      PROVE  /\ rewards'[k] \in PrizeRow
             /\ rewards'[k].from = rewards[k].from /\ rewards'[k].type = rewards[k].type
             /\ rewards'[k].lot = rewards[k].lot /\ rewards'[k].vouchers = rewards[k].vouchers
             /\ \/ rewards'[k] = rewards[k]
                \/ /\ rewards[k].order = o /\ rewards[k].type = "GIFT" /\ rewards[k].status = "CONSUMED"
                   /\ rewards'[k].order = Nobody /\ rewards'[k].status = "SCRATCHED"
  <2>1. PICK r : r = rewards[k]
      OBVIOUS
  <2>2. PICK q : q = [r EXCEPT !.status = "SCRATCHED", !.order = Nobody]
      OBVIOUS
  <2>3. /\ q \in PrizeRow /\ q.order = Nobody /\ q.from = r.from /\ q.type = r.type /\ q.lot = r.lot
        /\ q.vouchers = r.vouchers /\ q.status = "SCRATCHED" /\ r \in PrizeRow
      BY <1>1, <2>1, <2>2 DEF PrizeRow
  <2>4. rewards'[k] = IF r.order = o /\ r.type = "GIFT" /\ r.status = "CONSUMED" THEN q ELSE r
      BY <1>2, <2>1, <2>2
  <2> QED
      BY <2>1, <2>3, <2>4
<1>4. DOMAIN rewards' = DOMAIN rewards /\ rewards' = [k \in DOMAIN rewards |-> rewards'[k]]
    BY <1>2
<1>5. rewards' \in Seq(PrizeRow) /\ Len(rewards') = Len(rewards)
    BY <1>1, <1>3, <1>4, RowsMapped
<1> QED
    BY <1>3, <1>4, <1>5

LEMMA ReturnStep ==
    ASSUME Orders, ScratchInv, NEW o \in SOrder, restoreConsumedGiftsForOrder(o)
    PROVE  ScratchInv'
<1>1. /\ ScratchTypes /\ rewards \in Seq(PrizeRow) /\ DOMAIN rewards = 1 .. Len(rewards) /\ Len(rewards) \in Nat
      /\ o \in due /\ due' = due \ {o} /\ UNCHANGED <<sorder, draw, used, gift, sh, broken>>
  <2>1. /\ ScratchTypes /\ rewards \in Seq(PrizeRow) /\ DOMAIN rewards = 1 .. Len(rewards)
        /\ Len(rewards) \in Nat
      BY DEF ScratchInv, ScratchTypes
  <2> QED
      BY <2>1 DEF restoreConsumedGiftsForOrder
<1>2. /\ rewards' \in Seq(PrizeRow) /\ Len(rewards') = Len(rewards) /\ DOMAIN rewards' = DOMAIN rewards
      /\ \A k \in DOMAIN rewards :
            /\ rewards'[k].from = rewards[k].from /\ rewards'[k].type = rewards[k].type
            /\ rewards'[k].vouchers = rewards[k].vouchers
            /\ \/ rewards'[k] = rewards[k]
               \/ /\ rewards[k].order = o /\ rewards[k].type = "GIFT" /\ rewards[k].status = "CONSUMED"
                  /\ rewards'[k].order = Nobody /\ rewards'[k].status = "SCRATCHED"
    BY <1>1, ReturnRows
<1>3. \A v \in SWorker : sh[v].pc \in {"link", "issue", "cart"} => sh[v].reward \in DOMAIN rewards
    BY <1>1 DEF ScratchTypes
<1>4. ScratchTypes'
    BY <1>1, <1>2, <1>3 DEF ScratchTypes
<1>5. VouchersInv'
  <2>1. ASSUME NEW k \in DOMAIN rewards', rewards'[k].vouchers # 0
        PROVE  rewards'[k].vouchers = 1 /\ rewards'[k].type = "VOUCHER" /\ rewards'[k].status = "SCRATCHED"
    <3>1. rewards[k].vouchers = 1 /\ rewards[k].type = "VOUCHER" /\ rewards[k].status = "SCRATCHED"
        BY <1>2, <2>1 DEF VouchersInv, ScratchInv
    <3> QED
        BY <1>2, <2>1, <3>1
  <2>2. ASSUME NEW v \in SWorker, sh[v].pc = "issue"
        PROVE  /\ rewards'[sh[v].reward].type = "VOUCHER" /\ rewards'[sh[v].reward].status = "SCRATCHED"
               /\ rewards'[sh[v].reward].vouchers = 0
               /\ \A u \in SWorker : sh[u].pc = "issue" /\ sh[u].reward = sh[v].reward => u = v
    <3>1. /\ rewards[sh[v].reward].type = "VOUCHER" /\ rewards[sh[v].reward].status = "SCRATCHED"
          /\ rewards[sh[v].reward].vouchers = 0
          /\ \A u \in SWorker : sh[u].pc = "issue" /\ sh[u].reward = sh[v].reward => u = v
        BY <2>2 DEF VouchersInv, ScratchInv
    <3> QED
        BY <1>2, <1>3, <2>2, <3>1
  <2>3. ASSUME NEW v \in SWorker, sh[v].pc = "cart" PROVE rewards'[sh[v].reward].type = "GIFT"
      BY <1>2, <1>3, <2>3 DEF VouchersInv, ScratchInv
  <2> QED
      BY <1>1, <2>1, <2>2, <2>3 DEF VouchersInv
<1>6. GiftInv'
  <2>1. ASSUME NEW p \in SOrder, gift'[p] # 0, sorder'[p] # "cancelled"
        PROVE  rewards'[gift'[p]].status = "CONSUMED" /\ rewards'[gift'[p]].order = p
    <3>1. gift[p] \in DOMAIN rewards
        BY <1>1, <2>1 DEF ScratchTypes
    <3>2. rewards[gift[p]].status = "CONSUMED" /\ rewards[gift[p]].order = p
        BY <1>1, <2>1 DEF GiftInv, ScratchInv
    <3>3. p # o
        BY <1>1, <2>1 DEF GiftInv, ScratchInv
    <3>4. rewards'[gift[p]] = rewards[gift[p]]
        BY <1>2, <3>1, <3>2, <3>3
    <3> QED
        BY <1>1, <3>2, <3>4
  <2>2. ASSUME NEW k \in DOMAIN rewards'
        PROVE  /\ rewards'[k].order = Nobody => rewards'[k].status = "SCRATCHED"
               /\ rewards'[k].order # rewards'[k].from => rewards'[k].type = "GIFT"
      BY <1>2 DEF GiftInv, ScratchInv
  <2> QED
      BY <1>1, <2>1, <2>2 DEF GiftInv, ScratchInv
<1> QED
    BY <1>4, <1>5, <1>6 DEF ScratchInv

-----------------------------------------------------------------------------
(* Whatever runs at once. *)

LEMMA ScratchAlways ==
    ASSUME Orders PROVE SSpec => []ScratchInv
<1>1. SInit => ScratchInv
    BY ScratchStart
<1>2. ASSUME ScratchInv, SNext PROVE ScratchInv'
  <2>1. ScratchTypes
      BY <1>2 DEF ScratchInv
  <2>2. ASSUME NEW w \in SWorker, NEW h, Quiet(w, h), Columns PROVE ScratchInv'
      BY <1>2, <2>2, QuietKeeps
  <2>3. ASSUME NEW w \in SWorker, NEW h, NEW r, Awards(w, h, r), Columns PROVE ScratchInv'
      BY <1>2, <2>3, AwardsKeeps
  <2>4. ASSUME NEW w \in SWorker, Customers(w) PROVE ScratchInv'
      BY <1>2, <2>4, ScratchStep, IssueStep, CartStep, GiftStep DEF Customers
  <2>5. ASSUME NEW w \in SWorker, Office(w) PROVE ScratchInv'
      BY <1>2, <2>5, CancelStart, RevokeStep DEF Office
  <2>6. ASSUME NEW o \in SOrder, Alone(o) PROVE ScratchInv'
      BY <1>2, <2>6, PlaceStep, ReturnStep DEF Alone
  <2> QED
      BY <1>2, <2>1, <2>2, <2>3, <2>4, <2>5, <2>6, ScratchKinds
<1>3. ASSUME ScratchInv, UNCHANGED svars PROVE ScratchInv'
    BY <1>3 DEF svars, ScratchInv, ScratchTypes, VouchersInv, GiftInv
<1> QED
    BY <1>1, <1>2, <1>3, PTL DEF SSpec

(* A reward is exchanged for one voucher, and only once it is scratched,   *)
(* though the status and the voucher are written by two statements.        *)
THEOREM VoucherIssuedOnce ==
    ASSUME Orders PROVE SSpec => []OneVoucherPerReward
<1>1. ScratchInv => OneVoucherPerReward
    BY DEF ScratchInv, VouchersInv, OneVoucherPerReward
<1> QED
    BY <1>1, ScratchAlways, PTL

(* A gift is in the cart of one order that stands: the claim is made again *)
(* in the transaction that saves the order.                                *)
THEOREM GiftInOneOrder ==
    ASSUME Orders PROVE SSpec => []GiftUsedOnce
<1>1. ScratchInv => GiftUsedOnce
  <2>1. ASSUME ScratchInv, NEW o \in SOrder, NEW p \in SOrder, o # p, gift[o] # 0, gift[o] = gift[p],
               sorder[o] # "cancelled", sorder[p] # "cancelled"
        PROVE  FALSE
      BY <2>1 DEF ScratchInv, GiftInv
  <2> QED
      BY <2>1 DEF GiftUsedOnce
<1> QED
    BY <1>1, ScratchAlways, PTL

(* The rows of the scratch game keep their types: a gift whose order is    *)
(* forgotten is usable.                                                    *)
THEOREM ScratchTypeCorrect ==
    ASSUME Orders PROVE SSpec => []STypeOK
<1>1. ScratchInv => STypeOK
  <2>1. ASSUME ScratchInv PROVE STypeOK
    <3>1. /\ sorder \in [SOrder -> {"new", "placed", "cancelled"}] /\ draw \in [SOrder -> DrawRow]
          /\ used \in [Lot -> Nat] /\ \A i \in DOMAIN rewards : rewards[i] \in PrizeRow
          /\ \A o \in SOrder : draw[o].reward \in 0 .. Len(rewards) /\ gift[o] \in 0 .. Len(rewards)
        BY <2>1 DEF ScratchInv, ScratchTypes
    <3>2. \A o \in SOrder : draw[o].lot \in Lot \union {Nobody}
        BY <3>1 DEF DrawRow
    <3>3. \A i \in DOMAIN rewards : rewards[i].status \in {"PENDING", "SCRATCHED", "CONSUMED", "REVOKED"}
        BY <3>1 DEF PrizeRow
    <3>4. \A i \in DOMAIN rewards : rewards[i].order = Nobody => rewards[i].status = "SCRATCHED"
        BY <2>1 DEF ScratchInv, GiftInv
    <3> QED
        BY <3>1, <3>2, <3>3, <3>4 DEF STypeOK
  <2> QED
      BY <2>1
<1> QED
    BY <1>1, ScratchAlways, PTL

-----------------------------------------------------------------------------
(* One handler of an order at a time. *)

Solo == Orders /\ ~Racing

OneHandler == \A v, w \in SWorker : sh[v].order = sh[w].order /\ sh[v].order # Nobody => v = w

(* A handler stays with its order, leaves it, or finds one that is free.   *)
StaysWith(w, h) == h.order \in {sh[w].order, Nobody} \/ \A v \in SWorker : sh[v].order # h.order

LEMMA SameOrderKept ==
    ASSUME NEW h \in ScratchHandlers, NEW pc
    PROVE  [h EXCEPT !.pc = pc].order = h.order
BY DEF ScratchHandlers

LEMMA HandlersMove ==
    ASSUME Solo, ScratchTypes, SNext
    PROVE  sh' = sh \/ \E w \in SWorker : \E h : Goes(w, h) /\ StaysWith(w, h)
<1>1. ASSUME NEW w \in SWorker, NEW pc, To(w, pc)
      PROVE  \E h : Goes(w, h) /\ StaysWith(w, h)
  <2>1. PICK h : h = [sh[w] EXCEPT !.pc = pc]
      OBVIOUS
  <2>2. Goes(w, h)
      BY <1>1, <2>1 DEF To, Goes
  <2>3. h.order = sh[w].order
      BY <2>1, SameOrderKept DEF ScratchTypes
  <2> QED
      BY <2>2, <2>3 DEF StaysWith
<1>2. ASSUME NEW w \in SWorker, Done(w)
      PROVE  \E h : Goes(w, h) /\ StaysWith(w, h)
  <2>1. SIdle.order = Nobody
      BY DEF SIdle
  <2> QED
      BY <1>2, <2>1 DEF Done, Goes, StaysWith
<1>3. ASSUME NEW w \in SWorker, NEW r, Goes(w, [pc |-> "link", order |-> sh[w].order, reward |-> r])
      PROVE  \E h : Goes(w, h) /\ StaysWith(w, h)
    BY <1>3 DEF StaysWith
<1>4. ASSUME NEW w \in SWorker, DrawStep(w) \/ CancelStep(w) \/ IssueVoucher(w) \/ ConsumeGift(w) \/ Break(w)
      PROVE  \E h : Goes(w, h) /\ StaysWith(w, h)
  <2>1. CASE claimDraw(w)
      BY <1>1, <1>2, <2>1 DEF claimDraw
  <2>2. CASE ClaimStock(w)
      BY <1>1, <2>2 DEF ClaimStock
  <2>3. CASE createRewardFromLot(w)
      BY <1>3, <2>3 DEF createRewardFromLot, Goes
  <2>4. CASE createPointsReward(w)
      BY <1>3, <2>4 DEF createPointsReward, Goes
  <2>5. CASE Link(w) \/ reconcileMissingReward(w) \/ IssueVoucher(w) \/ ConsumeGift(w) \/ Break(w)
      BY <1>2, <2>5 DEF Link, reconcileMissingReward, IssueVoucher, ConsumeGift, Break
  <2>6. CASE CancelStep(w)
      BY <1>1, <1>2, <2>6 DEF CancelStep, revokeForOrder, RestoreRead, RestoreClaim, restoreStockForCancelledOrder
  <2> QED
      BY <1>4, <2>1, <2>2, <2>3, <2>4, <2>5, <2>6 DEF DrawStep
<1>5. ASSUME NEW w \in SWorker, NEW o \in SOrder, drawForOrder(w, o) \/ CancelOrder(w, o)
      PROVE  \E h : Goes(w, h) /\ StaysWith(w, h)
  <2>1. \A v \in SWorker : sh[v].order # o
      BY <1>5 DEF drawForOrder, CancelOrder, FreeFor, Solo
  <2>2. \A h : h.order = o => StaysWith(w, h)
      BY <2>1 DEF StaysWith
  <2>3. \A pc, l : /\ [pc |-> pc, order |-> o].order = o
                   /\ [pc |-> pc, order |-> o, lot |-> l].order = o
      OBVIOUS
  <2>4. CASE drawForOrder(w, o) /\ draw[o].made
    <3>1. PICK pc : Goes(w, [pc |-> pc, order |-> o])
        BY <2>4 DEF drawForOrder, Goes
    <3> QED
        BY <2>2, <2>3, <3>1
  <2>5. CASE drawForOrder(w, o) /\ ~draw[o].made
    <3>1. PICK l : Goes(w, [pc |-> "claim", order |-> o, lot |-> l])
        BY <2>5 DEF drawForOrder, Goes
    <3> QED
        BY <2>2, <2>3, <3>1
  <2>6. CASE CancelOrder(w, o)
      BY <2>2, <2>3, <2>6 DEF CancelOrder, Goes
  <2> QED
      BY <1>5, <2>4, <2>5, <2>6
<1>6. ASSUME NEW w \in SWorker, NEW i \in DOMAIN rewards, scratchReward(w, i)
      PROVE  sh' = sh \/ \E h : Goes(w, h) /\ StaysWith(w, h)
  <2>1. \A v \in SWorker : sh[v].order # rewards[i].from
      BY <1>6 DEF scratchReward, FreeFor, Solo
  <2>2. CASE rewards[i].type = "VOUCHER"
    <3>1. PICK h : h = [pc |-> "issue", order |-> rewards[i].from, reward |-> i]
        OBVIOUS
    <3>2. h.order = rewards[i].from
        BY <3>1
    <3>3. Goes(w, h)
        BY <1>6, <2>2, <3>1 DEF scratchReward, Goes
    <3> QED
        BY <2>1, <3>2, <3>3 DEF StaysWith
  <2>3. CASE rewards[i].type # "VOUCHER"
      BY <1>6, <2>3 DEF scratchReward
  <2> QED
      BY <2>2, <2>3
<1>7. ASSUME NEW w \in SWorker, NEW o \in SOrder, NEW i \in DOMAIN rewards, validateGiftLines(w, o, i)
      PROVE  \E h : Goes(w, h) /\ StaysWith(w, h)
  <2>1. PICK h : h = [pc |-> "cart", order |-> o, reward |-> i]
      OBVIOUS
  <2>2. h.order = o
      BY <2>1
  <2>3. Goes(w, h) /\ \A v \in SWorker : sh[v].order # o
      BY <1>7, <2>1 DEF validateGiftLines, Goes
  <2> QED
      BY <2>2, <2>3 DEF StaysWith
<1>8. ASSUME NEW o \in SOrder, PlaceOrder(o) \/ restoreConsumedGiftsForOrder(o)
      PROVE  sh' = sh
    BY <1>8 DEF PlaceOrder, restoreConsumedGiftsForOrder
<1> QED
    BY <1>4, <1>5, <1>6, <1>7, <1>8 DEF SNext

LEMMA AloneStep ==
    ASSUME Solo, ScratchTypes, OneHandler, SNext
    PROVE  OneHandler'
<1>1. CASE sh' = sh
    BY <1>1 DEF OneHandler
<1>2. ASSUME NEW w \in SWorker, NEW h, Goes(w, h), StaysWith(w, h) PROVE OneHandler'
  <2>1. sh'[w] = h /\ \A v \in SWorker : v # w => sh'[v] = sh[v]
      BY <1>2, HandlersTyped
  <2> QED
      BY <1>2, <2>1 DEF OneHandler, StaysWith
<1> QED
    BY <1>1, <1>2, HandlersMove

(* What the draw of an order has left behind, by the step of its handler.  *)
PrizesOf(o) == {i \in DOMAIN rewards : rewards[i].from = o}
Draws == {"stock", "prize", "floor", "link"}
AllRevoked(o) == \A i \in DOMAIN rewards : rewards[i].from = o => rewards[i].status = "REVOKED"

HandlerAt(o, h) ==
    /\ h.pc # "reconcile" /\ (h.pc = "claim" => ~draw[o].made)
    /\ h.pc \in Draws => draw[o].made /\ draw[o].reward = 0 /\ ~draw[o].restored
    /\ h.pc \in {"stock", "prize", "floor"} => PrizesOf(o) = {}
    /\ h.pc = "link" => PrizesOf(o) = {h.reward}
    /\ h.pc = "floor" => draw[o].lot = Nobody
    /\ h.pc = "stock" => draw[o].lot = h.lot
    /\ h.pc = "giveback" => AllRevoked(o) /\ draw[o].lot \in Lot
    /\ h.pc = "decrement" => draw[o].restored /\ draw[o].lot \in Lot

DrawAt(o) ==
    /\ ~draw[o].made => PrizesOf(o) = {} /\ draw[o].lot = Nobody /\ ~draw[o].restored
    /\ \A w \in SWorker : sh[w].order = o => HandlerAt(o, sh[w])
    /\ draw[o].made /\ (\A w \in SWorker : sh[w].order = o => sh[w].pc \notin Draws) => draw[o].reward # 0
    /\ draw[o].reward # 0 => PrizesOf(o) = {draw[o].reward}
    /\ \A i \in PrizesOf(o) : rewards[i].lot # Nobody => rewards[i].lot = draw[o].lot
    /\ draw[o].restored => AllRevoked(o)

DrawInv == \A o \in SOrder \ broken : DrawAt(o)

(* The rewards of an order stay, and stay revoked.                         *)
RowsStay(o) ==
    /\ DOMAIN rewards \subseteq DOMAIN rewards'
    /\ \A i \in DOMAIN rewards :
          /\ rewards'[i].from = rewards[i].from /\ rewards'[i].lot = rewards[i].lot
          /\ rewards[i].status = "REVOKED" => rewards'[i].status = "REVOKED"
    /\ \A i \in DOMAIN rewards' : i \in DOMAIN rewards \/ rewards'[i].from # o

LEMMA RowsKeptHere ==
    ASSUME NEW o, RowsStay(o)
    PROVE  PrizesOf(o)' = PrizesOf(o) /\ (AllRevoked(o) => AllRevoked(o)')
           /\ \A i \in PrizesOf(o) : rewards'[i].lot = rewards[i].lot
BY DEF RowsStay, PrizesOf, AllRevoked

LEMMA RowsSame ==
    ASSUME NEW o, rewards' = rewards PROVE RowsStay(o)
BY DEF RowsStay

(* A step that changes nothing of the order but perhaps its handler.       *)
LEMMA DrawKept ==
    ASSUME ScratchTypes, NEW o \in SOrder, DrawAt(o), draw'[o] = draw[o], RowsStay(o),
           NEW w \in SWorker, NEW h, Goes(w, h),
           sh[w].order = o /\ sh[w].pc \in Draws => h.order = o /\ h.pc \in Draws,
           h.order = o => HandlerAt(o, h)'
    PROVE  DrawAt(o)'
<1>1. sh'[w] = h /\ \A v \in SWorker : v # w => sh'[v] = sh[v]
    BY HandlersTyped
<1>2. /\ PrizesOf(o)' = PrizesOf(o) /\ (AllRevoked(o) => AllRevoked(o)')
      /\ \A i \in PrizesOf(o) : rewards'[i].lot = rewards[i].lot
    BY RowsKeptHere
<1>3. ASSUME NEW v \in SWorker, sh'[v].order = o PROVE HandlerAt(o, sh[v])'
  <2>1. CASE v = w
      BY <1>1, <1>3, <2>1 DEF HandlerAt
  <2>2. CASE v # w
      BY <1>1, <1>2, <1>3, <2>2 DEF DrawAt, HandlerAt
  <2> QED
      BY <2>1, <2>2
<1>4. (\A v \in SWorker : sh'[v].order = o => sh'[v].pc \notin Draws) =>
          \A v \in SWorker : sh[v].order = o => sh[v].pc \notin Draws
    BY <1>1
<1> QED
    BY <1>2, <1>3, <1>4 DEF DrawAt

LEMMA DrawStill ==
    ASSUME NEW o \in SOrder, DrawAt(o), draw'[o] = draw[o], RowsStay(o), sh' = sh
    PROVE  DrawAt(o)'
<1>1. /\ PrizesOf(o)' = PrizesOf(o) /\ (AllRevoked(o) => AllRevoked(o)')
      /\ \A i \in PrizesOf(o) : rewards'[i].lot = rewards[i].lot
    BY RowsKeptHere
<1>2. ASSUME NEW v \in SWorker, sh'[v].order = o PROVE HandlerAt(o, sh[v])'
    BY <1>1, <1>2 DEF DrawAt, HandlerAt
<1> QED
    BY <1>1, <1>2 DEF DrawAt

Lights == {"idle", "issue", "cart", "revoke", "restore"}

LEMMA LightKept ==
    ASSUME ScratchTypes, NEW o \in SOrder, DrawAt(o), draw' = draw, RowsStay(o),
           NEW w \in SWorker, NEW h, Goes(w, h), h.pc \in Lights,
           sh[w].pc \notin Draws \/ sh[w].order # o
    PROVE  DrawAt(o)'
<1>1. h.order = o => HandlerAt(o, h)'
    BY DEF HandlerAt, Lights, Draws
<1> QED
    BY <1>1, DrawKept

(* The steps that do not draw.                                             *)
LEMMA DrawInvLight ==
    ASSUME Solo, ScratchInv, DrawInv, NEW w \in SWorker,
           Customers(w) \/ Office(w) \/ Break(w) \/ restoreStockForCancelledOrder(w),
           NEW p \in SOrder, p \notin broken'
    PROVE  DrawAt(p)'
<1>1. /\ ScratchTypes /\ DOMAIN rewards = 1 .. Len(rewards) /\ \A k \in DOMAIN rewards : rewards[k] \in PrizeRow
      /\ sh[w] \in ScratchHandlers /\ SIdle.pc = "idle" /\ SIdle.order = Nobody
    BY DEF ScratchInv, ScratchTypes, SIdle
<1>2. p \notin broken => DrawAt(p)
    BY DEF DrawInv
<1>3. CASE Break(w)
  <2>1. p # sh[w].order /\ p \notin broken /\ draw' = draw /\ rewards' = rewards /\ Goes(w, SIdle)
      BY <1>3 DEF Break, Done, Goes
  <2> QED
      BY <1>1, <1>2, <2>1, RowsSame, LightKept DEF Lights
<1>4. CASE restoreStockForCancelledOrder(w)
  <2>1. /\ sh[w].pc = "decrement" /\ draw' = draw /\ rewards' = rewards /\ broken' = broken /\ Goes(w, SIdle)
      BY <1>4 DEF restoreStockForCancelledOrder, At, Done, Goes
  <2> QED
      BY <1>1, <1>2, <2>1, RowsSame, LightKept DEF Lights, Draws
<1>5. CASE IssueVoucher(w)
  <2>1. sh[w].pc = "issue" /\ draw' = draw /\ broken' = broken /\ Goes(w, SIdle)
      BY <1>5 DEF IssueVoucher, At, Done, Goes
  <2>2. PICK i : i = sh[w].reward
      OBVIOUS
  <2>3. i \in DOMAIN rewards
      BY <1>1, <2>1, <2>2 DEF ScratchTypes
  <2>4. rewards' = [rewards EXCEPT ![i].vouchers = @ + 1]
      BY <1>5, <2>2 DEF IssueVoucher
  <2>5. PICK r : r = [rewards[i] EXCEPT !.vouchers = @ + 1]
      OBVIOUS
  <2>6. r.from = rewards[i].from /\ r.lot = rewards[i].lot /\ r.status = rewards[i].status
      BY <1>1, <2>3, <2>5 DEF PrizeRow
  <2>7. rewards' = [rewards EXCEPT ![i] = r]
      BY <2>4, <2>5
  <2>8. RowsStay(p)
      BY <1>1, <2>3, <2>6, <2>7 DEF RowsStay, ScratchTypes
  <2> QED
      BY <1>1, <1>2, <2>1, <2>8, LightKept DEF Lights, Draws
<1>6. CASE ConsumeGift(w)
  <2>1. sh[w].pc = "cart" /\ draw' = draw /\ broken' = broken /\ Goes(w, SIdle)
      BY <1>6 DEF ConsumeGift, At, Done, Goes
  <2>2. PICK i, o : i = sh[w].reward /\ o = sh[w].order
      OBVIOUS
  <2>3. i \in DOMAIN rewards
      BY <1>1, <2>1, <2>2 DEF ScratchTypes
  <2>4. RowsStay(p)
    <3>1. CASE rewards[i].status = "SCRATCHED"
      <4>1. PICK r : r = [rewards[i] EXCEPT !.status = "CONSUMED", !.order = o]
          OBVIOUS
      <4>2. r.from = rewards[i].from /\ r.lot = rewards[i].lot
          BY <1>1, <2>3, <4>1 DEF PrizeRow
      <4>3. rewards' = [rewards EXCEPT ![i] = r]
          BY <1>6, <2>2, <3>1, <4>1 DEF ConsumeGift
      <4> QED
          BY <1>1, <2>3, <3>1, <4>2, <4>3 DEF RowsStay, ScratchTypes
    <3>2. CASE rewards[i].status # "SCRATCHED"
        BY <1>6, <2>2, <3>2, RowsSame DEF ConsumeGift
    <3> QED
        BY <3>1, <3>2
  <2> QED
      BY <1>1, <1>2, <2>1, <2>4, LightKept DEF Lights, Draws
<1>7. ASSUME NEW i \in DOMAIN rewards, scratchReward(w, i) PROVE DrawAt(p)'
  <2>1. sh[w] = SIdle /\ draw' = draw /\ broken' = broken /\ rewards[i].status = "PENDING"
      BY <1>7 DEF scratchReward, FreeFor
  <2>2. PICK r : r = [rewards[i] EXCEPT !.status = "SCRATCHED"]
      OBVIOUS
  <2>3. r.from = rewards[i].from /\ r.lot = rewards[i].lot
      BY <1>1, <2>2 DEF PrizeRow
  <2>4. rewards' = [rewards EXCEPT ![i] = r]
      BY <1>7, <2>2 DEF scratchReward
  <2>5. RowsStay(p)
      BY <1>1, <2>1, <2>3, <2>4 DEF RowsStay, ScratchTypes
  <2>6. CASE rewards[i].type = "VOUCHER"
    <3>1. PICK h : h = [pc |-> "issue", order |-> rewards[i].from, reward |-> i]
        OBVIOUS
    <3>2. Goes(w, h) /\ h.pc = "issue"
        BY <1>7, <2>6, <3>1 DEF scratchReward, Goes
    <3> QED
        BY <1>1, <1>2, <2>1, <2>5, <3>2, LightKept DEF Lights, Draws
  <2>7. CASE rewards[i].type # "VOUCHER"
    <3>1. sh' = sh
        BY <1>7, <2>7 DEF scratchReward
    <3> QED
        BY <1>2, <2>1, <2>5, <3>1, DrawStill
  <2> QED
      BY <2>6, <2>7
<1>8. ASSUME NEW o \in SOrder, NEW i \in DOMAIN rewards, validateGiftLines(w, o, i) PROVE DrawAt(p)'
  <2>1. sh[w] = SIdle /\ draw' = draw /\ broken' = broken /\ rewards' = rewards
      BY <1>8 DEF validateGiftLines
  <2>2. PICK h : h = [pc |-> "cart", order |-> o, reward |-> i]
      OBVIOUS
  <2>3. Goes(w, h) /\ h.pc = "cart"
      BY <1>8, <2>2 DEF validateGiftLines, Goes
  <2> QED
      BY <1>1, <1>2, <2>1, <2>3, RowsSame, LightKept DEF Lights, Draws
<1>9. CASE revokeForOrder(w)
  <2>1. sh[w].pc = "revoke" /\ draw' = draw /\ broken' = broken
      BY <1>9 DEF revokeForOrder, At
  <2>2. PICK h : h = [sh[w] EXCEPT !.pc = "restore"]
      OBVIOUS
  <2>3. h.pc = "restore"
      BY <1>1, <2>2 DEF ScratchHandlers
  <2>4. Goes(w, h)
      BY <1>9, <2>2 DEF revokeForOrder, To, Goes
  <2>5. RowsStay(p)
      BY <1>1, <1>9, RevokeRows DEF RowsStay
  <2> QED
      BY <1>1, <1>2, <2>1, <2>3, <2>4, <2>5, LightKept DEF Lights, Draws
<1>10. ASSUME NEW o \in SOrder, CancelOrder(w, o) PROVE DrawAt(p)'
  <2>1. sh[w] = SIdle /\ draw' = draw /\ broken' = broken /\ rewards' = rewards
      BY <1>10 DEF CancelOrder, FreeFor
  <2>2. PICK h : h = [pc |-> "revoke", order |-> o]
      OBVIOUS
  <2>3. Goes(w, h) /\ h.pc = "revoke"
      BY <1>10, <2>2 DEF CancelOrder, Goes
  <2> QED
      BY <1>1, <1>2, <2>1, <2>3, RowsSame, LightKept DEF Lights, Draws
<1> QED
    BY <1>3, <1>4, <1>5, <1>6, <1>7, <1>8, <1>9, <1>10 DEF Customers, Office

LEMMA DrawInvAlone ==
    ASSUME ScratchInv, DrawInv, NEW o \in SOrder, Alone(o), NEW p \in SOrder, p \notin broken'
    PROVE  DrawAt(p)'
<1>1. ScratchTypes /\ DrawAt(p) /\ draw' = draw /\ sh' = sh
    BY DEF ScratchInv, DrawInv, Alone, PlaceOrder, restoreConsumedGiftsForOrder
<1>2. CASE PlaceOrder(o)
    BY <1>1, <1>2, RowsSame, DrawStill DEF PlaceOrder
<1>3. CASE restoreConsumedGiftsForOrder(o)
  <2>1. RowsStay(p)
    <3>1. /\ DOMAIN rewards' = DOMAIN rewards
          /\ \A k \in DOMAIN rewards :
                /\ rewards'[k].from = rewards[k].from /\ rewards'[k].lot = rewards[k].lot
                /\ rewards'[k] = rewards[k] \/ rewards[k].status = "CONSUMED"
        BY <1>1, <1>3, ReturnRows
    <3> QED
        BY <3>1 DEF RowsStay
  <2> QED
      BY <1>1, <2>1, DrawStill
<1> QED
    BY <1>2, <1>3 DEF Alone

(* The two reads and the claim that give the stock back.                   *)
LEMMA DrawInvBack ==
    ASSUME Solo, ScratchInv, OneHandler, DrawInv, NEW w \in SWorker, RestoreRead(w) \/ RestoreClaim(w),
           NEW p \in SOrder, p \notin broken'
    PROVE  DrawAt(p)'
<1>o. PICK o : o = sh[w].order
    OBVIOUS
<1>1. /\ ScratchTypes /\ DrawAt(p) /\ rewards' = rewards /\ SIdle.pc = "idle" /\ SIdle.order = Nobody
      /\ sh[w].pc \in {"restore", "giveback"} /\ sh[w] \in ScratchHandlers /\ o \in SOrder /\ o # Nobody
  <2>1. ScratchTypes /\ DrawAt(p) /\ rewards' = rewards /\ sh[w].pc \in {"restore", "giveback"}
      BY DEF ScratchInv, DrawInv, RestoreRead, RestoreClaim, At
  <2>2. sh[w] \in ScratchHandlers
      BY <2>1 DEF ScratchTypes
  <2> QED
      BY <1>o, <2>1, <2>2, HandlerIs DEF SIdle, Solo, Orders
<1>2. \A v \in SWorker : sh[v].order = o => v = w
    BY <1>o, <1>1 DEF OneHandler
<1>3. RowsStay(p)
    BY <1>1, RowsSame
<1>4. ASSUME Goes(w, SIdle), draw' = draw PROVE DrawAt(p)'
    BY <1>1, <1>3, <1>4, LightKept DEF Lights, Draws
<1>5. CASE RestoreRead(w)
  <2>1. CASE Goes(w, SIdle)
      BY <1>4, <1>5, <2>1 DEF RestoreRead
  <2>2. CASE ~Goes(w, SIdle)
    <3>1. PICK h : h = [sh[w] EXCEPT !.pc = "giveback"]
        OBVIOUS
    <3>2. h.pc = "giveback" /\ h.order = o
        BY <1>o, <1>1, <3>1 DEF ScratchHandlers
    <3>3. /\ Goes(w, h) /\ draw' = draw /\ draw[o].lot # Nobody /\ ~draw[o].restored
          /\ draw[o].reward # 0 => rewards[draw[o].reward].status = "REVOKED"
          /\ sh[w].pc = "restore"
        BY <1>o, <1>5, <2>2, <3>1 DEF RestoreRead, Done, To, Goes, At
    <3>4. ASSUME o = p PROVE HandlerAt(o, h)'
      <4>1. draw[o].made
          BY <1>1, <3>3, <3>4 DEF DrawAt
      <4>2. draw[o].reward # 0
          BY <1>1, <1>2, <3>3, <3>4, <4>1 DEF DrawAt, Draws
      <4>3. PrizesOf(o) = {draw[o].reward}
          BY <1>1, <3>4, <4>2 DEF DrawAt
      <4>4. AllRevoked(o)
          BY <3>3, <4>2, <4>3 DEF AllRevoked, PrizesOf
      <4>5. draw[o].lot \in Lot
          BY <1>1, <3>3 DEF ScratchTypes, DrawRow
      <4> QED
          BY <1>1, <3>2, <3>3, <4>4, <4>5 DEF HandlerAt, AllRevoked, Draws
    <3>5. h.order = p => HandlerAt(p, h)'
        BY <3>2, <3>4
    <3>6. sh[w].pc \notin Draws /\ draw'[p] = draw[p]
        BY <3>3 DEF Draws
    <3> QED
        BY <1>1, <1>3, <3>3, <3>5, <3>6, DrawKept
  <2> QED
      BY <2>1, <2>2
<1>6. CASE RestoreClaim(w)
  <2>0. sh[w].pc = "giveback"
      BY <1>6 DEF RestoreClaim, At
  <2>1. CASE draw[o].restored
      BY <1>o, <1>4, <1>6, <2>1 DEF RestoreClaim, Done, Goes
  <2>2. CASE ~draw[o].restored
    <3>1. PICK h : h = [sh[w] EXCEPT !.pc = "decrement"]
        OBVIOUS
    <3>2. h.pc = "decrement" /\ h.order = o
        BY <1>o, <1>1, <3>1 DEF ScratchHandlers
    <3>3. PICK d : d = [draw[o] EXCEPT !.restored = TRUE]
        OBVIOUS
    <3>4. /\ d.restored /\ d.lot = draw[o].lot /\ d.made = draw[o].made /\ d.reward = draw[o].reward
        BY <1>1, <3>3 DEF ScratchTypes, DrawRow
    <3>5. Goes(w, h) /\ draw' = [draw EXCEPT ![o] = d]
        BY <1>o, <1>6, <2>2, <3>1, <3>3 DEF RestoreClaim, To, Goes
    <3>6. draw'[o] = d /\ \A q \in SOrder : q # o => draw'[q] = draw[q]
        BY <1>1, <3>5 DEF ScratchTypes
    <3>7. CASE p # o
        BY <1>o, <1>1, <1>3, <3>2, <3>5, <3>6, <3>7, DrawKept
    <3>8. CASE p = o
      <4>1. HandlerAt(o, sh[w])
          BY <1>o, <1>1, <3>8 DEF DrawAt
      <4>2. AllRevoked(o) /\ draw[o].lot \in Lot /\ draw[o].lot # Nobody
          BY <2>0, <4>1 DEF HandlerAt, Solo, Orders
      <4>3. draw[o].made
          BY <1>1, <3>8, <4>2 DEF DrawAt
      <4>4. draw[o].reward # 0
          BY <1>1, <1>2, <2>0, <3>8, <4>3 DEF DrawAt, Draws
      <4>5. \A v \in SWorker : sh'[v].order = o => v = w /\ sh'[v] = h
          BY <1>1, <1>2, <3>5, HandlersTyped
      <4>6. /\ PrizesOf(o)' = PrizesOf(o) /\ AllRevoked(o)'
            /\ \A i \in PrizesOf(o) : rewards'[i].lot = rewards[i].lot
          BY <1>3, <3>8, <4>2, RowsKeptHere
      <4>7. ASSUME NEW v \in SWorker, sh'[v].order = o PROVE HandlerAt(o, sh[v])'
          BY <3>2, <3>4, <3>6, <4>2, <4>5, <4>7 DEF HandlerAt, Draws
      <4> QED
          BY <1>1, <3>4, <3>6, <3>8, <4>3, <4>4, <4>6, <4>7 DEF DrawAt
    <3> QED
        BY <3>7, <3>8
  <2> QED
      BY <2>1, <2>2
<1> QED
    BY <1>5, <1>6

(* A draw begins: an order that was drawn to its end is not drawn again.   *)
LEMMA DrawInvStart ==
    ASSUME Solo, ScratchInv, DrawInv, NEW w \in SWorker, NEW o \in SOrder, drawForOrder(w, o),
           NEW p \in SOrder, p \notin broken'
    PROVE  DrawAt(p)'
<1>1. /\ ScratchTypes /\ DrawAt(p) /\ rewards' = rewards /\ draw' = draw
      /\ ~(draw[o].made /\ draw[o].reward # 0)
    BY DEF ScratchInv, DrawInv, drawForOrder
<1>2. sh[w].pc = "idle" /\ \A v \in SWorker : sh[v].order # o
    BY DEF drawForOrder, FreeFor, SIdle, Solo
<1>3. RowsStay(p)
    BY <1>1, RowsSame
<1>4. CASE draw[o].made
  <2>1. p # o
      BY <1>1, <1>2, <1>4 DEF DrawAt
  <2>2. PICK h : h = [pc |-> IF draw[o].lot = Nobody THEN "floor" ELSE "reconcile", order |-> o]
      OBVIOUS
  <2>3. h.order = o /\ Goes(w, h)
      BY <1>4, <2>2 DEF drawForOrder, Goes
  <2> QED
      BY <1>1, <1>2, <1>3, <2>1, <2>3, DrawKept DEF Draws
<1>5. CASE ~draw[o].made
  <2>1. PICK l : sh' = [sh EXCEPT ![w] = [pc |-> "claim", order |-> o, lot |-> l]]
      BY <1>5 DEF drawForOrder
  <2>2. PICK h : h = [pc |-> "claim", order |-> o, lot |-> l]
      OBVIOUS
  <2>3. h.order = o /\ h.pc = "claim" /\ Goes(w, h)
      BY <2>1, <2>2 DEF Goes
  <2>4. HandlerAt(o, h)'
      BY <1>1, <1>5, <2>3 DEF HandlerAt, Draws
  <2> QED
      BY <1>1, <1>2, <1>3, <2>3, <2>4, DrawKept DEF Draws
<1> QED
    BY <1>4, <1>5

(* The draw goes on: o is its order, and no other handler has it.          *)
LEMMA Drawn ==
    ASSUME Solo, ScratchTypes, OneHandler, NEW w \in SWorker, sh[w].pc # "idle",
           NEW o, o = sh[w].order, NEW h, Goes(w, h), h.order \in {o, Nobody}
    PROVE  /\ o \in SOrder /\ o # Nobody
           /\ \A v \in SWorker : sh[v].order = o => v = w
           /\ sh'[w] = h /\ \A v \in SWorker : sh'[v].order = o => v = w
           /\ \A p \in SOrder : p # o /\ DrawAt(p) /\ draw'[p] = draw[p] /\ RowsStay(p) => DrawAt(p)'
<1>1. sh[w] \in ScratchHandlers
    BY DEF ScratchTypes
<1>2. o \in SOrder /\ o # Nobody
    BY <1>1, HandlerIs DEF Solo, Orders
<1>3. \A v \in SWorker : sh[v].order = o => v = w
    BY <1>2 DEF OneHandler
<1>4. sh'[w] = h /\ \A v \in SWorker : v # w => sh'[v] = sh[v]
    BY HandlersTyped
<1>5. ASSUME NEW p \in SOrder, p # o, DrawAt(p), draw'[p] = draw[p], RowsStay(p) PROVE DrawAt(p)'
  <2>1. h.order # p /\ sh[w].order # p
      BY <1>5 DEF Solo, Orders
  <2> QED
      BY <1>5, <2>1, DrawKept
<1> QED
    BY <1>2, <1>3, <1>4, <1>5

LEMMA DrawInvClaim ==
    ASSUME Solo, ScratchInv, OneHandler, DrawInv, NEW w \in SWorker, claimDraw(w),
           NEW p \in SOrder, p \notin broken'
    PROVE  DrawAt(p)'
<1>1. PICK o : o = sh[w].order
    OBVIOUS
<1>2. /\ ScratchTypes /\ DrawAt(p) /\ rewards' = rewards /\ sh[w].pc = "claim"
      /\ SIdle.order = Nobody /\ SIdle.pc = "idle" /\ sh[w] \in ScratchHandlers
    BY DEF ScratchInv, ScratchTypes, DrawInv, claimDraw, At, SIdle
<1>3. RowsStay(p)
    BY <1>2, RowsSame
<1>4. CASE draw[o].made
  <2>1. draw' = draw /\ Goes(w, SIdle)
      BY <1>1, <1>4 DEF claimDraw, Done, Goes
  <2> QED
      BY <1>2, <1>3, <2>1, LightKept DEF Lights, Draws
<1>5. CASE ~draw[o].made
  <2>1. PICK pc : pc = IF sh[w].lot = Nobody THEN "floor" ELSE "stock"
      OBVIOUS
  <2>2. PICK h : h = [sh[w] EXCEPT !.pc = pc]
      OBVIOUS
  <2>3. /\ h.pc = pc /\ h.order = o /\ h.lot = sh[w].lot
      BY <1>1, <1>2, <2>2 DEF ScratchHandlers
  <2>4. PICK d : d = [draw[o] EXCEPT !.made = TRUE, !.lot = sh[w].lot]
      OBVIOUS
  <2>5. Goes(w, h) /\ draw' = [draw EXCEPT ![o] = d]
      BY <1>1, <1>5, <2>1, <2>2, <2>4 DEF claimDraw, To, Goes
  <2>6. /\ o \in SOrder /\ o # Nobody /\ sh'[w] = h
        /\ \A v \in SWorker : sh'[v].order = o => v = w
        /\ p # o /\ draw'[p] = draw[p] => DrawAt(p)'
      BY <1>1, <1>2, <1>3, <2>3, <2>5, Drawn
  <2>7. draw'[o] = d /\ \A q \in SOrder : q # o => draw'[q] = draw[q]
      BY <1>2, <2>5, <2>6 DEF ScratchTypes
  <2>8. d.made /\ d.lot = sh[w].lot /\ d.reward = draw[o].reward /\ d.restored = draw[o].restored
      BY <1>2, <2>4, <2>6 DEF ScratchTypes, DrawRow
  <2>9. CASE p = o
    <3>1. PrizesOf(o) = {} /\ ~draw[o].restored
        BY <1>2, <1>5, <2>9 DEF DrawAt
    <3>2. draw[o].reward = 0
        BY <1>2, <2>9, <3>1 DEF DrawAt
    <3>3. PrizesOf(o)' = {}
        BY <1>2, <3>1 DEF PrizesOf
    <3>4. pc \in Draws /\ pc \in {"floor", "stock"} /\ (pc = "floor" => sh[w].lot = Nobody)
        BY <2>1 DEF Draws
    <3>5. HandlerAt(o, sh[w])'
        BY <2>3, <2>6, <2>7, <2>8, <3>1, <3>2, <3>3, <3>4 DEF HandlerAt
    <3> QED
        BY <2>3, <2>6, <2>7, <2>8, <2>9, <3>1, <3>2, <3>3, <3>4, <3>5 DEF DrawAt
  <2> QED
      BY <2>6, <2>7, <2>9
<1> QED
    BY <1>4, <1>5

LEMMA DrawInvStock ==
    ASSUME Solo, ScratchInv, OneHandler, DrawInv, NEW w \in SWorker, ClaimStock(w),
           NEW p \in SOrder, p \notin broken'
    PROVE  DrawAt(p)'
<1>1. PICK o : o = sh[w].order
    OBVIOUS
<1>2. /\ ScratchTypes /\ DrawAt(p) /\ rewards' = rewards /\ sh[w].pc = "stock" /\ sh[w] \in ScratchHandlers
    BY DEF ScratchInv, ScratchTypes, DrawInv, ClaimStock, At
<1>3. RowsStay(p)
    BY <1>2, RowsSame
<1>4. PICK pc : pc = IF used[sh[w].lot] < Stock[sh[w].lot] THEN "prize" ELSE "floor"
    OBVIOUS
<1>5. PICK h : h = [sh[w] EXCEPT !.pc = pc]
    OBVIOUS
<1>6. h.pc = pc /\ h.order = o
    BY <1>1, <1>2, <1>5 DEF ScratchHandlers
<1>7. Goes(w, h)
    BY <1>4, <1>5 DEF ClaimStock, To, Goes
<1>8. /\ o \in SOrder /\ o # Nobody /\ sh'[w] = h
      /\ \A v \in SWorker : sh'[v].order = o => v = w
      /\ p # o /\ draw'[p] = draw[p] => DrawAt(p)'
    BY <1>1, <1>2, <1>3, <1>6, <1>7, Drawn
<1>9. ASSUME p = o
      PROVE  draw[o].made /\ draw[o].reward = 0 /\ ~draw[o].restored /\ PrizesOf(o) = {} /\ PrizesOf(o)' = {}
  <2>1. HandlerAt(o, sh[w])
      BY <1>1, <1>2, <1>9 DEF DrawAt
  <2>2. draw[o].made /\ draw[o].reward = 0 /\ ~draw[o].restored /\ PrizesOf(o) = {}
      BY <1>2, <2>1 DEF HandlerAt, Draws
  <2> QED
      BY <1>2, <2>2 DEF PrizesOf
<1>10. CASE pc = "prize"
  <2>1. draw' = draw
      BY <1>4, <1>10 DEF ClaimStock
  <2>2. CASE p = o
    <3>1. HandlerAt(o, sh[w])'
        BY <1>6, <1>8, <1>9, <1>10, <2>1, <2>2 DEF HandlerAt
    <3> QED
        BY <1>2, <1>6, <1>8, <1>9, <1>10, <2>1, <2>2, <3>1 DEF DrawAt, Draws
  <2> QED
      BY <1>8, <2>1, <2>2
<1>11. CASE pc = "floor"
  <2>1. PICK d : d = [draw[o] EXCEPT !.lot = Nobody]
      OBVIOUS
  <2>2. draw' = [draw EXCEPT ![o] = d]
      BY <1>1, <1>4, <1>11, <2>1 DEF ClaimStock
  <2>3. draw'[o] = d /\ \A q \in SOrder : q # o => draw'[q] = draw[q]
      BY <1>2, <1>8, <2>2 DEF ScratchTypes
  <2>4. d.made = draw[o].made /\ d.lot = Nobody /\ d.reward = draw[o].reward /\ d.restored = draw[o].restored
      BY <1>2, <1>8, <2>1 DEF ScratchTypes, DrawRow
  <2>5. CASE p = o
    <3>1. HandlerAt(o, sh[w])'
        BY <1>6, <1>8, <1>9, <1>11, <2>3, <2>4, <2>5 DEF HandlerAt
    <3> QED
        BY <1>6, <1>8, <1>9, <1>11, <2>3, <2>4, <2>5, <3>1 DEF DrawAt, Draws
  <2> QED
      BY <1>8, <2>3, <2>5
<1> QED
    BY <1>4, <1>10, <1>11

(* The reward of a draw is its only one.                                   *)
LEMMA DrawInvPrize ==
    ASSUME Solo, ScratchInv, OneHandler, DrawInv, NEW w \in SWorker, sh[w].pc \in {"prize", "floor"},
           NEW o, o = sh[w].order, NEW r \in PrizeRow, rewards' = Append(rewards, r),
           r.from = o, r.lot \in {draw[o].lot, Nobody},
           Goes(w, [pc |-> "link", order |-> o, reward |-> Len(rewards) + 1]), UNCHANGED <<draw, broken>>,
           NEW p \in SOrder, p \notin broken'
    PROVE  DrawAt(p)'
<1>1. PICK h : h = [pc |-> "link", order |-> o, reward |-> Len(rewards) + 1]
    OBVIOUS
<1>2. h.pc = "link" /\ h.order = o /\ h.reward = Len(rewards) + 1 /\ Goes(w, h)
    BY <1>1
<1>3. ScratchTypes /\ DrawAt(p) /\ draw' = draw
    BY DEF ScratchInv, DrawInv
<1>4. /\ Len(rewards) \in Nat /\ DOMAIN rewards = 1 .. Len(rewards) /\ DOMAIN rewards' = 1 .. Len(rewards) + 1
      /\ \A i \in DOMAIN rewards : rewards'[i] = rewards[i]
      /\ rewards'[Len(rewards) + 1] = r
    BY <1>3, RowAppended DEF ScratchTypes
<1>5. p # o => RowsStay(p)
    BY <1>4 DEF RowsStay
<1>6. /\ o \in SOrder /\ o # Nobody /\ sh'[w] = h
      /\ \A v \in SWorker : sh'[v].order = o => v = w
      /\ p # o => DrawAt(p)'
    BY <1>2, <1>3, <1>5, Drawn
<1>7. CASE p = o
  <2>1. HandlerAt(o, sh[w])
      BY <1>3, <1>7 DEF DrawAt
  <2>2. draw[o].made /\ draw[o].reward = 0 /\ ~draw[o].restored /\ PrizesOf(o) = {}
      BY <2>1 DEF HandlerAt, Draws
  <2>3. PrizesOf(o)' = {Len(rewards) + 1}
      BY <1>4, <2>2 DEF PrizesOf
  <2>4. HandlerAt(o, sh[w])'
      BY <1>2, <1>3, <1>6, <2>2, <2>3 DEF HandlerAt
  <2> QED
      BY <1>2, <1>3, <1>4, <1>6, <1>7, <2>2, <2>3, <2>4 DEF DrawAt, Draws
<1> QED
    BY <1>6, <1>7

LEMMA DrawInvReward ==
    ASSUME Solo, ScratchInv, OneHandler, DrawInv, NEW w \in SWorker,
           \/ createRewardFromLot(w) \/ createPointsReward(w)
           \/ reconcileMissingReward(w) \/ Link(w),
           NEW p \in SOrder, p \notin broken'
    PROVE  DrawAt(p)'
<1>1. PICK o : o = sh[w].order
    OBVIOUS
<1>2. /\ ScratchTypes /\ DrawAt(p) /\ sh[w] \in ScratchHandlers /\ DOMAIN rewards = 1 .. Len(rewards)
      /\ Len(rewards) \in Nat /\ \A k \in DOMAIN rewards : rewards[k] \in PrizeRow
      /\ SIdle.order = Nobody /\ SIdle.pc = "idle"
  <2>1. ScratchTypes /\ SIdle.order = Nobody /\ SIdle.pc = "idle"
      BY DEF ScratchInv, SIdle
  <2>2. DrawAt(p)
      BY DEF DrawInv, createRewardFromLot, createPointsReward, reconcileMissingReward, Link
  <2> QED
      BY <2>1, <2>2 DEF ScratchTypes
<1>3. sh[w].pc # "idle" /\ o \in SOrder /\ o # Nobody
  <2>1. sh[w].pc # "idle"
      BY DEF createRewardFromLot, createPointsReward, reconcileMissingReward, Link, At
  <2> QED
      BY <1>1, <1>2, <2>1, HandlerIs DEF Solo, Orders
<1>4. \A v \in SWorker : sh[v].order = o => v = w
    BY <1>1, <1>3 DEF OneHandler
<1>5. draw[o] \in DrawRow /\ draw[o].lot \in Lot \union {Nobody}
    BY <1>2, <1>3 DEF ScratchTypes, DrawRow
<1>6. CASE createRewardFromLot(w)
  <2>1. PICK t, l : t = LotType[draw[o].lot] /\ l = draw[o].lot
      OBVIOUS
  <2>2. t \in PrizeTypes /\ l \in Lot \union {Nobody}
      BY <1>5, <2>1 DEF PrizeTypes
  <2>3. PICK r : r = Prize(o, t, l)
      OBVIOUS
  <2>4. r \in PrizeRow /\ r.from = o /\ r.lot = draw[o].lot
      BY <1>3, <2>1, <2>2, <2>3, PrizeTyped
  <2>5. /\ rewards' = Append(rewards, r) /\ UNCHANGED <<draw, broken>> /\ sh[w].pc = "prize"
        /\ Goes(w, [pc |-> "link", order |-> o, reward |-> Len(rewards) + 1])
      BY <1>1, <1>6, <2>1, <2>3 DEF createRewardFromLot, Goes, At
  <2> QED
      BY <1>1, <2>4, <2>5, DrawInvPrize
<1>7. CASE createPointsReward(w)
  <2>1. sh[w].pc = "floor" /\ UNCHANGED <<draw, broken>>
      BY <1>7 DEF createPointsReward, At
  <2>2. CASE \E i \in DOMAIN rewards :
               /\ rewards[i].order = o /\ rewards[i].type = "POINTS" /\ rewards' = rewards
               /\ sh' = [sh EXCEPT ![w] = [pc |-> "link", order |-> o, reward |-> i]]
    <3>1. PICK i \in DOMAIN rewards :
               /\ rewards[i].order = o /\ rewards[i].type = "POINTS" /\ rewards' = rewards
               /\ sh' = [sh EXCEPT ![w] = [pc |-> "link", order |-> o, reward |-> i]]
        BY <2>2
    <3>2. rewards[i].from = o
        BY <3>1 DEF ScratchInv, GiftInv
    <3>3. p # o
      <4>1. ASSUME p = o PROVE FALSE
        <5>1. HandlerAt(o, sh[w])
            BY <1>1, <1>2, <4>1 DEF DrawAt
        <5>2. PrizesOf(o) = {}
            BY <2>1, <5>1 DEF HandlerAt
        <5> QED
            BY <3>2, <5>2 DEF PrizesOf
      <4> QED
          BY <4>1
    <3>4. PICK h : h = [pc |-> "link", order |-> o, reward |-> i]
        OBVIOUS
    <3>5. Goes(w, h) /\ h.order = o
        BY <3>1, <3>4 DEF Goes
    <3>6. RowsStay(p) /\ draw'[p] = draw[p]
        BY <2>1, <3>1, RowsSame
    <3> QED
        BY <1>1, <1>2, <1>3, <3>3, <3>5, <3>6, Drawn
  <2>3. CASE /\ rewards' = Append(rewards, Prize(o, "POINTS", Nobody))
             /\ sh' = [sh EXCEPT ![w] = [pc |-> "link", order |-> o, reward |-> Len(rewards) + 1]]
    <3>1. PICK r : r = Prize(o, "POINTS", Nobody)
        OBVIOUS
    <3>2. "POINTS" \in PrizeTypes
        BY DEF PrizeTypes
    <3>3. r \in PrizeRow /\ r.from = o /\ r.lot = Nobody
        BY <1>3, <3>1, <3>2, PrizeTyped
    <3>4. /\ rewards' = Append(rewards, r)
          /\ Goes(w, [pc |-> "link", order |-> o, reward |-> Len(rewards) + 1])
        BY <2>3, <3>1 DEF Goes
    <3> QED
        BY <1>1, <2>1, <3>3, <3>4, DrawInvPrize
  <2> QED
      BY <1>1, <1>7, <2>2, <2>3 DEF createPointsReward
<1>8. CASE reconcileMissingReward(w)
  <2>1. p # o
    <3>1. ASSUME p = o PROVE FALSE
      <4>1. HandlerAt(o, sh[w])
          BY <1>1, <1>2, <3>1 DEF DrawAt
      <4> QED
          BY <1>8, <4>1 DEF HandlerAt, reconcileMissingReward, At
    <3> QED
        BY <3>1
  <2>2. draw'[p] = draw[p] /\ Goes(w, SIdle)
      BY <1>1, <1>2, <1>8, <2>1 DEF reconcileMissingReward, Done, Goes, ScratchTypes
  <2>3. RowsStay(p)
    <3>1. CASE rewards' = rewards
        BY <3>1, RowsSame
    <3>2. CASE rewards' # rewards
      <4>1. PICK t, l : t = LotType[draw[o].lot] /\ l = draw[o].lot
          OBVIOUS
      <4>2. t \in PrizeTypes /\ l \in Lot \union {Nobody}
          BY <1>5, <4>1 DEF PrizeTypes
      <4>3. PICK r : r = Prize(o, t, l)
          OBVIOUS
      <4>4. r \in PrizeRow /\ r.from = o
          BY <1>3, <4>2, <4>3, PrizeTyped
      <4>5. rewards' = Append(rewards, r)
          BY <1>1, <1>8, <3>2, <4>1, <4>3 DEF reconcileMissingReward
      <4>6. /\ DOMAIN rewards' = 1 .. Len(rewards) + 1
            /\ \A i \in DOMAIN rewards : rewards'[i] = rewards[i]
            /\ rewards'[Len(rewards) + 1] = r
          BY <1>2, <4>4, <4>5, RowAppended DEF ScratchTypes
      <4> QED
          BY <1>2, <2>1, <4>4, <4>6 DEF RowsStay
    <3> QED
        BY <3>1, <3>2
  <2> QED
      BY <1>1, <1>2, <1>3, <2>1, <2>2, <2>3, Drawn
<1>9. CASE Link(w)
  <2>1. sh[w].pc = "link" /\ Goes(w, SIdle) /\ rewards' = rewards
      BY <1>9 DEF Link, At, Done, Goes
  <2>2. PICK d : d = [draw[o] EXCEPT !.reward = sh[w].reward]
      OBVIOUS
  <2>3. /\ d.made = draw[o].made /\ d.lot = draw[o].lot /\ d.restored = draw[o].restored
        /\ d.reward = sh[w].reward
      BY <1>5, <2>2 DEF DrawRow
  <2>4. draw' = [draw EXCEPT ![o] = d]
      BY <1>1, <1>9, <2>2 DEF Link
  <2>5. draw'[o] = d /\ \A q \in SOrder : q # o => draw'[q] = draw[q]
      BY <1>2, <1>3, <2>4 DEF ScratchTypes
  <2>6. RowsStay(p)
      BY <2>1, RowsSame
  <2>7. CASE p # o
      BY <1>1, <1>2, <1>3, <2>1, <2>5, <2>6, <2>7, Drawn
  <2>8. CASE p = o
    <3>1. HandlerAt(o, sh[w])
        BY <1>1, <1>2, <2>8 DEF DrawAt
    <3>2. draw[o].made /\ ~draw[o].restored /\ PrizesOf(o) = {sh[w].reward}
        BY <2>1, <3>1 DEF HandlerAt, Draws
    <3>3. \A v \in SWorker : sh'[v].order # o
        BY <1>2, <1>3, <1>4, <2>1, HandlersTyped
    <3>4. sh[w].reward # 0
        BY <1>2, <2>1, HandlerIs
    <3>5. PrizesOf(o)' = {sh[w].reward} /\ \A i \in PrizesOf(o) : rewards'[i].lot = rewards[i].lot
        BY <2>1, <3>2 DEF PrizesOf
    <3> QED
        BY <1>2, <2>1, <2>3, <2>5, <2>8, <3>2, <3>3, <3>4, <3>5 DEF DrawAt
  <2> QED
      BY <2>7, <2>8
<1> QED
    BY <1>6, <1>7, <1>8, <1>9

SoloInv == ScratchInv /\ OneHandler /\ DrawInv

LEMMA SoloStep ==
    ASSUME Solo, SoloInv, ScratchInv', SNext
    PROVE  SoloInv'
<1>1. ScratchInv /\ OneHandler /\ DrawInv /\ ScratchTypes
    BY DEF SoloInv, ScratchInv
<1>2. OneHandler'
    BY <1>1, AloneStep
<1>3. ASSUME NEW p \in SOrder, p \notin broken' PROVE DrawAt(p)'
  <2>1. ASSUME NEW w \in SWorker, DrawStep(w) PROVE DrawAt(p)'
      BY <1>1, <1>3, <2>1, DrawInvClaim, DrawInvStock, DrawInvReward DEF DrawStep
  <2>2. ASSUME NEW w \in SWorker, CancelStep(w) \/ IssueVoucher(w) \/ ConsumeGift(w) \/ Break(w) PROVE DrawAt(p)'
      BY <1>1, <1>3, <2>2, DrawInvBack, DrawInvLight DEF CancelStep, Customers, Office
  <2>3. ASSUME NEW w \in SWorker, NEW o \in SOrder, drawForOrder(w, o) \/ CancelOrder(w, o) PROVE DrawAt(p)'
      BY <1>1, <1>3, <2>3, DrawInvStart, DrawInvLight DEF Office
  <2>4. ASSUME NEW w \in SWorker, NEW i \in DOMAIN rewards,
               scratchReward(w, i) \/ \E o \in SOrder : validateGiftLines(w, o, i)
        PROVE  DrawAt(p)'
      BY <1>1, <1>3, <2>4, DrawInvLight DEF Customers
  <2>5. ASSUME NEW o \in SOrder, PlaceOrder(o) \/ restoreConsumedGiftsForOrder(o) PROVE DrawAt(p)'
      BY <1>1, <1>3, <2>5, DrawInvAlone DEF Alone
  <2> QED
      BY <2>1, <2>2, <2>3, <2>4, <2>5 DEF SNext
<1> QED
    BY <1>2, <1>3 DEF SoloInv, DrawInv

LEMMA SoloStart ==
    ASSUME Solo, SInit PROVE SoloInv
<1>1. OneHandler
    BY DEF SInit, OneHandler, SIdle
<1>2. ASSUME NEW o \in SOrder PROVE DrawAt(o)
  <2>1. draw[o] = NoDraw /\ rewards = <<>> /\ \A w \in SWorker : sh[w] = SIdle
      BY DEF SInit
  <2>2. PrizesOf(o) = {}
      BY <2>1 DEF PrizesOf
  <2>3. \A w \in SWorker : sh[w].order # o
      BY <2>1 DEF SIdle, Solo, Orders
  <2> QED
      BY <2>1, <2>2, <2>3 DEF DrawAt, NoDraw
<1> QED
    BY <1>1, <1>2, ScratchStart DEF SoloInv, DrawInv

(* Within DrawAt, an order has one reward.                                 *)
LEMMA OnePrize ==
    ASSUME Solo, SoloInv, NEW o \in SOrder, o \notin broken
    PROVE  \E i : PrizesOf(o) \subseteq {i}
<1>1. DrawAt(o)
    BY DEF SoloInv, DrawInv
<1>2. CASE ~draw[o].made
    BY <1>1, <1>2 DEF DrawAt
<1>3. CASE draw[o].reward # 0
    BY <1>1, <1>3 DEF DrawAt
<1>4. CASE draw[o].made /\ draw[o].reward = 0
  <2>1. PICK w \in SWorker : sh[w].order = o /\ sh[w].pc \in Draws
      BY <1>1, <1>4 DEF DrawAt
  <2>2. HandlerAt(o, sh[w])
      BY <1>1, <2>1 DEF DrawAt
  <2>3. PrizesOf(o) = {} \/ PrizesOf(o) = {sh[w].reward}
      BY <2>1, <2>2 DEF HandlerAt, Draws
  <2> QED
      BY <2>3
<1> QED
    BY <1>2, <1>3, <1>4

-----------------------------------------------------------------------------
(* The stock, when no handler is cut. *)

Stocked == Solo /\ Stock \in [Lot -> Nat] /\ IsFiniteSet(SOrder)

(* The orders for which a unit of the stock of a lot is taken.             *)
Holds(o, l) ==
    /\ draw[o].lot = l
    /\ \A w \in SWorker : sh[w].order = o => sh[w].pc # "stock"
    /\ draw[o].restored => \E w \in SWorker : sh[w].order = o /\ sh[w].pc = "decrement"
Holders(l) == {o \in SOrder : Holds(o, l)}
StockInv == \A l \in Lot : used[l] = Cardinality(Holders(l)) /\ used[l] <= Stock[l]

Counts == {"stock", "decrement"}
SameLots == \A o \in SOrder : draw'[o].lot = draw[o].lot /\ draw'[o].restored = draw[o].restored
Steady(w) == \E h : Goes(w, h) /\ h.pc \notin Counts

LEMMA HoldersKept ==
    ASSUME ScratchTypes, SameLots, used' = used, StockInv,
           sh' = sh \/ \E w \in SWorker : Steady(w) /\ sh[w].pc \notin Counts
    PROVE  StockInv'
<1>1. ASSUME NEW o \in SOrder, NEW l PROVE Holds(o, l)' <=> Holds(o, l)
  <2>1. CASE sh' = sh
      BY <2>1 DEF Holds, SameLots
  <2>2. CASE \E w \in SWorker : Steady(w) /\ sh[w].pc \notin Counts
    <3>0. PICK w \in SWorker : Steady(w) /\ sh[w].pc \notin Counts
        BY <2>2
    <3>1. PICK h : Goes(w, h) /\ h.pc \notin Counts /\ sh[w].pc \notin Counts
        BY <3>0 DEF Steady
    <3>2. sh'[w] = h /\ \A v \in SWorker : v # w => sh'[v] = sh[v]
        BY <3>1, HandlersTyped
    <3> QED
        BY <3>1, <3>2 DEF Holds, SameLots, Counts
  <2> QED
      BY <2>1, <2>2
<1>2. ASSUME NEW l \in Lot PROVE Holders(l)' = Holders(l)
    BY <1>1 DEF Holders
<1> QED
    BY <1>2 DEF StockInv

(* The steps that neither take nor give back a unit.                       *)
LEMMA SteadySteps ==
    ASSUME ScratchTypes, NEW w \in SWorker,
           \/ (\E o \in SOrder : drawForOrder(w, o) \/ CancelOrder(w, o))
           \/ createRewardFromLot(w) \/ createPointsReward(w) \/ Link(w) \/ reconcileMissingReward(w)
           \/ revokeForOrder(w) \/ RestoreRead(w) \/ Customers(w)
    PROVE  /\ SameLots /\ used' = used
           /\ sh' = sh \/ (Steady(w) /\ sh[w].pc \notin Counts)
<1>1. sh[w] \in ScratchHandlers /\ SIdle.pc = "idle"
    BY DEF ScratchTypes, SIdle
<1>2. used' = used
    BY DEF drawForOrder, CancelOrder, createRewardFromLot, createPointsReward, Link, reconcileMissingReward,
           revokeForOrder, RestoreRead, Customers, scratchReward, validateGiftLines, IssueVoucher, ConsumeGift
<1>a. ASSUME draw' = draw PROVE SameLots
    BY <1>a DEF SameLots
<1>3. ASSUME NEW o \in SOrder, NEW n, draw' = [draw EXCEPT ![o].reward = n] PROVE SameLots
    BY <1>3 DEF SameLots, ScratchTypes, DrawRow
<1>4. ASSUME Done(w) PROVE Steady(w)
    BY <1>1, <1>4 DEF Steady, Done, Goes, Counts
<1>5. ASSUME NEW pc, To(w, pc), pc \notin Counts PROVE Steady(w)
  <2>1. PICK h : h = [sh[w] EXCEPT !.pc = pc]
      OBVIOUS
  <2>2. h.pc = pc
      BY <1>1, <2>1 DEF ScratchHandlers
  <2> QED
      BY <1>5, <2>1, <2>2 DEF Steady, To, Goes
<1>6. ASSUME NEW o, NEW r, Goes(w, [pc |-> "link", order |-> o, reward |-> r]) PROVE Steady(w)
  <2>1. [pc |-> "link", order |-> o, reward |-> r].pc \notin Counts
      BY DEF Counts
  <2> QED
      BY <1>6, <2>1 DEF Steady
<1>7. CASE \E o \in SOrder : drawForOrder(w, o) \/ CancelOrder(w, o)
  <2>1. PICK o \in SOrder : drawForOrder(w, o) \/ CancelOrder(w, o)
      BY <1>7
  <2>2. sh[w].pc \notin Counts /\ SameLots
      BY <1>1, <1>a, <2>1 DEF drawForOrder, CancelOrder, FreeFor, Counts
  <2>3. CASE drawForOrder(w, o) /\ draw[o].made
    <3>1. PICK h : h = [pc |-> IF draw[o].lot = Nobody THEN "floor" ELSE "reconcile", order |-> o]
        OBVIOUS
    <3>2. h.pc \notin Counts
        BY <3>1 DEF Counts
    <3>3. Goes(w, h)
        BY <2>3, <3>1 DEF drawForOrder, Goes
    <3> QED
        BY <1>2, <2>2, <3>2, <3>3 DEF Steady
  <2>4. CASE drawForOrder(w, o) /\ ~draw[o].made
    <3>1. PICK l : sh' = [sh EXCEPT ![w] = [pc |-> "claim", order |-> o, lot |-> l]]
        BY <2>4 DEF drawForOrder
    <3>2. [pc |-> "claim", order |-> o, lot |-> l].pc \notin Counts
        BY DEF Counts
    <3> QED
        BY <1>2, <2>2, <3>1, <3>2 DEF Steady, Goes
  <2>5. CASE CancelOrder(w, o)
    <3>1. [pc |-> "revoke", order |-> o].pc \notin Counts
        BY DEF Counts
    <3>2. Goes(w, [pc |-> "revoke", order |-> o])
        BY <2>5 DEF CancelOrder, Goes
    <3> QED
        BY <1>2, <2>2, <3>1, <3>2 DEF Steady
  <2> QED
      BY <2>1, <2>3, <2>4, <2>5
<1>8. CASE createRewardFromLot(w) \/ createPointsReward(w)
  <2>1. sh[w].pc \notin Counts /\ SameLots
      BY <1>8, <1>a DEF createRewardFromLot, createPointsReward, At, Counts
  <2>2. PICK o, r : Goes(w, [pc |-> "link", order |-> o, reward |-> r])
      BY <1>8 DEF createRewardFromLot, createPointsReward, Goes
  <2> QED
      BY <1>2, <1>6, <2>1, <2>2
<1>9. CASE Link(w) \/ reconcileMissingReward(w)
  <2>1. sh[w].pc \notin Counts /\ sh[w].pc # "idle" /\ Done(w)
      BY <1>9 DEF Link, reconcileMissingReward, At, Counts
  <2>2. sh[w].order \in SOrder
      BY <1>1, <2>1, HandlerIs
  <2>3. draw' = draw \/ \E n : draw' = [draw EXCEPT ![sh[w].order].reward = n]
      BY <1>9 DEF Link, reconcileMissingReward
  <2> QED
      BY <1>2, <1>a, <1>3, <1>4, <2>1, <2>2, <2>3
<1>10. CASE revokeForOrder(w) \/ RestoreRead(w)
  <2>1. sh[w].pc \notin Counts /\ SameLots
      BY <1>10, <1>a DEF revokeForOrder, RestoreRead, At, Counts
  <2>2. Done(w) \/ To(w, "restore") \/ To(w, "giveback")
      BY <1>10 DEF revokeForOrder, RestoreRead
  <2> QED
      BY <1>2, <1>4, <1>5, <2>1, <2>2 DEF Counts
<1>11. CASE Customers(w)
  <2>1. SameLots
      BY <1>11, <1>a DEF Customers, scratchReward, validateGiftLines, IssueVoucher, ConsumeGift
  <2>2. CASE IssueVoucher(w) \/ ConsumeGift(w)
    <3>1. sh[w].pc \notin Counts /\ Done(w)
        BY <2>2 DEF IssueVoucher, ConsumeGift, At, Counts
    <3> QED
        BY <1>2, <1>4, <2>1, <3>1
  <2>3. ASSUME NEW i \in DOMAIN rewards, scratchReward(w, i)
        PROVE  sh' = sh \/ (Steady(w) /\ sh[w].pc \notin Counts)
    <3>1. sh[w].pc \notin Counts
        BY <1>1, <2>3 DEF scratchReward, FreeFor, Counts
    <3>2. [pc |-> "issue", order |-> rewards[i].from, reward |-> i].pc \notin Counts
        BY DEF Counts
    <3>3. sh' = sh \/ Goes(w, [pc |-> "issue", order |-> rewards[i].from, reward |-> i])
        BY <2>3 DEF scratchReward, Goes
    <3> QED
        BY <3>1, <3>2, <3>3 DEF Steady
  <2>4. ASSUME NEW i \in DOMAIN rewards, NEW o \in SOrder, validateGiftLines(w, o, i)
        PROVE  Steady(w) /\ sh[w].pc \notin Counts
    <3>1. sh[w].pc \notin Counts
        BY <1>1, <2>4 DEF validateGiftLines, Counts
    <3>2. [pc |-> "cart", order |-> o, reward |-> i].pc \notin Counts
        BY DEF Counts
    <3>3. Goes(w, [pc |-> "cart", order |-> o, reward |-> i])
        BY <2>4 DEF validateGiftLines, Goes
    <3> QED
        BY <3>1, <3>2, <3>3 DEF Steady
  <2> QED
      BY <1>2, <1>11, <2>1, <2>2, <2>3, <2>4 DEF Customers
<1> QED
    BY <1>7, <1>8, <1>9, <1>10, <1>11

(* What a step of the handler w of o does to the holders.                  *)
LEMMA HoldersMove ==
    ASSUME Stocked, SoloInv, NEW w \in SWorker, NEW o \in SOrder, o = sh[w].order,
           NEW h, Goes(w, h), h.order \in {o, Nobody},
           \A p \in SOrder : p # o => draw'[p] = draw[p]
    PROVE  /\ \A p \in SOrder, l \in Lot : p # o => (Holds(p, l)' <=> Holds(p, l))
           /\ \A v \in SWorker : sh[v].order = o => v = w
           /\ \A v \in SWorker : sh'[v].order = o => v = w
           /\ sh'[w] = h
           /\ \A l \in Lot : IsFiniteSet(Holders(l)) /\ Cardinality(Holders(l)) \in Nat
<1>1. sh'[w] = h /\ \A v \in SWorker : v # w => sh'[v] = sh[v]
    BY HandlersTyped DEF SoloInv, ScratchInv
<1>2. \A v \in SWorker : sh[v].order = o => v = w
    BY DEF SoloInv, OneHandler, Stocked, Solo, Orders
<1>3. ASSUME NEW p \in SOrder, NEW l \in Lot, p # o PROVE Holds(p, l)' <=> Holds(p, l)
  <2>1. sh[w].order # p /\ h.order # p
      BY <1>3 DEF Stocked, Solo, Orders
  <2> QED
      BY <1>1, <1>3, <2>1 DEF Holds
<1>4. ASSUME NEW l \in Lot PROVE IsFiniteSet(Holders(l)) /\ Cardinality(Holders(l)) \in Nat
  <2>1. Holders(l) \subseteq SOrder
      BY DEF Holders
  <2> QED
      BY <2>1, FS_Subset, FS_CardinalityType DEF Stocked
<1> QED
    BY <1>1, <1>2, <1>3, <1>4

LEMMA HoldersSame ==
    ASSUME Stocked, SoloInv, StockInv, NEW o \in SOrder, used' = used,
           \A p \in SOrder, l \in Lot : p # o => (Holds(p, l)' <=> Holds(p, l)),
           \A l \in Lot : Holds(o, l)' <=> Holds(o, l)
    PROVE  StockInv'
<1>1. \A l \in Lot : Holders(l)' = Holders(l)
    BY DEF Holders
<1> QED
    BY <1>1 DEF StockInv

LEMMA StockClaim ==
    ASSUME Stocked, SoloInv, StockInv, broken = {}, NEW w \in SWorker, claimDraw(w)
    PROVE  StockInv'
<1>1. PICK o : o = sh[w].order
    OBVIOUS
<1>2. /\ ScratchTypes /\ sh[w] \in ScratchHandlers /\ sh[w].pc = "claim" /\ used' = used
      /\ SIdle.order = Nobody /\ SIdle.pc = "idle"
    BY DEF SoloInv, ScratchInv, ScratchTypes, claimDraw, At, SIdle
<1>3. o \in SOrder /\ DrawAt(o)
    BY <1>1, <1>2, HandlerIs DEF SoloInv, DrawInv
<1>4. ~draw[o].made
    BY <1>1, <1>2, <1>3 DEF DrawAt, HandlerAt
<1>5. draw[o].lot = Nobody /\ ~draw[o].restored
    BY <1>3, <1>4 DEF DrawAt
<1>6. PICK pc : pc = IF sh[w].lot = Nobody THEN "floor" ELSE "stock"
    OBVIOUS
<1>7. PICK h : h = [sh[w] EXCEPT !.pc = pc]
    OBVIOUS
<1>8. h.pc = pc /\ h.order = o
    BY <1>1, <1>2, <1>7 DEF ScratchHandlers
<1>9. PICK d : d = [draw[o] EXCEPT !.made = TRUE, !.lot = sh[w].lot]
    OBVIOUS
<1>10. Goes(w, h) /\ draw' = [draw EXCEPT ![o] = d]
    BY <1>1, <1>4, <1>6, <1>7, <1>9 DEF claimDraw, To, Goes
<1>11. draw'[o] = d /\ \A q \in SOrder : q # o => draw'[q] = draw[q]
    BY <1>2, <1>3, <1>10 DEF ScratchTypes
<1>12. d.lot = sh[w].lot
    BY <1>2, <1>3, <1>9 DEF ScratchTypes, DrawRow
<1>13. /\ \A p \in SOrder, l \in Lot : p # o => (Holds(p, l)' <=> Holds(p, l))
       /\ sh'[w] = h
    BY <1>1, <1>3, <1>8, <1>10, <1>11, HoldersMove
<1>14. ASSUME NEW l \in Lot PROVE ~Holds(o, l) /\ ~Holds(o, l)'
  <2>1. l # Nobody
      BY DEF Stocked, Solo, Orders
  <2>2. ~Holds(o, l)
      BY <1>5, <2>1 DEF Holds
  <2>3. CASE sh[w].lot = Nobody
      BY <1>11, <1>12, <2>1, <2>2, <2>3 DEF Holds
  <2>4. CASE sh[w].lot # Nobody
      BY <1>6, <1>8, <1>13, <2>2, <2>4 DEF Holds
  <2> QED
      BY <2>3, <2>4
<1> QED
    BY <1>2, <1>3, <1>13, <1>14, HoldersSame

(* A unit is taken, if there is one.                                       *)
LEMMA StockTaken ==
    ASSUME Stocked, SoloInv, StockInv, broken = {}, NEW w \in SWorker, ClaimStock(w)
    PROVE  StockInv'
<1>1. PICK o, m : o = sh[w].order /\ m = sh[w].lot
    OBVIOUS
<1>2. ScratchTypes /\ sh[w] \in ScratchHandlers /\ sh[w].pc = "stock"
    BY DEF SoloInv, ScratchInv, ScratchTypes, ClaimStock, At
<1>3. o \in SOrder /\ m \in Lot /\ DrawAt(o)
    BY <1>1, <1>2, HandlerIs DEF SoloInv, DrawInv
<1>4. HandlerAt(o, sh[w])
    BY <1>1, <1>3 DEF DrawAt
<1>5. ~draw[o].restored /\ draw[o].lot = m
    BY <1>1, <1>2, <1>4 DEF HandlerAt, Draws
<1>6. PICK pc : pc = IF used[m] < Stock[m] THEN "prize" ELSE "floor"
    OBVIOUS
<1>7. PICK h : h = [sh[w] EXCEPT !.pc = pc]
    OBVIOUS
<1>8. h.pc = pc /\ h.order = o
    BY <1>1, <1>2, <1>7 DEF ScratchHandlers
<1>9. Goes(w, h)
    BY <1>1, <1>6, <1>7 DEF ClaimStock, To, Goes
<1>10. \A l \in Lot : ~Holds(o, l)
    BY <1>1, <1>2 DEF Holds
<1>11. CASE used[m] < Stock[m]
  <2>1. draw' = draw /\ used' = [used EXCEPT ![m] = @ + 1] /\ pc = "prize"
      BY <1>1, <1>6, <1>11 DEF ClaimStock
  <2>2. /\ \A p \in SOrder, l \in Lot : p # o => (Holds(p, l)' <=> Holds(p, l))
        /\ \A v \in SWorker : sh'[v].order = o => v = w
        /\ sh'[w] = h
        /\ \A l \in Lot : IsFiniteSet(Holders(l)) /\ Cardinality(Holders(l)) \in Nat
      BY <1>1, <1>3, <1>8, <1>9, <2>1, HoldersMove
  <2>3. Holds(o, m)' /\ \A l \in Lot : l # m => ~Holds(o, l)'
      BY <1>5, <1>8, <2>1, <2>2 DEF Holds
  <2>4. Holders(m)' = Holders(m) \union {o} /\ o \notin Holders(m)
      BY <1>3, <1>10, <2>2, <2>3 DEF Holders
  <2>5. \A l \in Lot : l # m => Holders(l)' = Holders(l)
      BY <1>10, <2>2, <2>3 DEF Holders
  <2>6. Cardinality(Holders(m) \union {o}) = Cardinality(Holders(m)) + 1
      BY <1>3, <2>2, <2>4, FS_AddElement
  <2>7. used'[m] = used[m] + 1 /\ \A l \in Lot : l # m => used'[l] = used[l]
      BY <1>2, <1>3, <2>1 DEF ScratchTypes
  <2>8. used[m] \in Nat /\ Stock[m] \in Nat
      BY <1>2, <1>3 DEF ScratchTypes, Stocked
  <2>9. used'[m] = Cardinality(Holders(m))' /\ used'[m] <= Stock[m]
      BY <1>3, <1>11, <2>4, <2>6, <2>7, <2>8 DEF StockInv
  <2> QED
      BY <2>5, <2>7, <2>9 DEF StockInv
<1>12. CASE ~(used[m] < Stock[m])
  <2>1. PICK d : d = [draw[o] EXCEPT !.lot = Nobody]
      OBVIOUS
  <2>2. draw' = [draw EXCEPT ![o] = d] /\ used' = used
      BY <1>1, <1>12, <2>1 DEF ClaimStock
  <2>3. draw'[o] = d /\ \A q \in SOrder : q # o => draw'[q] = draw[q]
      BY <1>2, <1>3, <2>2 DEF ScratchTypes
  <2>4. d.lot = Nobody
      BY <1>2, <1>3, <2>1 DEF ScratchTypes, DrawRow
  <2>5. \A p \in SOrder, l \in Lot : p # o => (Holds(p, l)' <=> Holds(p, l))
      BY <1>1, <1>3, <1>8, <1>9, <2>3, HoldersMove
  <2>6. \A l \in Lot : ~Holds(o, l)'
      BY <2>3, <2>4 DEF Holds, Stocked, Solo, Orders
  <2> QED
      BY <1>3, <1>10, <2>2, <2>5, <2>6, HoldersSame
<1> QED
    BY <1>11, <1>12

(* The flag is set before the unit is given back.                          *)
LEMMA StockFlagged ==
    ASSUME Stocked, SoloInv, StockInv, broken = {}, NEW w \in SWorker, RestoreClaim(w)
    PROVE  StockInv'
<1>1. PICK o : o = sh[w].order
    OBVIOUS
<1>2. ScratchTypes /\ sh[w] \in ScratchHandlers /\ sh[w].pc = "giveback" /\ used' = used
    BY DEF SoloInv, ScratchInv, ScratchTypes, RestoreClaim, At
<1>3. o \in SOrder
    BY <1>1, <1>2, HandlerIs
<1>4. CASE draw[o].restored
  <2>1. Done(w) /\ draw' = draw
      BY <1>1, <1>4 DEF RestoreClaim
  <2>2. Steady(w) /\ sh[w].pc \notin Counts /\ SameLots
    <3>1. Goes(w, SIdle) /\ SIdle.pc \notin Counts
        BY <2>1 DEF Done, Goes, SIdle, Counts
    <3>2. sh[w].pc \notin Counts
        BY <1>2 DEF Counts
    <3>3. SameLots
        BY <2>1 DEF SameLots
    <3> QED
        BY <3>1, <3>2, <3>3 DEF Steady
  <2> QED
      BY <1>2, <2>2, HoldersKept
<1>5. CASE ~draw[o].restored
  <2>1. PICK h : h = [sh[w] EXCEPT !.pc = "decrement"]
      OBVIOUS
  <2>2. h.pc = "decrement" /\ h.order = o
      BY <1>1, <1>2, <2>1 DEF ScratchHandlers
  <2>3. PICK d : d = [draw[o] EXCEPT !.restored = TRUE]
      OBVIOUS
  <2>4. d.lot = draw[o].lot /\ d.restored
      BY <1>2, <1>3, <2>3 DEF ScratchTypes, DrawRow
  <2>5. Goes(w, h) /\ draw' = [draw EXCEPT ![o] = d]
      BY <1>1, <1>5, <2>1, <2>3 DEF RestoreClaim, To, Goes
  <2>6. draw'[o] = d /\ \A q \in SOrder : q # o => draw'[q] = draw[q]
      BY <1>2, <1>3, <2>5 DEF ScratchTypes
  <2>7. /\ \A p \in SOrder, l \in Lot : p # o => (Holds(p, l)' <=> Holds(p, l))
        /\ \A v \in SWorker : sh[v].order = o => v = w
        /\ \A v \in SWorker : sh'[v].order = o => v = w
        /\ sh'[w] = h
      BY <1>1, <1>3, <2>2, <2>5, <2>6, HoldersMove
  <2>8. ASSUME NEW l \in Lot PROVE Holds(o, l)' <=> Holds(o, l)
    <3>1. Holds(o, l) <=> draw[o].lot = l
        BY <1>1, <1>2, <1>5, <2>7 DEF Holds
    <3>2. Holds(o, l)' <=> draw[o].lot = l
        BY <2>2, <2>4, <2>6, <2>7 DEF Holds
    <3> QED
        BY <3>1, <3>2
  <2> QED
      BY <1>2, <1>3, <2>7, <2>8, HoldersSame
<1> QED
    BY <1>4, <1>5

LEMMA StockGivenBack ==
    ASSUME Stocked, SoloInv, StockInv, broken = {}, NEW w \in SWorker, restoreStockForCancelledOrder(w)
    PROVE  StockInv'
<1>1. PICK o, m : o = sh[w].order /\ m = draw[o].lot
    OBVIOUS
<1>2. /\ ScratchTypes /\ sh[w] \in ScratchHandlers /\ sh[w].pc = "decrement" /\ draw' = draw
      /\ SIdle.order = Nobody /\ Goes(w, SIdle)
    BY DEF SoloInv, ScratchInv, ScratchTypes, restoreStockForCancelledOrder, At, SIdle, Done, Goes
<1>3. o \in SOrder /\ DrawAt(o)
    BY <1>1, <1>2, HandlerIs DEF SoloInv, DrawInv
<1>4. HandlerAt(o, sh[w])
    BY <1>1, <1>3 DEF DrawAt
<1>5. draw[o].restored /\ m \in Lot
    BY <1>1, <1>2, <1>4 DEF HandlerAt
<1>6. /\ \A p \in SOrder, l \in Lot : p # o => (Holds(p, l)' <=> Holds(p, l))
      /\ \A v \in SWorker : sh[v].order = o => v = w
      /\ \A v \in SWorker : sh'[v].order = o => v = w
      /\ sh'[w] = SIdle
      /\ \A l \in Lot : IsFiniteSet(Holders(l)) /\ Cardinality(Holders(l)) \in Nat
    BY <1>1, <1>2, <1>3, HoldersMove
<1>7. Holds(o, m)
    BY <1>1, <1>2, <1>6 DEF Holds
<1>8. \A l \in Lot : ~Holds(o, l)'
  <2>1. ~\E v \in SWorker : sh'[v].order = o
      BY <1>2, <1>3, <1>6 DEF Stocked, Solo, Orders
  <2> QED
      BY <1>2, <1>5, <2>1 DEF Holds
<1>9. Holders(m)' = Holders(m) \ {o} /\ o \in Holders(m)
    BY <1>3, <1>5, <1>6, <1>7, <1>8 DEF Holders
<1>10. \A l \in Lot : l # m => Holders(l)' = Holders(l)
  <2>1. \A l \in Lot : l # m => ~Holds(o, l)
      BY <1>1 DEF Holds
  <2> QED
      BY <1>6, <1>8, <2>1 DEF Holders
<1>11. Cardinality(Holders(m) \ {o}) = Cardinality(Holders(m)) - 1
    BY <1>5, <1>6, <1>9, FS_RemoveElement
<1>12. used[m] = Cardinality(Holders(m)) /\ used[m] <= Stock[m] /\ used[m] \in Nat /\ Stock[m] \in Nat
    BY <1>2, <1>5 DEF StockInv, ScratchTypes, Stocked
<1>13. used[m] > 0
  <2>1. Holders(m) # {}
      BY <1>9
  <2>2. Cardinality(Holders(m)) # 0
      BY <1>5, <1>6, <2>1, FS_EmptySet
  <2> QED
      BY <1>12, <2>2
<1>14. used' = [used EXCEPT ![m] = @ - 1]
    BY <1>1, <1>13 DEF restoreStockForCancelledOrder
<1>15. used'[m] = used[m] - 1 /\ \A l \in Lot : l # m => used'[l] = used[l]
    BY <1>2, <1>5, <1>14 DEF ScratchTypes
<1>16. used'[m] = Cardinality(Holders(m))' /\ used'[m] <= Stock[m]
    BY <1>9, <1>11, <1>12, <1>15
<1> QED
    BY <1>10, <1>15, <1>16 DEF StockInv

LEMMA StockStep ==
    ASSUME Stocked, SoloInv, broken = {} => StockInv, SNext, broken' = {}
    PROVE  StockInv'
<1>1. ScratchTypes
    BY DEF SoloInv, ScratchInv
<1>2. broken = {}
  <2>1. \A w \in SWorker : ~Break(w)
      BY DEF Break
  <2>2. ASSUME NEW w \in SWorker, Customers(w) \/ Office(w) \/ DrawStep(w) \/ CancelStep(w)
        PROVE  broken' = broken
    <3>1. CASE Customers(w)
        BY <3>1 DEF Customers, scratchReward, validateGiftLines, IssueVoucher, ConsumeGift
    <3>2. CASE Office(w)
        BY <3>2 DEF Office, revokeForOrder, CancelOrder
    <3>3. CASE DrawStep(w)
        BY <3>3 DEF DrawStep, claimDraw, ClaimStock, createRewardFromLot, createPointsReward, Link,
                    reconcileMissingReward
    <3>4. CASE CancelStep(w)
        BY <3>4 DEF CancelStep, revokeForOrder, RestoreRead, RestoreClaim, restoreStockForCancelledOrder
    <3> QED
        BY <2>2, <3>1, <3>2, <3>3, <3>4
  <2>3. ASSUME NEW w \in SWorker, NEW o \in SOrder, drawForOrder(w, o) PROVE broken' = broken
      BY <2>3 DEF drawForOrder
  <2>4. ASSUME NEW o \in SOrder, PlaceOrder(o) \/ restoreConsumedGiftsForOrder(o) PROVE broken' = broken
      BY <2>4 DEF PlaceOrder, restoreConsumedGiftsForOrder
  <2> QED
      BY <2>1, <2>2, <2>3, <2>4 DEF SNext, Customers, Office
<1>3. StockInv
    BY <1>2
<1>4. ASSUME NEW w \in SWorker,
             \/ (\E o \in SOrder : drawForOrder(w, o) \/ CancelOrder(w, o))
             \/ createRewardFromLot(w) \/ createPointsReward(w) \/ Link(w) \/ reconcileMissingReward(w)
             \/ revokeForOrder(w) \/ RestoreRead(w) \/ Customers(w)
      PROVE  StockInv'
  <2>1. SameLots /\ used' = used /\ (sh' = sh \/ (Steady(w) /\ sh[w].pc \notin Counts))
      BY <1>1, <1>4, SteadySteps
  <2> QED
      BY <1>1, <1>3, <2>1, HoldersKept
<1>5. ASSUME NEW w \in SWorker, DrawStep(w) PROVE StockInv'
    BY <1>2, <1>3, <1>4, <1>5, StockClaim, StockTaken DEF DrawStep
<1>6. ASSUME NEW w \in SWorker, CancelStep(w) PROVE StockInv'
    BY <1>2, <1>3, <1>4, <1>6, StockFlagged, StockGivenBack DEF CancelStep
<1>7. ASSUME NEW w \in SWorker, Break(w) PROVE FALSE
    BY <1>7 DEF Break
<1>8. ASSUME NEW o \in SOrder, PlaceOrder(o) \/ restoreConsumedGiftsForOrder(o) PROVE StockInv'
  <2>1. SameLots /\ used' = used /\ sh' = sh
      BY <1>8 DEF PlaceOrder, restoreConsumedGiftsForOrder, SameLots
  <2> QED
      BY <1>1, <1>3, <2>1, HoldersKept
<1> QED
    BY <1>4, <1>5, <1>6, <1>7, <1>8 DEF SNext, Customers

LEMMA StockStart ==
    ASSUME Stocked, SInit PROVE StockInv
<1>1. ASSUME NEW l \in Lot PROVE Holders(l) = {} /\ used[l] = 0 /\ Stock[l] \in Nat
  <2>1. \A o \in SOrder : draw[o].lot = Nobody
      BY DEF SInit, NoDraw
  <2>2. l # Nobody
      BY DEF Stocked, Solo, Orders
  <2> QED
      BY <2>1, <2>2 DEF Holders, Holds, SInit, Stocked
<1> QED
    BY <1>1, FS_EmptySet DEF StockInv

-----------------------------------------------------------------------------
(* What follows for the customers and the stock. *)

LEMMA SoloAlways ==
    ASSUME Solo PROVE SSpec => []SoloInv
<1>1. SInit => SoloInv
    BY SoloStart
<1>2. SoloInv /\ ScratchInv' /\ [SNext]_svars => SoloInv'
  <2>1. ASSUME SoloInv, ScratchInv', SNext PROVE SoloInv'
      BY <2>1, SoloStep
  <2>2. ASSUME SoloInv, ScratchInv', UNCHANGED svars PROVE SoloInv'
    <3>1. OneHandler'
        BY <2>2 DEF SoloInv, OneHandler, svars
    <3>2. ASSUME NEW p \in SOrder, p \notin broken' PROVE DrawAt(p)'
      <4>1. DrawAt(p) /\ draw' = draw /\ rewards' = rewards /\ sh' = sh
          BY <2>2, <3>2 DEF SoloInv, DrawInv, svars
      <4> QED
          BY <4>1, RowsSame, DrawStill
    <3> QED
        BY <2>2, <3>1, <3>2 DEF SoloInv, DrawInv
  <2> QED
      BY <2>1, <2>2
<1>3. SSpec => []ScratchInv
    BY ScratchAlways DEF Solo
<1> QED
    BY <1>1, <1>2, <1>3, PTL DEF SSpec

LEMMA StockAlways ==
    ASSUME Stocked PROVE SSpec => [](broken = {} => StockInv)
<1> DEFINE J == broken = {} => StockInv
<1>1. SInit => J
    BY StockStart
<1>2. SoloInv /\ J /\ [SNext]_svars => J'
  <2>1. ASSUME SoloInv, J, SNext PROVE J'
      BY <2>1, StockStep
  <2>2. ASSUME SoloInv, J, UNCHANGED svars PROVE J'
    <3>1. broken' = broken /\ draw' = draw /\ sh' = sh /\ used' = used
        BY <2>2 DEF svars
    <3>2. \A l \in Lot : Holders(l)' = Holders(l)
        BY <3>1 DEF Holders, Holds
    <3> QED
        BY <2>2, <3>1, <3>2 DEF StockInv
  <2> QED
      BY <2>1, <2>2
<1>3. SSpec => []SoloInv
    BY SoloAlways DEF Stocked
<1>4. SSpec => []J
  <2> HIDE DEF J
  <2> QED
      BY <1>1, <1>2, <1>3, PTL DEF SSpec
<1> QED
    BY <1>4

(* A payment whose effects are run again gives no second reward, but for   *)
(* the orders one of whose handlers was cut.                               *)
THEOREM OneRewardEach ==
    ASSUME Solo PROVE SSpec => []OneRewardPerOrder
<1>1. SoloInv => OneRewardPerOrder
  <2>1. ASSUME SoloInv, NEW i \in DOMAIN rewards, NEW j \in DOMAIN rewards,
               rewards[i].from = rewards[j].from, rewards[i].from \notin broken
        PROVE  i = j
    <3>1. rewards \in Seq(PrizeRow)
        BY <2>1 DEF SoloInv, ScratchInv, ScratchTypes
    <3>a. rewards[i] \in PrizeRow
        BY <3>1
    <3>2. PICK o \in SOrder : o = rewards[i].from
        BY <3>a DEF PrizeRow
    <3>3. PICK k : PrizesOf(o) \subseteq {k}
        BY <2>1, <3>2, OnePrize
    <3> QED
        BY <2>1, <3>2, <3>3 DEF PrizesOf
  <2> QED
      BY <2>1 DEF OneRewardPerOrder
<1> QED
    BY <1>1, SoloAlways, PTL

(* stock_used is the number of the draws that hold the lot, however the    *)
(* draws of several orders and the cancellations interleave.               *)
THEOREM StockUsedIsHeld ==
    ASSUME Stocked PROVE SSpec => []StockIsHeld
<1>1. SoloInv /\ (broken = {} => StockInv) => StockIsHeld
  <2>1. ASSUME StockInv, \A w \in SWorker : sh[w] = SIdle, NEW l \in Lot
        PROVE  used[l] = Cardinality({o \in SOrder : draw[o].lot = l /\ ~draw[o].restored})
    <3>1. ASSUME NEW o \in SOrder PROVE Holds(o, l) <=> draw[o].lot = l /\ ~draw[o].restored
        BY <2>1 DEF Holds, SIdle
    <3>2. Holders(l) = {o \in SOrder : draw[o].lot = l /\ ~draw[o].restored}
        BY <3>1 DEF Holders
    <3> QED
        BY <2>1, <3>2 DEF StockInv
  <2> QED
      BY <2>1 DEF StockIsHeld
<1>2. SSpec => []SoloInv
    BY SoloAlways DEF Stocked
<1> QED
    BY <1>1, <1>2, StockAlways, PTL

(* A lot is never in more hands than its stock has units: two draws of the *)
(* last unit may both read it free, the second falls back to the floor.    *)
THEOREM LotNeverOversold ==
    ASSUME Stocked PROVE SSpec => []NeverOversold
<1>1. SoloInv /\ (broken = {} => StockInv) => NeverOversold
  <2>1. ASSUME SoloInv, StockInv, broken = {}, NEW l \in Lot
        PROVE  Cardinality({i \in DOMAIN rewards : rewards[i].lot = l /\ rewards[i].status # "REVOKED"})
                   <= Stock[l]
    <3> DEFINE R == {i \in DOMAIN rewards : rewards[i].lot = l /\ rewards[i].status # "REVOKED"}
               f == [i \in R |-> rewards[i].from]
    <3>1. ASSUME NEW i \in DOMAIN rewards PROVE rewards[i].from \in SOrder
      <4>1. rewards[i] \in PrizeRow
          BY <2>1 DEF SoloInv, ScratchInv, ScratchTypes
      <4> QED
          BY <4>1 DEF PrizeRow
    <3>2. ASSUME NEW i \in R PROVE rewards[i].from \in Holders(l)
      <4>1. PICK o \in SOrder : o = rewards[i].from
          BY <3>1
      <4>2. DrawAt(o) /\ i \in PrizesOf(o) /\ rewards[i].lot = l /\ rewards[i].status # "REVOKED"
          BY <2>1, <4>1 DEF SoloInv, DrawInv, PrizesOf
      <4>3. draw[o].lot = l
          BY <2>1, <4>2 DEF DrawAt, Stocked, Solo, Orders
      <4>4. ~draw[o].restored
          BY <4>1, <4>2 DEF DrawAt, AllRevoked
      <4>5. \A w \in SWorker : sh[w].order = o => sh[w].pc # "stock"
          BY <4>2 DEF DrawAt, HandlerAt
      <4> QED
          BY <4>1, <4>3, <4>4, <4>5 DEF Holders, Holds
    <3>3. ASSUME NEW i \in R, NEW j \in R, rewards[i].from = rewards[j].from PROVE i = j
      <4>1. PICK o \in SOrder : o = rewards[i].from
          BY <3>1
      <4>2. PICK k : PrizesOf(o) \subseteq {k}
          BY <2>1, <4>1, OnePrize DEF Stocked
      <4> QED
          BY <3>3, <4>1, <4>2 DEF PrizesOf
    <3>4. f \in Injection(R, Holders(l))
        BY <3>2, <3>3 DEF Injection, IsInjective
    <3>5. IsFiniteSet(Holders(l))
      <4>1. Holders(l) \in SUBSET SOrder
          BY DEF Holders
      <4> QED
          BY <4>1, FS_Subset DEF Stocked
    <3>6. /\ Cardinality(R) <= Cardinality(Holders(l)) /\ Cardinality(R) \in Nat
          /\ Cardinality(Holders(l)) \in Nat
        BY <3>4, <3>5, FS_Injection, FS_CardinalityType
    <3>7. Cardinality(Holders(l)) <= Stock[l] /\ Stock[l] \in Nat
        BY <2>1 DEF StockInv, Stocked
    <3> QED
        BY <3>6, <3>7
  <2> QED
      BY <2>1 DEF NeverOversold
<1>2. SSpec => []SoloInv
    BY SoloAlways DEF Stocked
<1> QED
    BY <1>1, <1>2, StockAlways, PTL

=============================================================================
