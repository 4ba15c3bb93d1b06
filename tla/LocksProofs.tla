----------------------------- MODULE LocksProofs -----------------------------
(* At which waits transactions can deadlock, for any number of connections and   *)
(* any number of transactions.                                                   *)
EXTENDS Locks, TLAPS

-----------------------------------------------------------------------------
(* The order of the locks.  Every transaction asks for its rows in the order of *)
(* their ranks, with the exceptions that Against lists.                         *)

Acceptances == {"AcceptPayment", "AcceptSecondPayment", "ManualAcceptPayment"}
AllKinds == Kinds \cup {"AcceptPayment"}
ProgramsOf(k) == IF k = "AcceptPayment" THEN AcceptPayment ELSE Programs[k]

Rows == {"event", "second_event", "job", "line", "topup", "second_order", "second_line",
         "order", "payment", "user", "wallet", "product", "second_product", "item", "name",
         "second_name", "category", "bank", "second_bank", "number", "mapping", "identity",
         "key", "second_number", "active_bank"}
Rank == [row \in Rows |->
    CASE row \in {"event", "second_event", "job", "line"} -> 1
      [] row \in {"topup", "second_order", "second_line"} -> 2
      [] row = "order" -> 3
      [] row = "payment" -> 4
      [] row = "user" -> 5
      [] row \in {"wallet", "product", "second_product"} -> 6
      [] row \in {"item", "name"} -> 7
      [] row = "second_name" -> 8
      [] row = "category" -> 9
      [] row \in {"bank", "second_bank"} -> 10
      [] row \in {"number", "mapping", "identity", "key"} -> 11
      [] row \in {"second_number", "active_bank"} -> 12]

LockRequest == [row : Rows, mode : 1..4, skip : BOOLEAN]

\* The requests a kind makes against the order of the ranks.
Against(k, row) ==
    \/ k = "PayOrderWithWallet" /\ row = "order"
    \/ k = "CreateOrder" /\ row = "order"
    \/ k = "ManualAcceptPayment" /\ row = "second_order"
    \/ k = "SetPaymentProviderAccountStatus" /\ row = "bank"
    \/ k = "UpdateBankAccount" /\ row = "number"
    \/ k = "UpdateProduct" /\ row = "name"
    \/ k = "ImportInventory" /\ row = "line"

\* Nobody who has a lock already asks for more than to share the customer, the product,
\* the category or the bank account; only the switching of a mapping locks the last.
Asks(k, y) ==
    /\ y.row = "user" => k \in Acceptances
    /\ y.row \in {"user", "product", "category"} => y.mode <= 2
    /\ y.row = "bank" => y.mode <= 2 \/ k = "SetPaymentProviderAccountStatus"

\* So their shared locks are in nobody's way.
Harmless(x) == x.row \in {"user", "product", "category"} /\ x.mode <= 2

\* What is known of a transaction of kind k that was granted x and asks for y.
Keeps(k, x, y) ==
    /\ Rank[x.row] < Rank[y.row] \/ Harmless(x) \/ Against(k, y.row)
    /\ k = "PayOrderWithWallet" /\ y.row = "order" => x.row = "user"
    /\ k = "CreateOrder" => Harmless(x) \/ (x.row = "bank" /\ x.mode = 2)
    /\ k = "UpdateBankAccount" => y.row \in {"number", "second_number"}
    /\ x.row = "second_order" => k = "ManualAcceptPayment"
    /\ x.row = "line" => k = "ImportInventory"
    /\ x.row = "name" => k = "UpdateProduct" \/ y.row = "category"
    /\ x.row = "category" => x.mode <= 2
    /\ x.row = "bank" => k \in {"CreateOrder", "CreatePaymentProviderAccount",
                                "UpdateBankAccount"}
    /\ x.row \in {"number", "second_number"} => k = "UpdateBankAccount"
    /\ x.row = "second_number" => y.row = "number"

Fits(k, x, y) == y.skip = FALSE => Asks(k, y) /\ Keeps(k, x, y)

Good(k, p) ==
    /\ p \in Seq(LockRequest) /\ Len(p) >= 1
    /\ \A i, j \in 1..Len(p) : j < i => Fits(k, p[j], p[i])

\* The ranks, row by row.
LEMMA Ranks ==
  /\ Rank["event"] = 1 /\ Rank["second_event"] = 1 /\ Rank["job"] = 1 /\ Rank["line"] = 1
  /\ Rank["topup"] = 2 /\ Rank["second_order"] = 2 /\ Rank["second_line"] = 2
  /\ Rank["order"] = 3
  /\ Rank["payment"] = 4
  /\ Rank["user"] = 5
  /\ Rank["wallet"] = 6 /\ Rank["product"] = 6 /\ Rank["second_product"] = 6
  /\ Rank["item"] = 7 /\ Rank["name"] = 7
  /\ Rank["second_name"] = 8
  /\ Rank["category"] = 9
  /\ Rank["bank"] = 10 /\ Rank["second_bank"] = 10
  /\ Rank["number"] = 11 /\ Rank["mapping"] = 11 /\ Rank["identity"] = 11 /\ Rank["key"] = 11
  /\ Rank["second_number"] = 12 /\ Rank["active_bank"] = 12
  BY DEF Rank, Rows

\* Every row has a rank.
LEMMA RankTyped == ASSUME NEW r \in Rows PROVE Rank[r] \in 1..12
  BY DEF Rank, Rows

-----------------------------------------------------------------------------
(* A program is good when its requests fit pairwise. *)

\* A program of one request.
LEMMA Good1 ==
  ASSUME NEW k, NEW a \in LockRequest
  PROVE  Good(k, <<a>>)
<1> DEFINE p == <<a>>
<1>1. Len(p) = 1 /\ p \in Seq(LockRequest)
  OBVIOUS
<1>2. p[1] = a
  OBVIOUS
<1> HIDE DEF p
<1>3. ASSUME NEW i \in 1..Len(p), NEW j \in 1..Len(p), j < i PROVE Fits(k, p[j], p[i])
  BY <1>1, <1>3
<1>4. Good(k, p)
  BY <1>1, <1>3 DEF Good
<1> QED BY <1>4 DEF p

\* A program of two requests.
LEMMA Good2 ==
  ASSUME NEW k, NEW a \in LockRequest, NEW b \in LockRequest,
         Fits(k, a, b)
  PROVE  Good(k, <<a, b>>)
<1> DEFINE p == <<a, b>>
<1>1. Len(p) = 2 /\ p \in Seq(LockRequest)
  OBVIOUS
<1>2. p[1] = a /\ p[2] = b
  OBVIOUS
<1> HIDE DEF p
<1>3. ASSUME NEW i \in 1..Len(p), NEW j \in 1..Len(p), j < i PROVE Fits(k, p[j], p[i])
  <2>1. i \in {1, 2} /\ j \in {1, 2}
    BY <1>1
  <2> QED BY <1>2, <1>3, <2>1
<1>4. Good(k, p)
  BY <1>1, <1>3 DEF Good
<1> QED BY <1>4 DEF p

\* A program of three requests.
LEMMA Good3 ==
  ASSUME NEW k, NEW a \in LockRequest, NEW b \in LockRequest, NEW c \in LockRequest,
         Fits(k, a, b),
         Fits(k, a, c), Fits(k, b, c)
  PROVE  Good(k, <<a, b, c>>)
<1> DEFINE p == <<a, b, c>>
<1>1. Len(p) = 3 /\ p \in Seq(LockRequest)
  OBVIOUS
<1>2. p[1] = a /\ p[2] = b /\ p[3] = c
  OBVIOUS
<1> HIDE DEF p
<1>3. ASSUME NEW i \in 1..Len(p), NEW j \in 1..Len(p), j < i PROVE Fits(k, p[j], p[i])
  <2>1. i \in {1, 2, 3} /\ j \in {1, 2, 3}
    BY <1>1
  <2> QED BY <1>2, <1>3, <2>1
<1>4. Good(k, p)
  BY <1>1, <1>3 DEF Good
<1> QED BY <1>4 DEF p

\* A program of four requests.
LEMMA Good4 ==
  ASSUME NEW k, NEW a \in LockRequest, NEW b \in LockRequest, NEW c \in LockRequest,
         NEW d \in LockRequest,
         Fits(k, a, b),
         Fits(k, a, c), Fits(k, b, c),
         Fits(k, a, d), Fits(k, b, d), Fits(k, c, d)
  PROVE  Good(k, <<a, b, c, d>>)
<1> DEFINE p == <<a, b, c, d>>
<1>1. Len(p) = 4 /\ p \in Seq(LockRequest)
  OBVIOUS
<1>2. p[1] = a /\ p[2] = b /\ p[3] = c /\ p[4] = d
  OBVIOUS
<1> HIDE DEF p
<1>3. ASSUME NEW i \in 1..Len(p), NEW j \in 1..Len(p), j < i PROVE Fits(k, p[j], p[i])
  <2>1. i \in {1, 2, 3, 4} /\ j \in {1, 2, 3, 4}
    BY <1>1
  <2> QED BY <1>2, <1>3, <2>1
<1>4. Good(k, p)
  BY <1>1, <1>3 DEF Good
<1> QED BY <1>4 DEF p

\* A program of five requests.
LEMMA Good5 ==
  ASSUME NEW k, NEW a \in LockRequest, NEW b \in LockRequest, NEW c \in LockRequest,
         NEW d \in LockRequest, NEW e \in LockRequest,
         Fits(k, a, b),
         Fits(k, a, c), Fits(k, b, c),
         Fits(k, a, d), Fits(k, b, d), Fits(k, c, d),
         Fits(k, a, e), Fits(k, b, e), Fits(k, c, e), Fits(k, d, e)
  PROVE  Good(k, <<a, b, c, d, e>>)
<1> DEFINE p == <<a, b, c, d, e>>
<1>1. Len(p) = 5 /\ p \in Seq(LockRequest)
  OBVIOUS
<1>2. p[1] = a /\ p[2] = b /\ p[3] = c /\ p[4] = d /\ p[5] = e
  OBVIOUS
<1> HIDE DEF p
<1>3. ASSUME NEW i \in 1..Len(p), NEW j \in 1..Len(p), j < i PROVE Fits(k, p[j], p[i])
  <2>1. i \in {1, 2, 3, 4, 5} /\ j \in {1, 2, 3, 4, 5}
    BY <1>1
  <2> QED BY <1>2, <1>3, <2>1
<1>4. Good(k, p)
  BY <1>1, <1>3 DEF Good
<1> QED BY <1>4 DEF p

-----------------------------------------------------------------------------
(* The requests of the programs, and the programs. *)

Is(q, r, m, s) == q \in LockRequest /\ q.row = r /\ q.mode = m /\ q.skip = s

\* The requests the programs are made of.
LEMMA Requests ==
  /\ Is(Lock("event"), "event", 4, FALSE)
  /\ Is(Lock("second_event"), "second_event", 4, FALSE)
  /\ Is(Lock("job"), "job", 4, FALSE) /\ Is(Lock("line"), "line", 4, FALSE)
  /\ Is(Lock("topup"), "topup", 4, FALSE)
  /\ Is(Lock("second_order"), "second_order", 4, FALSE)
  /\ Is(Lock("second_line"), "second_line", 4, FALSE)
  /\ Is(Lock("order"), "order", 4, FALSE) /\ Is(Lock("payment"), "payment", 4, FALSE)
  /\ Is(Lock("user"), "user", 4, FALSE) /\ Is(Lock("wallet"), "wallet", 4, FALSE)
  /\ Is(Lock("product"), "product", 4, FALSE)
  /\ Is(Lock("second_product"), "second_product", 4, FALSE)
  /\ Is(Lock("item"), "item", 4, FALSE) /\ Is(Lock("name"), "name", 4, FALSE)
  /\ Is(Lock("second_name"), "second_name", 4, FALSE)
  /\ Is(Lock("category"), "category", 4, FALSE) /\ Is(Lock("bank"), "bank", 4, FALSE)
  /\ Is(Lock("second_bank"), "second_bank", 4, FALSE)
  /\ Is(Lock("number"), "number", 4, FALSE) /\ Is(Lock("mapping"), "mapping", 4, FALSE)
  /\ Is(Lock("identity"), "identity", 4, FALSE) /\ Is(Lock("key"), "key", 4, FALSE)
  /\ Is(Lock("second_number"), "second_number", 4, FALSE)
  /\ Is(Lock("active_bank"), "active_bank", 4, FALSE) /\ Is(Skip("job"), "job", 4, TRUE)
  /\ Is(Skip("order"), "order", 4, TRUE) /\ Is(Skip("item"), "item", 4, TRUE)
  /\ Is(Write("event"), "event", 3, FALSE) /\ Is(Write("job"), "job", 3, FALSE)
  /\ Is(Write("user"), "user", 3, FALSE) /\ Is(Share("user"), "user", 2, FALSE)
  /\ Is(Share("product"), "product", 2, FALSE)
  /\ Is(Share("category"), "category", 2, FALSE) /\ Is(Share("bank"), "bank", 2, FALSE)
  /\ Is(Refer("topup"), "topup", 1, FALSE)
  /\ Is(Refer("second_order"), "second_order", 1, FALSE)
  /\ Is(Refer("order"), "order", 1, FALSE) /\ Is(Refer("user"), "user", 1, FALSE)
  /\ Is(Refer("product"), "product", 1, FALSE) /\ Is(Refer("item"), "item", 1, FALSE)
  /\ Is(Refer("category"), "category", 1, FALSE)
  /\ Is(Refer("mapping"), "mapping", 1, FALSE)
  BY DEF Is, Lock, Skip, Write, Share, Refer, Request, KeyShareMode, ShareMode,
     NoKeyUpdateMode, UpdateMode, LockRequest, Rows

\* The programs of an acceptance for an order are good.
LEMMA AcceptOrderFits ==
  ASSUME NEW k \in Acceptances, NEW e \in {"event", "second_event"}, NEW p \in AcceptOrder(e)
  PROVE  Good(k, p)
<1>0. Is(Lock(e), e, 4, FALSE) /\ Rank[e] = 1
  BY Requests, Ranks
<1>1. Good(k, <<Lock(e), Lock("order"), Refer("user"), Skip("item")>>)
  <2>1. /\ Fits(k, Lock(e), Lock("order"))
        /\ Fits(k, Lock(e), Refer("user"))
        /\ Fits(k, Lock("order"), Refer("user"))
        /\ Fits(k, Lock(e), Skip("item"))
        /\ Fits(k, Lock("order"), Skip("item"))
        /\ Fits(k, Refer("user"), Skip("item"))
    BY <1>0, Requests, Ranks DEF Is, Fits, Asks, Keeps, Harmless, Against, Acceptances
  <2> QED BY <1>0, <2>1, Requests, Good4 DEF Is
<1>2. Good(k, <<Lock(e), Lock("order"), Refer("user"), Skip("item"), Refer("mapping")>>)
  <2>1. /\ Fits(k, Lock(e), Lock("order"))
        /\ Fits(k, Lock(e), Refer("user"))
        /\ Fits(k, Lock("order"), Refer("user"))
        /\ Fits(k, Lock(e), Skip("item"))
        /\ Fits(k, Lock("order"), Skip("item"))
        /\ Fits(k, Refer("user"), Skip("item"))
        /\ Fits(k, Lock(e), Refer("mapping"))
        /\ Fits(k, Lock("order"), Refer("mapping"))
        /\ Fits(k, Refer("user"), Refer("mapping"))
        /\ Fits(k, Skip("item"), Refer("mapping"))
    BY <1>0, Requests, Ranks DEF Is, Fits, Asks, Keeps, Harmless, Against, Acceptances
  <2> QED BY <1>0, <2>1, Requests, Good5 DEF Is
<1>3. Good(k, <<Lock(e), Lock("order"), Refer("user"), Refer("mapping")>>)
  <2>1. /\ Fits(k, Lock(e), Lock("order"))
        /\ Fits(k, Lock(e), Refer("user"))
        /\ Fits(k, Lock("order"), Refer("user"))
        /\ Fits(k, Lock(e), Refer("mapping"))
        /\ Fits(k, Lock("order"), Refer("mapping"))
        /\ Fits(k, Refer("user"), Refer("mapping"))
    BY <1>0, Requests, Ranks DEF Is, Fits, Asks, Keeps, Harmless, Against, Acceptances
  <2> QED BY <1>0, <2>1, Requests, Good4 DEF Is
<1>4. Good(k, <<Lock(e), Refer("order"), Refer("mapping")>>)
  <2>1. /\ Fits(k, Lock(e), Refer("order"))
        /\ Fits(k, Lock(e), Refer("mapping"))
        /\ Fits(k, Refer("order"), Refer("mapping"))
    BY <1>0, Requests, Ranks DEF Is, Fits, Asks, Keeps, Harmless, Against, Acceptances
  <2> QED BY <1>0, <2>1, Requests, Good3 DEF Is
<1> QED BY <1>1, <1>2, <1>3, <1>4 DEF AcceptOrder

\* The programs of an acceptance for a top-up are good.
LEMMA AcceptTopupFits ==
  ASSUME NEW k \in Acceptances, NEW e \in {"event", "second_event"}, NEW p \in AcceptTopup(e)
  PROVE  Good(k, p)
<1>0. Is(Lock(e), e, 4, FALSE) /\ Rank[e] = 1
  BY Requests, Ranks
<1>1. Good(k, <<Lock(e), Lock("topup"), Refer("user"), Lock("wallet")>>)
  <2>1. /\ Fits(k, Lock(e), Lock("topup"))
        /\ Fits(k, Lock(e), Refer("user"))
        /\ Fits(k, Lock("topup"), Refer("user"))
        /\ Fits(k, Lock(e), Lock("wallet"))
        /\ Fits(k, Lock("topup"), Lock("wallet"))
        /\ Fits(k, Refer("user"), Lock("wallet"))
    BY <1>0, Requests, Ranks DEF Is, Fits, Asks, Keeps, Harmless, Against, Acceptances
  <2> QED BY <1>0, <2>1, Requests, Good4 DEF Is
<1>2. Good(k, <<Lock(e), Lock("topup"), Refer("user"), Refer("mapping")>>)
  <2>1. /\ Fits(k, Lock(e), Lock("topup"))
        /\ Fits(k, Lock(e), Refer("user"))
        /\ Fits(k, Lock("topup"), Refer("user"))
        /\ Fits(k, Lock(e), Refer("mapping"))
        /\ Fits(k, Lock("topup"), Refer("mapping"))
        /\ Fits(k, Refer("user"), Refer("mapping"))
    BY <1>0, Requests, Ranks DEF Is, Fits, Asks, Keeps, Harmless, Against, Acceptances
  <2> QED BY <1>0, <2>1, Requests, Good4 DEF Is
<1>3. Good(k, <<Lock(e), Refer("topup"), Refer("mapping")>>)
  <2>1. /\ Fits(k, Lock(e), Refer("topup"))
        /\ Fits(k, Lock(e), Refer("mapping"))
        /\ Fits(k, Refer("topup"), Refer("mapping"))
    BY <1>0, Requests, Ranks DEF Is, Fits, Asks, Keeps, Harmless, Against, Acceptances
  <2> QED BY <1>0, <2>1, Requests, Good3 DEF Is
<1> QED BY <1>1, <1>2, <1>3 DEF AcceptTopup

\* Every program of every transaction is good.
LEMMA ProgramsFit ==
  ASSUME NEW k \in AllKinds, NEW p \in ProgramsOf(k)
  PROVE  Good(k, p)
<1>1. CASE k = "AcceptPayment"
  BY <1>1, AcceptOrderFits DEF ProgramsOf, AcceptPayment, Acceptances
<1>2. CASE k = "AcceptSecondPayment"
  <2>1. Good("AcceptSecondPayment", <<Lock("second_event"), Refer("mapping")>>)
    <3>1. Fits("AcceptSecondPayment", Lock("second_event"), Refer("mapping"))
      BY Requests, Ranks DEF Is, Fits, Asks, Keeps, Harmless, Against, Acceptances
    <3> QED BY <3>1, Requests, Good2 DEF Is
  <2>2. k \in Acceptances
    BY <1>2 DEF Acceptances
  <2>3. p \in AcceptSecondPayment
    BY <1>2 DEF ProgramsOf, Programs
  <2> QED BY <1>2, <2>1, <2>2, <2>3, AcceptOrderFits, AcceptTopupFits DEF AcceptSecondPayment
<1>3. CASE k = "ManualAcceptPayment"
  <2>1. Good("ManualAcceptPayment", <<Lock("order"), Lock("payment"), Refer("user"), Skip("item")>>)
    <3>1. /\ Fits("ManualAcceptPayment", Lock("order"), Lock("payment"))
          /\ Fits("ManualAcceptPayment", Lock("order"), Refer("user"))
          /\ Fits("ManualAcceptPayment", Lock("payment"), Refer("user"))
          /\ Fits("ManualAcceptPayment", Lock("order"), Skip("item"))
          /\ Fits("ManualAcceptPayment", Lock("payment"), Skip("item"))
          /\ Fits("ManualAcceptPayment", Refer("user"), Skip("item"))
      BY Requests, Ranks DEF Is, Fits, Asks, Keeps, Harmless, Against, Acceptances
    <3> QED BY <3>1, Requests, Good4 DEF Is
  <2>2. Good("ManualAcceptPayment",
        <<Lock("topup"), Lock("payment"), Refer("user"), Lock("wallet")>>)
    <3>1. /\ Fits("ManualAcceptPayment", Lock("topup"), Lock("payment"))
          /\ Fits("ManualAcceptPayment", Lock("topup"), Refer("user"))
          /\ Fits("ManualAcceptPayment", Lock("payment"), Refer("user"))
          /\ Fits("ManualAcceptPayment", Lock("topup"), Lock("wallet"))
          /\ Fits("ManualAcceptPayment", Lock("payment"), Lock("wallet"))
          /\ Fits("ManualAcceptPayment", Refer("user"), Lock("wallet"))
      BY Requests, Ranks DEF Is, Fits, Asks, Keeps, Harmless, Against, Acceptances
    <3> QED BY <3>1, Requests, Good4 DEF Is
  <2>3. Good("ManualAcceptPayment", <<Refer("order")>>)
    BY Requests, Good1 DEF Is
  <2>4. Good("ManualAcceptPayment", <<Lock("topup"), Refer("order")>>)
    <3>1. Fits("ManualAcceptPayment", Lock("topup"), Refer("order"))
      BY Requests, Ranks DEF Is, Fits, Asks, Keeps, Harmless, Against, Acceptances
    <3> QED BY <3>1, Requests, Good2 DEF Is
  <2>5. Good("ManualAcceptPayment", <<Lock("order"), Refer("second_order")>>)
    <3>1. Fits("ManualAcceptPayment", Lock("order"), Refer("second_order"))
      BY Requests, Ranks DEF Is, Fits, Asks, Keeps, Harmless, Against, Acceptances
    <3> QED BY <3>1, Requests, Good2 DEF Is
  <2>6. Good("ManualAcceptPayment", <<Lock("second_order"), Refer("order")>>)
    <3>1. Fits("ManualAcceptPayment", Lock("second_order"), Refer("order"))
      BY Requests, Ranks DEF Is, Fits, Asks, Keeps, Harmless, Against, Acceptances
    <3> QED BY <3>1, Requests, Good2 DEF Is
  <2> QED BY <1>3, <2>1, <2>2, <2>3, <2>4, <2>5, <2>6 DEF ProgramsOf, Programs, ManualAcceptPayment
<1>4. CASE k = "ReviewPaymentEvent"
  <2>1. Good("ReviewPaymentEvent", <<Lock("event"), Refer("mapping")>>)
    <3>1. Fits("ReviewPaymentEvent", Lock("event"), Refer("mapping"))
      BY Requests, Ranks DEF Is, Fits, Asks, Keeps, Harmless, Against, Acceptances
    <3> QED BY <3>1, Requests, Good2 DEF Is
  <2> QED BY <1>4, <2>1 DEF ProgramsOf, Programs, ReviewPaymentEvent
<1>5. CASE k = "AttachPaymentEventProviderAccount"
  <2>1. Good("AttachPaymentEventProviderAccount", <<Write("event"), Refer("mapping")>>)
    <3>1. Fits("AttachPaymentEventProviderAccount", Write("event"), Refer("mapping"))
      BY Requests, Ranks DEF Is, Fits, Asks, Keeps, Harmless, Against, Acceptances
    <3> QED BY <3>1, Requests, Good2 DEF Is
  <2> QED BY <1>5, <2>1 DEF ProgramsOf, Programs, AttachPaymentEventProviderAccount
<1>6. CASE k = "CreateWalletTopup"
  <2>1. Good("CreateWalletTopup", <<Lock("user"), Lock("wallet"), Share("bank")>>)
    <3>1. /\ Fits("CreateWalletTopup", Lock("user"), Lock("wallet"))
          /\ Fits("CreateWalletTopup", Lock("user"), Share("bank"))
          /\ Fits("CreateWalletTopup", Lock("wallet"), Share("bank"))
      BY Requests, Ranks DEF Is, Fits, Asks, Keeps, Harmless, Against, Acceptances
    <3> QED BY <3>1, Requests, Good3 DEF Is
  <2> QED BY <1>6, <2>1 DEF ProgramsOf, Programs, CreateWalletTopup
<1>7. CASE k = "PayOrderWithWallet"
  <2>1. Good("PayOrderWithWallet", <<Lock("user"), Lock("order"), Lock("wallet"), Skip("item")>>)
    <3>1. /\ Fits("PayOrderWithWallet", Lock("user"), Lock("order"))
          /\ Fits("PayOrderWithWallet", Lock("user"), Lock("wallet"))
          /\ Fits("PayOrderWithWallet", Lock("order"), Lock("wallet"))
          /\ Fits("PayOrderWithWallet", Lock("user"), Skip("item"))
          /\ Fits("PayOrderWithWallet", Lock("order"), Skip("item"))
          /\ Fits("PayOrderWithWallet", Lock("wallet"), Skip("item"))
      BY Requests, Ranks DEF Is, Fits, Asks, Keeps, Harmless, Against, Acceptances
    <3> QED BY <3>1, Requests, Good4 DEF Is
  <2> QED BY <1>7, <2>1 DEF ProgramsOf, Programs, PayOrderWithWallet
<1>8. CASE k = "AdjustWallet"
  <2>1. Good("AdjustWallet", <<Lock("user"), Lock("wallet")>>)
    <3>1. Fits("AdjustWallet", Lock("user"), Lock("wallet"))
      BY Requests, Ranks DEF Is, Fits, Asks, Keeps, Harmless, Against, Acceptances
    <3> QED BY <3>1, Requests, Good2 DEF Is
  <2> QED BY <1>8, <2>1 DEF ProgramsOf, Programs, AdjustWallet
<1>9. CASE k = "UpsertTelegramUser"
  <2>1. Good("UpsertTelegramUser", <<Write("user")>>)
    BY Requests, Good1 DEF Is
  <2> QED BY <1>9, <2>1 DEF ProgramsOf, Programs, UpsertTelegramUser
<1>10. CASE k = "CreateOrder"
  <2>1. Good("CreateOrder",
        <<Share("user"), Share("product"), Share("category"), Share("bank"), Lock("key")>>)
    <3>1. /\ Fits("CreateOrder", Share("user"), Share("product"))
          /\ Fits("CreateOrder", Share("user"), Share("category"))
          /\ Fits("CreateOrder", Share("product"), Share("category"))
          /\ Fits("CreateOrder", Share("user"), Share("bank"))
          /\ Fits("CreateOrder", Share("product"), Share("bank"))
          /\ Fits("CreateOrder", Share("category"), Share("bank"))
          /\ Fits("CreateOrder", Share("user"), Lock("key"))
          /\ Fits("CreateOrder", Share("product"), Lock("key"))
          /\ Fits("CreateOrder", Share("category"), Lock("key"))
          /\ Fits("CreateOrder", Share("bank"), Lock("key"))
      BY Requests, Ranks DEF Is, Fits, Asks, Keeps, Harmless, Against, Acceptances
    <3> QED BY <3>1, Requests, Good5 DEF Is
  <2>2. Good("CreateOrder",
        <<Share("user"), Share("product"), Share("category"), Share("bank"), Refer("order")>>)
    <3>1. /\ Fits("CreateOrder", Share("user"), Share("product"))
          /\ Fits("CreateOrder", Share("user"), Share("category"))
          /\ Fits("CreateOrder", Share("product"), Share("category"))
          /\ Fits("CreateOrder", Share("user"), Share("bank"))
          /\ Fits("CreateOrder", Share("product"), Share("bank"))
          /\ Fits("CreateOrder", Share("category"), Share("bank"))
          /\ Fits("CreateOrder", Share("user"), Refer("order"))
          /\ Fits("CreateOrder", Share("product"), Refer("order"))
          /\ Fits("CreateOrder", Share("category"), Refer("order"))
          /\ Fits("CreateOrder", Share("bank"), Refer("order"))
      BY Requests, Ranks DEF Is, Fits, Asks, Keeps, Harmless, Against, Acceptances
    <3> QED BY <3>1, Requests, Good5 DEF Is
  <2> QED BY <1>10, <2>1, <2>2 DEF ProgramsOf, Programs, CreateOrder
<1>11. CASE k = "CancelOrder"
  <2>1. Good("CancelOrder", <<Lock("order")>>)
    BY Requests, Good1 DEF Is
  <2> QED BY <1>11, <2>1 DEF ProgramsOf, Programs, CancelOrder
<1>12. CASE k = "ExpireOverdueOrders"
  <2>1. Good("ExpireOverdueOrders", <<Skip("order")>>)
    BY Requests, Good1 DEF Is
  <2> QED BY <1>12, <2>1 DEF ProgramsOf, Programs, ExpireOverdueOrders
<1>13. CASE k = "BeginDeliveryAttempt"
  <2>1. Good("BeginDeliveryAttempt", <<Write("job"), Refer("order")>>)
    <3>1. Fits("BeginDeliveryAttempt", Write("job"), Refer("order"))
      BY Requests, Ranks DEF Is, Fits, Asks, Keeps, Harmless, Against, Acceptances
    <3> QED BY <3>1, Requests, Good2 DEF Is
  <2> QED BY <1>13, <2>1 DEF ProgramsOf, Programs, BeginDeliveryAttempt
<1>14. CASE k = "RecoverStaleDeliveryJobs"
  <2>1. Good("RecoverStaleDeliveryJobs", <<Skip("job"), Refer("order")>>)
    <3>1. Fits("RecoverStaleDeliveryJobs", Skip("job"), Refer("order"))
      BY Requests, Ranks DEF Is, Fits, Asks, Keeps, Harmless, Against, Acceptances
    <3> QED BY <3>1, Requests, Good2 DEF Is
  <2> QED BY <1>14, <2>1 DEF ProgramsOf, Programs, RecoverStaleDeliveryJobs
<1>15. CASE k = "FinalizeDelivery"
  <2>1. Good("FinalizeDelivery", <<Lock("job"), Lock("order"), Lock("item")>>)
    <3>1. /\ Fits("FinalizeDelivery", Lock("job"), Lock("order"))
          /\ Fits("FinalizeDelivery", Lock("job"), Lock("item"))
          /\ Fits("FinalizeDelivery", Lock("order"), Lock("item"))
      BY Requests, Ranks DEF Is, Fits, Asks, Keeps, Harmless, Against, Acceptances
    <3> QED BY <3>1, Requests, Good3 DEF Is
  <2> QED BY <1>15, <2>1 DEF ProgramsOf, Programs, FinalizeDelivery
<1>16. CASE k = "CompleteDelivery"
  <2>1. Good("CompleteDelivery", <<Lock("job"), Lock("order"), Lock("item")>>)
    <3>1. /\ Fits("CompleteDelivery", Lock("job"), Lock("order"))
          /\ Fits("CompleteDelivery", Lock("job"), Lock("item"))
          /\ Fits("CompleteDelivery", Lock("order"), Lock("item"))
      BY Requests, Ranks DEF Is, Fits, Asks, Keeps, Harmless, Against, Acceptances
    <3> QED BY <3>1, Requests, Good3 DEF Is
  <2> QED BY <1>16, <2>1 DEF ProgramsOf, Programs, CompleteDelivery
<1>17. CASE k = "UpdateCategory"
  <2>1. Good("UpdateCategory", <<Lock("category")>>)
    BY Requests, Good1 DEF Is
  <2> QED BY <1>17, <2>1 DEF ProgramsOf, Programs, UpdateCategory
<1>18. CASE k = "CreateProduct"
  <2>1. Good("CreateProduct", <<Lock("name"), Refer("category")>>)
    <3>1. Fits("CreateProduct", Lock("name"), Refer("category"))
      BY Requests, Ranks DEF Is, Fits, Asks, Keeps, Harmless, Against, Acceptances
    <3> QED BY <3>1, Requests, Good2 DEF Is
  <2> QED BY <1>18, <2>1 DEF ProgramsOf, Programs, CreateProduct
<1>19. CASE k = "UpdateProduct"
  <2>1. Good("UpdateProduct",
        <<Lock("product"), Lock("name"), Lock("second_name"), Refer("category")>>)
    <3>1. /\ Fits("UpdateProduct", Lock("product"), Lock("name"))
          /\ Fits("UpdateProduct", Lock("product"), Lock("second_name"))
          /\ Fits("UpdateProduct", Lock("name"), Lock("second_name"))
          /\ Fits("UpdateProduct", Lock("product"), Refer("category"))
          /\ Fits("UpdateProduct", Lock("name"), Refer("category"))
          /\ Fits("UpdateProduct", Lock("second_name"), Refer("category"))
      BY Requests, Ranks DEF Is, Fits, Asks, Keeps, Harmless, Against, Acceptances
    <3> QED BY <3>1, Requests, Good4 DEF Is
  <2>2. Good("UpdateProduct",
        <<Lock("second_product"), Lock("second_name"), Lock("name"), Refer("category")>>)
    <3>1. /\ Fits("UpdateProduct", Lock("second_product"), Lock("second_name"))
          /\ Fits("UpdateProduct", Lock("second_product"), Lock("name"))
          /\ Fits("UpdateProduct", Lock("second_name"), Lock("name"))
          /\ Fits("UpdateProduct", Lock("second_product"), Refer("category"))
          /\ Fits("UpdateProduct", Lock("second_name"), Refer("category"))
          /\ Fits("UpdateProduct", Lock("name"), Refer("category"))
      BY Requests, Ranks DEF Is, Fits, Asks, Keeps, Harmless, Against, Acceptances
    <3> QED BY <3>1, Requests, Good4 DEF Is
  <2> QED BY <1>19, <2>1, <2>2 DEF ProgramsOf, Programs, UpdateProduct
<1>20. CASE k = "ImportInventory"
  <2>1. Good("ImportInventory", <<Lock("line"), Refer("product"), Lock("second_line")>>)
    <3>1. /\ Fits("ImportInventory", Lock("line"), Refer("product"))
          /\ Fits("ImportInventory", Lock("line"), Lock("second_line"))
          /\ Fits("ImportInventory", Refer("product"), Lock("second_line"))
      BY Requests, Ranks DEF Is, Fits, Asks, Keeps, Harmless, Against, Acceptances
    <3> QED BY <3>1, Requests, Good3 DEF Is
  <2>2. Good("ImportInventory", <<Lock("second_line"), Refer("product"), Lock("line")>>)
    <3>1. /\ Fits("ImportInventory", Lock("second_line"), Refer("product"))
          /\ Fits("ImportInventory", Lock("second_line"), Lock("line"))
          /\ Fits("ImportInventory", Refer("product"), Lock("line"))
      BY Requests, Ranks DEF Is, Fits, Asks, Keeps, Harmless, Against, Acceptances
    <3> QED BY <3>1, Requests, Good3 DEF Is
  <2>3. Good("ImportInventory", <<Lock("line"), Refer("product"), Refer("item")>>)
    <3>1. /\ Fits("ImportInventory", Lock("line"), Refer("product"))
          /\ Fits("ImportInventory", Lock("line"), Refer("item"))
          /\ Fits("ImportInventory", Refer("product"), Refer("item"))
      BY Requests, Ranks DEF Is, Fits, Asks, Keeps, Harmless, Against, Acceptances
    <3> QED BY <3>1, Requests, Good3 DEF Is
  <2> QED BY <1>20, <2>1, <2>2, <2>3 DEF ProgramsOf, Programs, ImportInventory
<1>21. CASE k = "SetInventoryItemEnabled"
  <2>1. Good("SetInventoryItemEnabled", <<Lock("item")>>)
    BY Requests, Good1 DEF Is
  <2> QED BY <1>21, <2>1 DEF ProgramsOf, Programs, SetInventoryItemEnabled
<1>22. CASE k = "UpdateBankAccount"
  <2>1. Good("UpdateBankAccount", <<Lock("bank"), Lock("number"), Lock("second_number")>>)
    <3>1. /\ Fits("UpdateBankAccount", Lock("bank"), Lock("number"))
          /\ Fits("UpdateBankAccount", Lock("bank"), Lock("second_number"))
          /\ Fits("UpdateBankAccount", Lock("number"), Lock("second_number"))
      BY Requests, Ranks DEF Is, Fits, Asks, Keeps, Harmless, Against, Acceptances
    <3> QED BY <3>1, Requests, Good3 DEF Is
  <2>2. Good("UpdateBankAccount", <<Lock("second_bank"), Lock("second_number"), Lock("number")>>)
    <3>1. /\ Fits("UpdateBankAccount", Lock("second_bank"), Lock("second_number"))
          /\ Fits("UpdateBankAccount", Lock("second_bank"), Lock("number"))
          /\ Fits("UpdateBankAccount", Lock("second_number"), Lock("number"))
      BY Requests, Ranks DEF Is, Fits, Asks, Keeps, Harmless, Against, Acceptances
    <3> QED BY <3>1, Requests, Good3 DEF Is
  <2> QED BY <1>22, <2>1, <2>2 DEF ProgramsOf, Programs, UpdateBankAccount
<1>23. CASE k = "CreatePaymentProviderAccount"
  <2>1. Good("CreatePaymentProviderAccount",
        <<Lock("bank"), Lock("identity"), Lock("active_bank")>>)
    <3>1. /\ Fits("CreatePaymentProviderAccount", Lock("bank"), Lock("identity"))
          /\ Fits("CreatePaymentProviderAccount", Lock("bank"), Lock("active_bank"))
          /\ Fits("CreatePaymentProviderAccount", Lock("identity"), Lock("active_bank"))
      BY Requests, Ranks DEF Is, Fits, Asks, Keeps, Harmless, Against, Acceptances
    <3> QED BY <3>1, Requests, Good3 DEF Is
  <2>2. Good("CreatePaymentProviderAccount", <<Lock("second_bank"), Lock("identity")>>)
    <3>1. Fits("CreatePaymentProviderAccount", Lock("second_bank"), Lock("identity"))
      BY Requests, Ranks DEF Is, Fits, Asks, Keeps, Harmless, Against, Acceptances
    <3> QED BY <3>1, Requests, Good2 DEF Is
  <2>3. Good("CreatePaymentProviderAccount", <<Lock("bank"), Refer("mapping")>>)
    <3>1. Fits("CreatePaymentProviderAccount", Lock("bank"), Refer("mapping"))
      BY Requests, Ranks DEF Is, Fits, Asks, Keeps, Harmless, Against, Acceptances
    <3> QED BY <3>1, Requests, Good2 DEF Is
  <2> QED BY <1>23, <2>1, <2>2, <2>3 DEF ProgramsOf, Programs, CreatePaymentProviderAccount
<1>24. CASE k = "SetPaymentProviderAccountStatus"
  <2>1. Good("SetPaymentProviderAccountStatus",
        <<Lock("mapping"), Lock("active_bank"), Lock("bank")>>)
    <3>1. /\ Fits("SetPaymentProviderAccountStatus", Lock("mapping"), Lock("active_bank"))
          /\ Fits("SetPaymentProviderAccountStatus", Lock("mapping"), Lock("bank"))
          /\ Fits("SetPaymentProviderAccountStatus", Lock("active_bank"), Lock("bank"))
      BY Requests, Ranks DEF Is, Fits, Asks, Keeps, Harmless, Against, Acceptances
    <3> QED BY <3>1, Requests, Good3 DEF Is
  <2> QED BY <1>24, <2>1 DEF ProgramsOf, Programs, SetPaymentProviderAccountStatus
<1>25. k \in {"AcceptPayment", "AcceptSecondPayment", "ManualAcceptPayment",
             "ReviewPaymentEvent", "AttachPaymentEventProviderAccount", "CreateWalletTopup",
             "PayOrderWithWallet", "AdjustWallet", "UpsertTelegramUser", "CreateOrder",
             "CancelOrder", "ExpireOverdueOrders", "BeginDeliveryAttempt",
             "RecoverStaleDeliveryJobs", "FinalizeDelivery", "CompleteDelivery",
             "UpdateCategory", "CreateProduct", "UpdateProduct", "ImportInventory",
             "SetInventoryItemEnabled", "UpdateBankAccount", "CreatePaymentProviderAccount",
             "SetPaymentProviderAccountStatus"}
  BY DEF AllKinds, Kinds, Programs
<1> QED
  BY <1>1, <1>2, <1>3, <1>4, <1>5, <1>6, <1>7, <1>8, <1>9, <1>10, <1>11, <1>12, <1>13, <1>14,
     <1>15, <1>16, <1>17, <1>18, <1>19, <1>20, <1>21, <1>22, <1>23, <1>24, <1>25

-----------------------------------------------------------------------------
(* The inductive invariant.  What a transaction holds fits everything it has    *)
(* still to ask for, and a transaction that asks holds something already.       *)

\* The requests to come fit each other.
Ordered(k, q) == \A i, j \in 1..Len(q) : j < i => Fits(k, q[j], q[i])
\* The lock of a row in a mode fits the requests to come.
Behind(k, r, m, q) == \A i \in 1..Len(q) : Fits(k, Request(r, m, FALSE), q[i])

LocksTypeOK ==
    /\ kind \in [Txs -> AllKinds \cup {None}]
    /\ program \in [Txs -> Seq(LockRequest)]
    /\ held \subseteq Txs \X Rows \X (1..4)
IdleHoldsNothing == \A h \in held : kind[h[1]] # None
AskersHold == \A s \in Txs : program[s] # <<>> => \E h \in held : h[1] = s
Ahead == \A s \in Txs : Ordered(kind[s], program[s])
HeldFit == \A h \in held : Behind(kind[h[1]], h[2], h[3], program[h[1]])

LocksInv == LocksTypeOK /\ IdleHoldsNothing /\ AskersHold /\ Ahead /\ HeldFit

\* The first request of a program and the others.
LEMMA TailFacts ==
  ASSUME NEW q \in Seq(LockRequest), q # <<>>
  PROVE  /\ Head(q) = q[1] /\ Head(q) \in LockRequest /\ 1 \in 1..Len(q)
         /\ Tail(q) \in Seq(LockRequest) /\ Len(Tail(q)) = Len(q) - 1
         /\ \A i \in 1..Len(Tail(q)) : i + 1 \in 1..Len(q) /\ i + 1 > 1 /\ Tail(q)[i] = q[i + 1]
  OBVIOUS

\* Only the row and the mode of a granted lock matter.
LEMMA FitsLock ==
  ASSUME NEW k, NEW x \in LockRequest, NEW y
  PROVE  Fits(k, Request(x.row, x.mode, FALSE), y) <=> Fits(k, x, y)
<1> DEFINE z == Request(x.row, x.mode, FALSE)
<1>1. z.row = x.row /\ z.mode = x.mode
  BY DEF Request
<1> HIDE DEF z
<1>2. Fits(k, z, y) <=> Fits(k, x, y)
  BY <1>1 DEF Fits, Keeps, Harmless
<1> QED BY <1>2 DEF z

\* When the first request of ordered ones is granted, the others remain ordered and the
\* lock fits them.
LEMMA GrantFits ==
  ASSUME NEW k, NEW q \in Seq(LockRequest), q # <<>>, Ordered(k, q)
  PROVE  Ordered(k, Tail(q)) /\ Behind(k, Head(q).row, Head(q).mode, Tail(q))
<1> DEFINE t == Tail(q)
           x == Head(q)
<1>1. /\ x = q[1] /\ x \in LockRequest /\ 1 \in 1..Len(q)
      /\ \A i \in 1..Len(t) : i + 1 \in 1..Len(q) /\ i + 1 > 1 /\ t[i] = q[i + 1]
      /\ Len(t) \in Nat /\ Len(q) \in Nat
  BY TailFacts
<1> HIDE DEF t, x
<1>2. Ordered(k, t)
  BY <1>1 DEF Ordered
<1>3. ASSUME NEW i \in 1..Len(t) PROVE Fits(k, Request(x.row, x.mode, FALSE), t[i])
  <2>1. Fits(k, q[1], q[i + 1])
    BY <1>1 DEF Ordered
  <2> QED BY <1>1, <2>1, FitsLock
<1>4. Behind(k, x.row, x.mode, t)
  BY <1>3 DEF Behind
<1> QED BY <1>2, <1>4 DEF t, x

\* A lock that fits the requests to come fits them still when the first one is over.
LEMMA BehindTail ==
  ASSUME NEW k, NEW r, NEW m, NEW q \in Seq(LockRequest), q # <<>>, Behind(k, r, m, q)
  PROVE  Behind(k, r, m, Tail(q))
<1> DEFINE t == Tail(q)
<1>1. \A i \in 1..Len(t) : i + 1 \in 1..Len(q) /\ t[i] = q[i + 1]
  BY TailFacts
<1> HIDE DEF t
<1>2. Behind(k, r, m, t)
  BY <1>1 DEF Behind
<1> QED BY <1>2 DEF t

\* Nothing is asked for: the empty program.
LEMMA EmptyFits ==
  ASSUME NEW k, NEW r, NEW m
  PROVE  /\ <<>> \in Seq(LockRequest) /\ Ordered(k, <<>>) /\ Behind(k, r, m, <<>>)
<1>1. Len(<<>>) = 0 /\ <<>> \in Seq(LockRequest)
  OBVIOUS
<1> QED BY <1>1 DEF Ordered, Behind

-----------------------------------------------------------------------------
(* Every step keeps the invariant. *)

\* Nothing is held and nothing is asked for in the beginning.
LEMMA LocksInit == Init => LocksInv
<1> SUFFICES ASSUME Init PROVE LocksInv
  OBVIOUS
<1>1. LocksTypeOK
  BY EmptyFits DEF Init, LocksTypeOK
<1>2. IdleHoldsNothing /\ AskersHold /\ HeldFit
  BY DEF Init, IdleHoldsNothing, AskersHold, HeldFit
<1>3. Ahead
  BY EmptyFits DEF Init, Ahead
<1> QED BY <1>1, <1>2, <1>3 DEF LocksInv

\* A transaction begins with its first lock.
LEMMA StartKeeps ==
  ASSUME LocksInv, NEW s \in Txs, NEW k \in AllKinds, NEW p \in ProgramsOf(k), Start(s, k, p)
  PROVE  LocksInv'
<1> DEFINE x == Head(p)
           q == Tail(p)
<1>1. p \in Seq(LockRequest) /\ p # <<>> /\ Ordered(k, p)
  BY ProgramsFit DEF Good, Ordered
<1>2. /\ x \in LockRequest /\ q \in Seq(LockRequest)
      /\ Ordered(k, q) /\ Behind(k, x.row, x.mode, q)
  BY <1>1, TailFacts, GrantFits
<1>3. /\ kind[s] = None
      /\ kind' = [kind EXCEPT ![s] = k] /\ program' = [program EXCEPT ![s] = q]
      /\ held' = held \cup {<<s, x.row, x.mode>>}
  BY DEF Start, Free
<1>4. x.row \in Rows /\ x.mode \in 1..4
  BY <1>2 DEF LockRequest
<1>5. k # None
  BY NoneAssumption DEF AllKinds
<1> HIDE DEF x, q
<1>6. LocksTypeOK'
  BY <1>2, <1>3, <1>4 DEF LocksInv, LocksTypeOK
<1>7. \A h \in held : h[1] # s /\ h[1] \in Txs
  BY <1>3 DEF LocksInv, LocksTypeOK, IdleHoldsNothing
<1>8. /\ kind'[s] = k /\ program'[s] = q
      /\ \A t \in Txs : t # s => kind'[t] = kind[t] /\ program'[t] = program[t]
  BY <1>3 DEF LocksInv, LocksTypeOK
<1>9. IdleHoldsNothing'
  BY <1>3, <1>5, <1>7, <1>8 DEF LocksInv, IdleHoldsNothing
<1>10. AskersHold'
  <2>1. \E h \in held' : h[1] = s
    <3>1. <<s, x.row, x.mode>>[1] = s
      OBVIOUS
    <3> QED BY <1>3, <3>1
  <2>2. \A h \in held : h \in held'
    BY <1>3
  <2> QED BY <1>8, <2>1, <2>2 DEF LocksInv, AskersHold
<1>11. Ahead'
  BY <1>2, <1>8 DEF LocksInv, Ahead
<1>12. HeldFit'
  BY <1>2, <1>3, <1>7, <1>8 DEF LocksInv, HeldFit
<1> QED BY <1>6, <1>9, <1>10, <1>11, <1>12 DEF LocksInv

\* A lock is granted, or a row that is locked is skipped.
LEMMA TakeLockKeeps ==
  ASSUME LocksInv, NEW s \in Txs, TakeLock(s)
  PROVE  LocksInv'
<1> DEFINE p == program[s]
           x == Head(p)
           q == Tail(p)
           k == kind[s]
<1>1. p \in Seq(LockRequest) /\ p # <<>> /\ Ordered(k, p)
  BY DEF LocksInv, LocksTypeOK, Ahead, TakeLock
<1>2. /\ x \in LockRequest /\ q \in Seq(LockRequest)
      /\ Ordered(k, q) /\ Behind(k, x.row, x.mode, q)
      /\ \A r, m : Behind(k, r, m, p) => Behind(k, r, m, q)
  BY <1>1, TailFacts, GrantFits, BehindTail
<1>3. /\ k # None /\ kind' = kind /\ program' = [program EXCEPT ![s] = q]
      /\ held' = held \cup {<<s, x.row, x.mode>>} \/ held' = held
  BY DEF TakeLock
<1>4. x.row \in Rows /\ x.mode \in 1..4
  BY <1>2 DEF LockRequest
<1>5. \E h \in held : h[1] = s
  BY <1>1 DEF LocksInv, AskersHold
<1> HIDE DEF x, q
<1>6. LocksTypeOK'
  BY <1>2, <1>3, <1>4 DEF LocksInv, LocksTypeOK
<1>8. /\ program'[s] = q
      /\ \A t \in Txs : t # s => program'[t] = program[t]
      /\ \A h \in held : h[1] \in Txs
  BY <1>3 DEF LocksInv, LocksTypeOK
<1>9. IdleHoldsNothing'
  BY <1>3 DEF LocksInv, IdleHoldsNothing
<1>10. AskersHold'
  BY <1>3, <1>5, <1>8 DEF LocksInv, AskersHold
<1>11. Ahead'
  BY <1>2, <1>3, <1>8 DEF LocksInv, Ahead
<1>12. HeldFit'
  <2>1. \A h \in held : Behind(kind[h[1]], h[2], h[3], program'[h[1]])
    BY <1>2, <1>8 DEF LocksInv, HeldFit
  <2> QED BY <1>2, <1>3, <1>8, <2>1 DEF HeldFit
<1> QED BY <1>6, <1>9, <1>10, <1>11, <1>12 DEF LocksInv

\* A transaction ends and gives its locks back.
LEMMA ReleaseKeeps ==
  ASSUME LocksInv, NEW s \in Txs, Release(s)
  PROVE  LocksInv'
<1>1. /\ kind' = [kind EXCEPT ![s] = None] /\ program' = [program EXCEPT ![s] = <<>>]
      /\ held' = {h \in held : h[1] # s}
  BY DEF Release
<1>2. LocksTypeOK'
  BY <1>1, EmptyFits DEF LocksInv, LocksTypeOK
<1>3. /\ kind'[s] = None /\ program'[s] = <<>>
      /\ \A t \in Txs : t # s => kind'[t] = kind[t] /\ program'[t] = program[t]
      /\ \A h \in held' : h \in held /\ h[1] \in Txs /\ h[1] # s
  BY <1>1 DEF LocksInv, LocksTypeOK
<1>4. IdleHoldsNothing'
  BY <1>3 DEF LocksInv, IdleHoldsNothing
<1>5. AskersHold'
  BY <1>1, <1>3 DEF LocksInv, AskersHold
<1>6. Ahead'
  BY <1>3, EmptyFits DEF LocksInv, Ahead
<1>7. HeldFit'
  BY <1>3 DEF LocksInv, HeldFit
<1> QED BY <1>2, <1>4, <1>5, <1>6, <1>7 DEF LocksInv

\* Every step of the specification keeps the invariant.
LEMMA LocksStep == LocksInv /\ [Next]_vars => LocksInv'
<1> SUFFICES ASSUME LocksInv, [Next]_vars PROVE LocksInv'
  OBVIOUS
<1>1. ASSUME NEW s \in Txs, BeginAcceptance(s) PROVE LocksInv'
  <2>1. PICK p \in AcceptPayment : Start(s, "AcceptPayment", p)
    BY <1>1 DEF BeginAcceptance
  <2> QED BY <2>1, StartKeeps DEF AllKinds, ProgramsOf
<1>2. ASSUME NEW s \in Txs, NEW k \in Kinds, Begin(s, k) PROVE LocksInv'
  <2>1. PICK p \in Programs[k] : Start(s, k, p)
    BY <1>2 DEF Begin
  <2>2. k # "AcceptPayment"
    BY DEF Kinds, Programs
  <2> QED BY <2>1, <2>2, StartKeeps DEF AllKinds, ProgramsOf
<1>3. ASSUME NEW s \in Txs, TakeLock(s) PROVE LocksInv'
  BY <1>3, TakeLockKeeps
<1>4. ASSUME NEW s \in Txs, Commit(s) PROVE LocksInv'
  BY <1>4, ReleaseKeeps DEF Commit
<1>5. ASSUME NEW s \in Txs, EndEarly(s) PROVE LocksInv'
  BY <1>5, ReleaseKeeps DEF EndEarly
<1>6. ASSUME NEW s \in Txs, Victim(s) PROVE LocksInv'
  BY <1>6, ReleaseKeeps DEF Victim
<1>7. CASE UNCHANGED vars
  BY <1>7 DEF vars, LocksInv, LocksTypeOK, IdleHoldsNothing, AskersHold, Ahead, HeldFit
<1> QED BY <1>1, <1>2, <1>3, <1>4, <1>5, <1>6, <1>7 DEF Next

-----------------------------------------------------------------------------
(* The cycles. *)

Asked(s) == Head(program[s])
Wanted(s) == Asked(s).row

\* S is a cycle: every member waits for a member, and no part of it is one.
Knot(S) == S # {} /\ S \subseteq Txs /\ \A s \in S : WaitsFor(s) \cap S # {}

\* s waits for t, which holds the row s wants.
Edge(s, t) ==
    /\ s \in Txs /\ t \in Txs /\ s # t /\ program[s] # <<>>
    /\ Asked(s) \in LockRequest /\ Asked(s).skip = FALSE
    /\ \E m \in 1..4 : <<t, Wanted(s), m>> \in held /\ Conflicts(m, Asked(s).mode)

\* Who waits, and for whom.
LEMMA Waits ==
  ASSUME LocksInv, NEW s \in Txs, NEW t \in WaitsFor(s)
  PROVE  Edge(s, t)
<1> DEFINE q == Head(program[s])
<1>1. program[s] # <<>> /\ ~q.skip /\ t \in Blockers(s, q)
  BY DEF WaitsFor
<1>2. q \in LockRequest /\ q.skip \in BOOLEAN
  BY <1>1, TailFacts DEF LocksInv, LocksTypeOK, LockRequest
<1>3. PICK h \in held : h[1] # s /\ h[2] = q.row /\ t = h[1] /\ Conflicts(h[3], q.mode)
  BY <1>1 DEF Blockers
<1>4. h = <<h[1], h[2], h[3]>> /\ h[1] \in Txs /\ h[3] \in 1..4
  BY DEF LocksInv, LocksTypeOK
<1>5. q.skip = FALSE
  BY <1>1, <1>2
<1> HIDE DEF q
<1>6. <<t, q.row, h[3]>> \in held
  BY <1>3, <1>4
<1> QED BY <1>1, <1>2, <1>3, <1>4, <1>5, <1>6 DEF Edge, Asked, Wanted, q

\* The row a waiting transaction holds fits the row it wants.
LEMMA EdgeFits ==
  ASSUME LocksInv, NEW s, NEW t, NEW u, Edge(s, t), Edge(t, u)
  PROVE  \E x : /\ x.row = Wanted(s) /\ x.mode \in 1..4 /\ x.mode + Asked(s).mode > 4
                /\ Keeps(kind[t], x, Asked(t))
<1>1. PICK m \in 1..4 : <<t, Wanted(s), m>> \in held /\ Conflicts(m, Asked(s).mode)
  BY DEF Edge
<1> DEFINE h == <<t, Wanted(s), m>>
           x == Request(Wanted(s), m, FALSE)
           y == Head(program[t])
<1>2. Behind(kind[t], Wanted(s), m, program[t])
  <2>1. h[1] = t /\ h[2] = Wanted(s) /\ h[3] = m
    OBVIOUS
  <2> QED BY <1>1, <2>1 DEF LocksInv, HeldFit
<1>3. y = program[t][1] /\ 1 \in 1..Len(program[t])
  BY TailFacts DEF LocksInv, LocksTypeOK, Edge
<1>4. Fits(kind[t], x, y)
  BY <1>2, <1>3 DEF Behind
<1>5. x.row = Wanted(s) /\ x.mode = m /\ y = Asked(t) /\ y.skip = FALSE
  BY DEF Request, Edge, Asked
<1>6. m + Asked(s).mode > 4
  BY <1>1 DEF Conflicts
<1> HIDE DEF x, y
<1>7. Keeps(kind[t], x, Asked(t))
  BY <1>4, <1>5 DEF Fits
<1> QED BY <1>5, <1>6, <1>7

\* A transaction that waits holds something already, so it is not at its first request.
LEMMA EdgeAsks ==
  ASSUME LocksInv, NEW s, NEW t, Edge(s, t)
  PROVE  /\ Asks(kind[s], Asked(s)) /\ Wanted(s) \in Rows /\ Asked(s).mode \in 1..4
         /\ Rank[Wanted(s)] \in 1..12
<1>1. PICK h \in held : h[1] = s
  BY DEF LocksInv, AskersHold, Edge
<1> DEFINE y == Head(program[s])
<1>2. Behind(kind[s], h[2], h[3], program[s])
  BY <1>1 DEF LocksInv, HeldFit
<1>3. y = program[s][1] /\ 1 \in 1..Len(program[s])
  BY TailFacts DEF LocksInv, LocksTypeOK, Edge
<1>4. Fits(kind[s], Request(h[2], h[3], FALSE), y)
  BY <1>2, <1>3 DEF Behind
<1>5. y = Asked(s) /\ y.skip = FALSE
  BY DEF Edge, Asked
<1>6. Asks(kind[s], Asked(s))
  BY <1>4, <1>5 DEF Fits
<1>7. Wanted(s) \in Rows /\ Asked(s).mode \in 1..4
  BY DEF Edge, Wanted, LockRequest
<1> QED BY <1>6, <1>7, RankTyped

\* Ranks cannot ascend for ever.
LEMMA NoAscent ==
  ASSUME NEW S, NEW f \in [S -> 1..12], S # {}, \A s \in S : \E t \in S : f[s] < f[t]
  PROVE  FALSE
<1>1. \A s \in S : f[s] # 12
  OBVIOUS
<1>2. \A s \in S : f[s] # 11
  BY <1>1
<1>3. \A s \in S : f[s] \in 1..10
  BY <1>1, <1>2
<1>4. \A s \in S : f[s] # 10
  BY <1>3
<1>5. \A s \in S : f[s] # 9
  BY <1>3, <1>4
<1>6. \A s \in S : f[s] \in 1..8
  BY <1>3, <1>4, <1>5
<1>7. \A s \in S : f[s] # 8
  BY <1>6
<1>8. \A s \in S : f[s] # 7
  BY <1>6, <1>7
<1>9. \A s \in S : f[s] \in 1..6
  BY <1>6, <1>7, <1>8
<1>10. \A s \in S : f[s] # 6
  BY <1>9
<1>11. \A s \in S : f[s] # 5
  BY <1>9, <1>10
<1>12. \A s \in S : f[s] \in 1..4
  BY <1>9, <1>10, <1>11
<1>13. \A s \in S : f[s] # 4
  BY <1>12
<1>14. \A s \in S : f[s] # 3
  BY <1>12, <1>13
<1>15. \A s \in S : f[s] \in 1..2
  BY <1>12, <1>13, <1>14
<1>16. \A s \in S : f[s] # 2
  BY <1>15
<1> QED BY <1>15, <1>16

\* The cycles are the smallest knots.
LEMMA CyclesAreKnots ==
  ASSUME NEW S \in Cycles
  PROVE  Knot(S) /\ \A K : Knot(K) /\ K \subseteq S => K = S
<1> DEFINE waits == [s \in Txs |-> WaitsFor(s)]
           waiting == {s \in Txs : waits[s] # {}}
           knots == {K \in SUBSET waiting : K # {} /\ \A s \in K : waits[s] \cap K # {}}
<1>1. S \in knots /\ \A K \in knots : K \subseteq S => K = S
  BY DEF Cycles
<1>2. \A s \in Txs : waits[s] = WaitsFor(s)
  OBVIOUS
<1> HIDE DEF waits
<1>3. Knot(S)
  BY <1>1, <1>2 DEF Knot
<1>4. ASSUME NEW K, Knot(K) PROVE K \in knots
  BY <1>2, <1>4 DEF Knot
<1> QED BY <1>1, <1>3, <1>4

\* In a cycle everyone waits for a member and is waited for by one.
LEMMA CycleMembers ==
  ASSUME LocksInv, NEW S \in Cycles, NEW t \in S
  PROVE  /\ \E s \in S : t \in WaitsFor(s) /\ Edge(s, t)
         /\ \E u \in S : u \in WaitsFor(t) /\ Edge(t, u)
<1>1. S # {} /\ S \subseteq Txs /\ \A s \in S : \E u \in S : u \in WaitsFor(s)
  BY CyclesAreKnots DEF Knot
<1>2. \A s, u \in S : u \in WaitsFor(s) => Edge(s, u)
  BY <1>1, Waits
<1>3. \E s \in S : t \in WaitsFor(s)
  <2> SUFFICES ASSUME \A s \in S : t \notin WaitsFor(s) PROVE FALSE
    OBVIOUS
  <2> DEFINE K == S \ {t}
  <2>1. \A s \in S : \E u \in K : u \in WaitsFor(s)
    BY <1>1
  <2>2. Knot(K)
    BY <1>1, <2>1 DEF Knot
  <2>3. K = S
    BY <2>2, CyclesAreKnots
  <2> QED BY <2>3
<1> QED BY <1>1, <1>2, <1>3

\* Some member of a cycle asks against the order of the ranks.
LEMMA CycleDescends ==
  ASSUME LocksInv, NEW S \in Cycles
  PROVE  \E t \in S : Against(kind[t], Wanted(t))
<1> SUFFICES ASSUME \A t \in S : ~Against(kind[t], Wanted(t)) PROVE FALSE
  OBVIOUS
<1> DEFINE f == [s \in S |-> Rank[Wanted(s)]]
<1>1. S # {}
  BY CyclesAreKnots DEF Knot
<1>2. f \in [S -> 1..12]
  BY CycleMembers, EdgeAsks
<1>3. ASSUME NEW s \in S PROVE \E t \in S : f[s] < f[t]
  <2>1. PICK t \in S : Edge(s, t)
    BY CycleMembers
  <2>2. PICK u \in S : Edge(t, u)
    BY CycleMembers
  <2>3. PICK x : /\ x.row = Wanted(s) /\ x.mode \in 1..4 /\ x.mode + Asked(s).mode > 4
                 /\ Keeps(kind[t], x, Asked(t))
    BY <2>1, <2>2, EdgeFits
  <2>4. Asks(kind[s], Asked(s)) /\ Asked(s).mode \in 1..4
    BY <2>1, EdgeAsks
  <2>5. ~Harmless(x)
    BY <2>3, <2>4 DEF Harmless, Asks, Wanted
  <2>6. ~Against(kind[t], Asked(t).row)
    BY DEF Wanted
  <2>7. Rank[Wanted(s)] < Rank[Wanted(t)]
    BY <2>3, <2>5, <2>6 DEF Keeps, Wanted
  <2> QED BY <2>7
<1> HIDE DEF f
<1> QED BY <1>1, <1>2, <1>3, NoAscent

\* s waits for t at a known wait.
KnownWait(s, t) == t \in WaitsFor(s) /\ <<kind[s], Wanted(s), kind[t]>> \in KnownWaits

\* A member of a cycle that corrects a bank account waits for another one at the numbers.
LEMMA NumbersKnown ==
  ASSUME LocksInv, NEW S \in Cycles, NEW t \in S, kind[t] = "UpdateBankAccount",
         Wanted(t) = "number"
  PROVE  \E u \in S : KnownWait(t, u)
<1>1. PICK u \in S : u \in WaitsFor(t) /\ Edge(t, u)
  BY CycleMembers
<1>2. PICK v \in S : Edge(u, v)
  BY CycleMembers
<1>3. kind[u] = "UpdateBankAccount"
  BY <1>1, <1>2, EdgeFits DEF Keeps
<1> QED BY <1>1, <1>3 DEF KnownWait, KnownWaits

\* A request against the order of the ranks closes a cycle at a known wait.
LEMMA AgainstIsKnown ==
  ASSUME LocksInv, NEW S \in Cycles, NEW t \in S, Against(kind[t], Wanted(t))
  PROVE  \E s \in S : \E u \in S : KnownWait(s, u)
<1>1. PICK s \in S : t \in WaitsFor(s) /\ Edge(s, t)
  BY CycleMembers
<1>2. PICK u \in S : u \in WaitsFor(t) /\ Edge(t, u)
  BY CycleMembers
<1>3. PICK v \in S : v \in WaitsFor(u) /\ Edge(u, v)
  BY CycleMembers
<1>4. PICK w \in S : Edge(v, w)
  BY CycleMembers
<1>5. PICK x : /\ x.row = Wanted(s) /\ x.mode \in 1..4 /\ x.mode + Asked(s).mode > 4
               /\ Keeps(kind[t], x, Asked(t))
  BY <1>1, <1>2, EdgeFits
<1>6. PICK y : /\ y.row = Wanted(t) /\ y.mode \in 1..4 /\ y.mode + Asked(t).mode > 4
               /\ Keeps(kind[u], y, Asked(u))
  BY <1>2, <1>3, EdgeFits
<1>7. PICK z : /\ z.row = Wanted(u) /\ z.mode \in 1..4 /\ z.mode + Asked(u).mode > 4
               /\ Keeps(kind[v], z, Asked(v))
  BY <1>3, <1>4, EdgeFits
<1>8. /\ Asks(kind[s], Asked(s)) /\ Asked(s).mode \in 1..4
      /\ Asks(kind[u], Asked(u)) /\ Asked(u).mode \in 1..4
  BY <1>1, <1>3, EdgeAsks
<1>9. CASE kind[t] = "PayOrderWithWallet" /\ Wanted(t) = "order"
  <2>1. Wanted(s) = "user"
    BY <1>5, <1>9 DEF Keeps, Wanted
  <2>2. kind[s] \in Acceptances
    BY <1>8, <2>1 DEF Asks, Wanted
  <2>3. KnownWait(s, t)
    BY <1>1, <1>9, <2>1, <2>2 DEF KnownWait, KnownWaits, Acceptances
  <2> QED BY <2>3
<1>10. CASE kind[t] = "CreateOrder" /\ Wanted(t) = "order"
  <2>1. Harmless(x) \/ (Wanted(s) = "bank" /\ x.mode = 2)
    BY <1>5, <1>10 DEF Keeps
  <2>2. Wanted(s) = "bank" /\ x.mode = 2
    BY <1>5, <1>8, <2>1 DEF Harmless, Asks, Wanted
  <2>3. kind[s] = "SetPaymentProviderAccountStatus"
    BY <1>5, <1>8, <2>2 DEF Asks, Wanted
  <2>4. KnownWait(s, t)
    BY <1>1, <1>10, <2>2, <2>3 DEF KnownWait, KnownWaits
  <2> QED BY <2>4
<1>11. CASE kind[t] = "ManualAcceptPayment" /\ Wanted(t) = "second_order"
  <2>1. kind[u] = "ManualAcceptPayment"
    BY <1>6, <1>11 DEF Keeps
  <2> QED BY <1>2, <1>11, <2>1 DEF KnownWait, KnownWaits
<1>12. CASE kind[t] = "SetPaymentProviderAccountStatus" /\ Wanted(t) = "bank"
  <2>1. kind[u] \in {"CreateOrder", "CreatePaymentProviderAccount", "UpdateBankAccount"}
    BY <1>6, <1>12 DEF Keeps
  <2>2. CASE kind[u] # "UpdateBankAccount"
    BY <1>2, <1>12, <2>1, <2>2 DEF KnownWait, KnownWaits
  <2>3. CASE kind[u] = "UpdateBankAccount"
    <3>1. Wanted(u) \in {"number", "second_number"}
      BY <1>6, <2>3 DEF Keeps, Wanted
    <3>2. CASE Wanted(u) = "number"
      BY <2>3, <3>2, NumbersKnown
    <3>3. CASE Wanted(u) = "second_number"
      <4>1. kind[v] = "UpdateBankAccount" /\ Wanted(v) = "number"
        BY <1>7, <3>3 DEF Keeps, Wanted
      <4> QED BY <4>1, NumbersKnown
    <3> QED BY <3>1, <3>2, <3>3
  <2> QED BY <2>2, <2>3
<1>13. CASE kind[t] = "UpdateBankAccount" /\ Wanted(t) = "number"
  BY <1>13, NumbersKnown
<1>14. CASE kind[t] = "UpdateProduct" /\ Wanted(t) = "name"
  <2>1. kind[u] = "UpdateProduct" \/ Wanted(u) = "category"
    BY <1>6, <1>14 DEF Keeps, Wanted
  <2>2. Wanted(u) # "category"
    BY <1>7, <1>8 DEF Keeps, Asks, Wanted
  <2> QED BY <1>2, <1>14, <2>1, <2>2 DEF KnownWait, KnownWaits
<1>15. CASE kind[t] = "ImportInventory" /\ Wanted(t) = "line"
  <2>1. kind[u] = "ImportInventory"
    BY <1>6, <1>15 DEF Keeps
  <2> QED BY <1>2, <1>15, <2>1 DEF KnownWait, KnownWaits
<1> QED BY <1>9, <1>10, <1>11, <1>12, <1>13, <1>14, <1>15 DEF Against

\* Every cycle of waiting transactions goes through one of the known waits, whatever the
\* number of connections and of transactions: all other row locks and index entries are
\* taken in one order (see DeadlocksAreKnown).
THEOREM OnlyKnownDeadlocks == Spec => []DeadlocksAreKnown
<1>1. LocksInv => DeadlocksAreKnown
  <2> SUFFICES ASSUME LocksInv, NEW S \in Cycles
               PROVE  \E s \in S : \E t \in S \cap WaitsFor(s) :
                        <<kind[s], Head(program[s]).row, kind[t]>> \in KnownWaits
    BY DEF DeadlocksAreKnown
  <2>1. PICK t \in S : Against(kind[t], Wanted(t))
    BY CycleDescends
  <2>2. PICK s \in S, u \in S : KnownWait(s, u)
    BY <2>1, AgainstIsKnown
  <2> QED BY <2>2 DEF KnownWait, Wanted, Asked
<1> QED BY <1>1, LocksInit, LocksStep, PTL DEF Spec
=============================================================================
