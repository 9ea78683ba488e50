-------------------------------- MODULE Trade --------------------------------
(***************************************************************************)
(* How gold and goods change hands between accounts: the currency of         *)
(* CAccountData, the auction (CAuctionManager), the mailbox (MailWrapper,    *)
(* CMailboxManager), the bank and a house with its safe (CHouse,             *)
(* CBankManager). The game thread changes its memory and queues one          *)
(* statement for every row it has changed; the workers of the pool execute   *)
(* them in any order. Letters live in the table only.                        *)
(*                                                                         *)
(* Goods are one item that does not stack and can be traded: a title, or an  *)
(* item that can be neither dropped nor traded, becomes material instead of  *)
(* a letter when it is claimed twice, which is left out. A rent may end at   *)
(* any moment, and the capacity of the hand is any of Capacities whenever it *)
(* is asked for: equipment and profession change it. An account that is      *)
(* offline keeps in acct what its player left with; what loads it is the     *)
(* table.                                                                    *)
(*                                                                         *)
(* Ghost: clean is FALSE once one of these has happened, which no code       *)
(* guards against, and nothing is promised after that:                       *)
(*   - two statements on one row were executed out of order (Execute, Retry);  *)
(*   - a letter was sent twice by a retry (Retry);                             *)
(*   - a statement was dropped (GiveUp) or died with the process (Restart);    *)
(*   - a slot got the ID of another one (CreateSlot);                          *)
(*   - a letter was claimed again before its DELETE was executed (AcceptMail); *)
(*   - an account was loaded before its statements were executed, or its       *)
(*     items were not (LogIn).                                                 *)
(* Some of them need a failure of the database or of the process; out of     *)
(* order, a used ID, claimed again and loaded too early do not.              *)
(***************************************************************************)
EXTENDS Integers, SequencesExt, FiniteSetsExt

CONSTANTS Accounts, Nobody,
          Prices,          \* of an auction slot
          Amounts,         \* of gold, in the commands of a player
          Capacities,      \* what GetGoldCapacity may say
          TaxRate,         \* sv_auction_slot_tax_rate
          CommissionRate,  \* sv_bank_commission_rate
          InitialFee, RentPrice,        \* of the house
          MaxPlayerSlots,  \* sv_max_player_auction_slots
          MaxSlots,        \* sv_max_auction_slots
          MinDeposit, MinSafe,          \* 100 in the code
          Wealth,          \* what accounts may start with
          Plans, MaxQueue  \* bounds: the commands given in a behaviour are of one of these
                           \* parts of the trade, so many, with so many faults

ASSUME TradeAssumption ==
  /\ Nobody \notin Accounts
  /\ Prices \subseteq Nat \ {0} /\ Amounts \subseteq Nat \ {0} /\ Capacities \subseteq Nat
  /\ CommissionRate \in 0..100
  /\ {TaxRate, InitialFee, RentPrice, MaxPlayerSlots, MaxSlots,
      MinDeposit, MinSafe, MaxQueue} \subseteq Nat
  /\ Plans \subseteq [parts : SUBSET {"auction", "mail", "letters", "bank", "house"}, calls : Nat, faults : Nat]
  /\ Wealth \subseteq [hand : Nat, bank : Nat, bag : 0..1]

VARIABLES acct,   \* m_Value of itGold and of the goods, m_Bank
          online,
          slots,  \* CAuctionSlot::Data()
          house,  \* m_AccountID and the bank of the house
          table,  \* the rows of the tables, and AUTO_INCREMENT of the mailbox
          queue,  \* statements in the pool
          plan, calls, faults, clean

vars == <<acct, online, slots, house, table, queue, plan, calls, faults, clean>>

Percent(x, rate) == (x * rate) \div 100
GetTaxPrice(price) == Max({1, Percent(price, TaxRate)})
Commission(gold) == Percent(gold, CommissionRate)

Letter(a, gold, goods) == [to |-> a, gold |-> gold, goods |-> goods]

Init ==
  /\ acct \in [Accounts -> Wealth]
  /\ online = Accounts /\ slots = <<>>
  /\ house = [owner |-> Nobody, safe |-> 0]
  /\ \E a \in Accounts :
       table = [acct |-> acct, slots |-> {}, house |-> house, next |-> 2,
                mail |-> {[id |-> 1, letter |-> Letter(a, 1, 1), read |-> FALSE]}]
  /\ queue = <<>> /\ plan \in Plans /\ calls = 0 /\ faults = 0 /\ clean = TRUE

-----------------------------------------------------------------------------
(* Statements *)

Statement(op, row, val) == [op |-> op, row |-> row, val |-> val]
Save(a, field, v) == Statement("set", <<field, a>>, v)

Pending(op, row) == \E i \in 1..Len(queue) : queue[i].op = op /\ queue[i].row = row

\* Letters are only named by those who have seen their row.
InOrder(s) == s.op \in {"set", "safe", "insert", "delete"}

After(t, s) ==
  CASE s.op = "set" /\ s.row = <<"house">> -> [t EXCEPT !.house = s.val]
    [] s.op = "set" /\ s.row # <<"house">> -> [t EXCEPT !.acct[s.row[2]][s.row[1]] = s.val]
    [] s.op = "safe" -> [t EXCEPT !.house.safe = s.val]
    [] s.op = "insert" -> [t EXCEPT !.slots = @ \cup {s.val}]
    [] s.op = "delete" -> [t EXCEPT !.slots = {slot \in @ : slot.id # s.val}]
    [] s.op = "send" -> [t EXCEPT !.mail = @ \cup {[id |-> t.next, letter |-> s.val, read |-> FALSE]},
                                  !.next = @ + 1]
    [] s.op = "remove" -> [t EXCEPT !.mail = {m \in @ : m.id # s.val}]
    [] s.op = "read" -> [t EXCEPT !.mail = {[m EXCEPT !.read = @ \/ m.id = s.val] : m \in t.mail}]
    [] s.op = "purge" -> [t EXCEPT !.mail = {m \in @ : ~(m.letter.to = s.val /\ m.read)}]

\* A worker executes a statement. Nothing keeps the order of two on one row.
Execute(i) ==
  /\ table' = After(table, queue[i])
  /\ queue' = RemoveAt(queue, i)
  /\ clean' = (clean /\ ~(InOrder(queue[i]) /\ \E j \in 1..(i - 1) : queue[j].row = queue[i].row))
  /\ UNCHANGED <<acct, online, slots, house, plan, calls, faults>>

\* The connection breaks, before the statement takes effect or after that, and
\* the statement goes to the back: it may overtake, or send a letter twice. A
\* slot is not inserted twice: ID is the primary key.
Retry(i) ==
  /\ faults < plan.faults /\ faults' = faults + 1
  /\ \E took \in BOOLEAN :
       /\ table' = IF took THEN After(table, queue[i]) ELSE table
       /\ clean' = (clean /\ ~(took /\ queue[i].op = "send")
                          /\ ~(InOrder(queue[i]) /\ \E j \in 1..Len(queue) : j # i /\ queue[j].row = queue[i].row))
  /\ queue' = Append(RemoveAt(queue, i), queue[i])
  /\ UNCHANGED <<acct, online, slots, house, plan, calls>>

\* Retries exhausted: the statement is dropped.
GiveUp(i) ==
  /\ queue' = RemoveAt(queue, i)
  /\ clean' = (clean /\ queue[i].op \in {"read", "purge"})
  /\ UNCHANGED <<acct, online, slots, house, table, plan, calls, faults>>

-----------------------------------------------------------------------------
(* The currency of an account; p is the account with the statements so far *)

Player(a) == [hand |-> acct[a].hand, bank |-> acct[a].bank, bag |-> acct[a].bag, sql |-> <<>>]
Put(a, p, field, v) == [p EXCEPT ![field] = v, !.sql = Append(@, Save(a, field, v))]

AddGoldToBank(a, p, v) == Put(a, p, "bank", p.bank + v)

\* CPlayerItem::Add: gold over the capacity goes to the bank, also what was
\* over it before.
Add(a, p, v, capacity) ==
  LET over == Max({0, p.hand + v - capacity})
      q == IF over > 0 THEN AddGoldToBank(a, p, over) ELSE p
  IN IF v < 1 THEN p ELSE Put(a, q, "hand", p.hand + v - over)

RemoveGold(a, p, v) == IF Min({v, p.hand}) < 1 THEN p ELSE Put(a, p, "hand", p.hand - Min({v, p.hand}))

\* Variant: hand and bank are not counted.
CanSpendAnyway(p, price) == TRUE
CanSpend(p, price) == p.hand + p.bank >= price

\* Variant: the bank is not saved.
SpendCurrencyUnsaved(a, p, price) ==
  [RemoveGold(a, p, price) EXCEPT !.bank = @ - (price - Min({price, p.hand}))]

\* From the hand first, then from the bank.
SpendCurrency(a, p, price) ==
  LET rest == price - Min({price, p.hand})
      q == RemoveGold(a, p, price)
  IN IF rest > 0 THEN AddGoldToBank(a, q, -rest) ELSE q

\* A command is over: the account is as in p, and its statements are queued.
Done(a, p, more) ==
  /\ calls < plan.calls /\ calls' = calls + 1
  /\ acct' = [acct EXCEPT ![a] = [hand |-> p.hand, bank |-> p.bank, bag |-> p.bag]]
  /\ queue' = queue \o p.sql \o more /\ Len(queue') <= MaxQueue
  /\ UNCHANGED <<online, plan, faults>>

-----------------------------------------------------------------------------
(* Auction *)

Send(a, gold, goods) == Statement("send", <<"mail">>, Letter(a, gold, goods))

Ids == {slots[i].id : i \in DOMAIN slots}
GetSlot(id) == SelectInSeq(slots, LAMBDA slot : slot.id = id)
GetSlotsCountByAccountID(a) == Cardinality({i \in DOMAIN slots : slots[i].owner = a})

\* Variant: the amount is not checked again when the menu is confirmed.
MayOfferAnyway(a) == TRUE
MayOffer(a) == acct[a].bag >= 1

\* The ID comes from the table: a slot whose INSERT is still queued, or a query
\* that failed, makes it one that is in use.
CreateSlot(a, price) ==
  LET tax == GetTaxPrice(price)
      p == SpendCurrency(a, Player(a), tax)
  IN
  /\ MayOffer(a)
  /\ GetSlotsCountByAccountID(a) < MaxPlayerSlots /\ Len(slots) < MaxSlots
  /\ CanSpend(Player(a), tax)
  /\ IF p.bag < 1 THEN Done(a, p, <<>>) /\ UNCHANGED <<slots, clean>>
     ELSE \E ok \in BOOLEAN :
       LET id == IF ok THEN 1 + Max({0} \cup {slot.id : slot \in table.slots}) ELSE 1
           slot == [id |-> id, owner |-> a, price |-> price]
       IN /\ slots' = Append(slots, slot)
          /\ clean' = (clean /\ id \notin Ids)
          /\ Done(a, Put(a, p, "bag", 0), <<Statement("insert", <<"slot", id>>, slot)>>)
  /\ UNCHANGED <<house, table>>

\* Variant: the row stays.
DeleteSlotNothing(id) == <<>>
DeleteSlot(id) == <<Statement("delete", <<"slot", id>>, id)>>
RemoveSlotByID(id) == slots' = RemoveAt(slots, GetSlot(id))

CancelSlot(a, id) ==
  /\ slots[GetSlot(id)].owner = a
  /\ RemoveSlotByID(id)
  /\ Done(a, Player(a), <<Send(a, 0, 1)>> \o DeleteSlot(id))
  /\ UNCHANGED <<house, table, clean>>

BuySlot(a, id) ==
  LET slot == slots[GetSlot(id)]
  IN
  /\ slot.owner # a /\ CanSpend(Player(a), slot.price)
  /\ RemoveSlotByID(id)
  /\ Done(a, SpendCurrency(a, Player(a), slot.price),
          <<Send(slot.owner, slot.price, 0), Send(a, 0, 1)>> \o DeleteSlot(id))
  /\ UNCHANGED <<house, table, clean>>

-----------------------------------------------------------------------------
(* Mailbox *)

RemoveMail(m) == Statement("remove", <<"mail", m.id>>, m.id)

\* Variant: the letter stays.
DeleteMailNothing(m) == <<>>
DeleteMail(m) == <<RemoveMail(m)>>
Deleted(m) == Pending("remove", <<"mail", m.id>>)

\* What is in the letter is taken, but for goods the player already has. While
\* the DELETE of a letter is queued its row is still there to be claimed.
AcceptMail(a, m, capacity) ==
  LET l == m.letter
      refused == l.goods = 1 /\ acct[a].bag = 1
      paid == Add(a, Player(a), l.gold, capacity)
      p == IF l.goods = 1 /\ ~refused THEN Put(a, paid, "bag", 1) ELSE paid
  IN
  /\ l.to = a /\ (l.gold > 0 \/ (l.goods = 1 /\ ~refused))
  /\ Done(a, p, (IF refused THEN <<Send(a, 0, 1)>> ELSE <<>>) \o DeleteMail(m))
  /\ clean' = (clean /\ ~Deleted(m))
  /\ UNCHANGED <<slots, house, table>>

\* A letter is opened, which marks it, or deleted; or all marked ones are deleted.
ReadOrDelete(a) ==
  /\ \/ \E m \in table.mail :
          /\ m.letter.to = a
          /\ \/ Done(a, Player(a), <<Statement("read", <<"mail", m.id>>, m.id)>>)
             \/ Done(a, Player(a), <<RemoveMail(m)>>)
     \/ Done(a, Player(a), <<Statement("purge", <<"box", a>>, a)>>)
  /\ UNCHANGED <<slots, house, table, clean>>

-----------------------------------------------------------------------------
(* Bank and house *)

BankDeposit(a, v) ==
  /\ acct[a].hand > MinDeposit /\ acct[a].hand >= v
  /\ Done(a, AddGoldToBank(a, RemoveGold(a, Player(a), v), v - Commission(v)), <<>>)
  /\ UNCHANGED <<slots, house, table, clean>>

\* Equipment has changed: what is over the capacity goes to the bank. It may also
\* be over it for a while, when the profession changes or the player is dead.
UpdateEquippedStats(a, capacity) ==
  LET over == acct[a].hand - capacity
  IN
  /\ over > 0
  /\ Done(a, RemoveGold(a, AddGoldToBank(a, Player(a), over), over), <<>>)
  /\ UNCHANGED <<slots, house, table, clean>>

SaveSafe(v) == Statement("safe", <<"house">>, v)
SaveHouse(h) == Statement("set", <<"house">>, h)

\* Variant: the bank of the house is not reset.
SoldAs(h) == [owner |-> Nobody, safe |-> h.safe]
Sold(h) == [owner |-> Nobody, safe |-> 0]

Buy(a) ==
  LET h == [owner |-> a, safe |-> 0]
  IN
  /\ house.owner = Nobody /\ CanSpend(Player(a), InitialFee)
  /\ house' = h
  /\ Done(a, SpendCurrency(a, Player(a), InitialFee), <<SaveHouse(h)>>)
  /\ UNCHANGED <<slots, table, clean>>

\* By the owner, or because the rent has ended.
Sell ==
  /\ house.owner # Nobody
  /\ house' = Sold(house)
  /\ Done(house.owner, Player(house.owner),
          <<Send(house.owner, Max({1, house.safe}), 0), SaveHouse(Sold(house))>>)
  /\ UNCHANGED <<slots, table, clean>>

SafeAdd(a, v) ==
  /\ house.owner = a /\ v >= MinSafe /\ CanSpend(Player(a), v)
  /\ house' = [house EXCEPT !.safe = @ + v]
  /\ Done(a, SpendCurrency(a, Player(a), v), <<SaveSafe(house.safe + v)>>)
  /\ UNCHANGED <<slots, table, clean>>

SafeTake(a, v, capacity) ==
  LET w == Min({v, house.safe})
  IN
  /\ house.owner = a /\ v >= MinSafe /\ w > 0
  /\ house' = [house EXCEPT !.safe = @ - w]
  /\ Done(a, Add(a, Player(a), w, capacity), <<SaveSafe(house.safe - w)>>)
  /\ UNCHANGED <<slots, table, clean>>

ExtendRentDays(a, days) ==
  LET price == RentPrice * days
  IN
  /\ house.owner = a /\ house.safe > 0 /\ house.safe >= price
  /\ house' = [house EXCEPT !.safe = @ - price]
  /\ Done(a, Player(a), <<SaveSafe(house.safe - price)>>)
  /\ UNCHANGED <<slots, table, clean>>

-----------------------------------------------------------------------------
(* Players and the server come and go *)

Leave(a) ==
  /\ a \in online /\ faults < plan.faults /\ faults' = faults + 1
  /\ online' = online \ {a}
  /\ UNCHANGED <<acct, slots, house, table, queue, plan, calls, clean>>

\* The account is loaded while a statement of its own is queued, or the query
\* for its items fails: it has what the query says.
LogIn(a) ==
  /\ a \notin online /\ online' = online \cup {a}
  /\ \E ok \in BOOLEAN :
       /\ acct' = [acct EXCEPT ![a] = IF ok THEN table.acct[a] ELSE [table.acct[a] EXCEPT !.hand = 0, !.bag = 0]]
       /\ clean' = (clean /\ ok /\ ~\E field \in {"hand", "bank", "bag"} : Pending("set", <<field, a>>))
  /\ UNCHANGED <<slots, house, table, queue, plan, calls, faults>>

\* The server starts again with what is in the tables, slots in any order.
Restart ==
  /\ faults < plan.faults /\ faults' = faults + 1
  /\ online' = {} /\ house' = table.house
  /\ slots' \in SetToSeqs(table.slots)
  /\ queue' = <<>>
  /\ clean' = (clean /\ \A i \in 1..Len(queue) : queue[i].op \in {"read", "purge"})
  /\ UNCHANGED <<acct, table, plan, calls>>

Command(a) ==
  \/ /\ "auction" \in plan.parts
     /\ \/ \E price \in Prices : CreateSlot(a, price)
        \/ \E id \in Ids : CancelSlot(a, id) \/ BuySlot(a, id)
  \/ /\ "mail" \in plan.parts
     /\ \E m \in table.mail, capacity \in Capacities : AcceptMail(a, m, capacity)
  \/ "letters" \in plan.parts /\ ReadOrDelete(a)
  \/ /\ "bank" \in plan.parts
     /\ \/ \E v \in Amounts : BankDeposit(a, v)
        \/ \E capacity \in Capacities : UpdateEquippedStats(a, capacity)
  \/ /\ "house" \in plan.parts
     /\ \/ Buy(a)
        \/ \E v \in Amounts : SafeAdd(a, v) \/ ExtendRentDays(a, v)
        \/ \E v \in Amounts, capacity \in Capacities : SafeTake(a, v, capacity)

Next ==
  \/ \E i \in 1..Len(queue) : Execute(i) \/ Retry(i) \/ GiveUp(i)
  \/ \E a \in online : Command(a) \/ Leave(a)
  \/ \E a \in Accounts : LogIn(a)
  \/ Sell
  \/ Restart

Spec == Init /\ [][Next]_vars

-----------------------------------------------------------------------------
(* Properties *)

Slots == [id : Nat, owner : Accounts, price : Prices]
Houses == [owner : Accounts \cup {Nobody}, safe : Nat]
Owned == [hand : Nat, bank : Nat, bag : 0..1]

\* Nobody is in debt, neither in memory nor in the table: SpendCurrency takes from
\* the bank what the hand lacks, and a safe is not taken from below zero. No code
\* keeps gold in the hand within the capacity, and this does not say so.
TypeOK ==
  /\ acct \in [Accounts -> Owned] /\ table.acct \in [Accounts -> Owned]
  /\ online \subseteq Accounts
  /\ slots \in Seq(Slots) /\ table.slots \subseteq Slots
  /\ house \in Houses /\ table.house \in Houses
  /\ clean \in BOOLEAN

\* When nothing is queued the tables hold what the memory holds: the server may
\* be stopped there, and no trade is half written, as long as none of the causes
\* above has ended what can be promised.
TableFollows ==
  clean /\ queue = <<>> =>
    /\ table.acct = acct /\ table.house = house
    /\ table.slots = ToSet(slots)

\* The bag of the values of f.
BagOf(f) == [v \in Range(f) |-> Cardinality({x \in DOMAIN f : f[x] = v})]

\* The letters that can still be paid out: rows nobody has asked to delete, and
\* letters on their way to the table.
Rows == [m \in {m \in table.mail : ~Deleted(m)} |-> m.letter]
Sent == [i \in {i \in 1..Len(queue) : queue[i].op = "send"} |-> queue[i].val]
Offers == [i \in 1..Len(slots) |-> [owner |-> slots[i].owner, price |-> slots[i].price]]

M == INSTANCE Market WITH
  Tax <- GetTaxPrice, Fee <- InitialFee,
  purse <- [a \in Accounts |-> acct[a].hand + acct[a].bank],
  bag <- [a \in Accounts |-> acct[a].bag],
  offers <- BagOf(Offers),
  letters <- BagOf(Rows) (+) BagOf(Sent),
  trusted <- clean

\* Every step of commands, statements, players who leave and restarts moves gold
\* and goods as the market promises or not at all: no offer is sold twice, no tax
\* is taken for nothing and nothing is lost between hand, bank, safe, slot and
\* letter, until the first of the causes that end clean. Those are real: a letter
\* claimed again before its DELETE is executed is paid out twice, two slots with
\* one ID leave one row, a statement that overtakes, is dropped, dies with the
\* process or sends a letter twice doubles or loses gold. This shows that nothing
\* else does.
ImplementsMarket == M!Spec
=============================================================================
