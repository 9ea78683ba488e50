-------------------------------- MODULE Market --------------------------------
(***************************************************************************)
(* What the trading of players promises: gold and goods change hands, and    *)
(* nothing of them appears or is lost on the way. An account has a purse, a  *)
(* bag and a mailbox; offers wait at the auction; one house has a safe.      *)
(* Nothing is said about tables, statements and who is online: to save, to   *)
(* load and to restart the server are steps that change nothing here. The    *)
(* implementation says when the trade is no longer trusted, after a failure  *)
(* or an order of steps it does not guard against; then anything may happen. *)
(***************************************************************************)
EXTENDS Integers, BagsExt, Bags, FiniteSetsExt

CONSTANTS Accounts,
          Nobody,
          Prices,
          Tax(_),        \* of an offer, by its price
          Commission(_), \* of a deposit
          Fee            \* of the house

VARIABLES purse,   \* gold of an account
          bag,     \* goods of an account; one at most
          offers,  \* a bag of [owner, price]
          letters, \* a bag of [to, gold, goods]
          house,   \* [owner, safe]
          trusted

market == <<purse, bag, offers, letters, house>>
vars == <<market, trusted>>

Letter(a, gold, goods) == [to |-> a, gold |-> gold, goods |-> goods]

Init ==
  /\ purse \in [Accounts -> Nat] /\ bag \in [Accounts -> 0..1]
  /\ \A o \in BagToSet(offers) : o.owner \in Accounts
  /\ \A l \in BagToSet(letters) : l.to \in Accounts
  /\ house.owner \in Accounts \cup {Nobody} /\ house.safe \in Nat
  /\ trusted = TRUE

\* The tax is due if and only if the offer stands.
Offer(a, price) ==
  /\ bag[a] = 1 /\ purse[a] >= Tax(price)
  /\ bag' = [bag EXCEPT ![a] = 0]
  /\ purse' = [purse EXCEPT ![a] = @ - Tax(price)]
  /\ offers' = BagAdd(offers, [owner |-> a, price |-> price])
  /\ UNCHANGED <<letters, house>>

Cancel(o) ==
  /\ offers' = BagRemove(offers, o)
  /\ letters' = BagAdd(letters, Letter(o.owner, 0, 1))
  /\ UNCHANGED <<purse, bag, house>>

\* An offer is sold once: gold for its owner, goods for the buyer.
Buy(a, o) ==
  /\ a # o.owner /\ purse[a] >= o.price
  /\ purse' = [purse EXCEPT ![a] = @ - o.price]
  /\ offers' = BagRemove(offers, o)
  /\ letters' = BagAdd(BagAdd(letters, Letter(o.owner, o.price, 0)), Letter(a, 0, 1))
  /\ UNCHANGED <<bag, house>>

\* A letter is paid out once; goods there is no room for go into another one.
Claim(l) ==
  LET a == l.to
      room == bag[a] = 0
      rest == BagRemove(letters, l)
  IN
  /\ purse' = [purse EXCEPT ![a] = @ + l.gold]
  /\ bag' = IF room THEN [bag EXCEPT ![a] = l.goods] ELSE bag
  /\ letters' = IF room \/ l.goods = 0 THEN rest ELSE BagAdd(rest, Letter(a, 0, l.goods))
  /\ UNCHANGED <<offers, house>>

\* An account throws letters of its own away, with what is in them.
Discard(a) ==
  /\ letters' \sqsubseteq letters
  /\ \A l \in BagToSet(letters) : l.to # a => BagIn(l, letters') /\ letters'[l] = letters[l]
  /\ UNCHANGED <<purse, bag, offers, house>>

Deposit(a) ==
  /\ \E gold \in 1..purse[a] : purse' = [purse EXCEPT ![a] = @ - Commission(gold)]
  /\ UNCHANGED <<bag, offers, letters, house>>

\* One house of one owner, and it starts with an empty safe.
Acquire(a) ==
  /\ house.owner = Nobody /\ purse[a] >= Fee
  /\ house' = [owner |-> a, safe |-> 0]
  /\ purse' = [purse EXCEPT ![a] = @ - Fee]
  /\ UNCHANGED <<bag, offers, letters>>

\* Between the purse and the safe of one's own house, in either direction.
Move(a) ==
  /\ house.owner = a
  /\ \E gold \in (-house.safe)..purse[a] :
       /\ purse' = [purse EXCEPT ![a] = @ - gold]
       /\ house' = [house EXCEPT !.safe = @ + gold]
  /\ UNCHANGED <<bag, offers, letters>>

PayRent ==
  /\ house.owner # Nobody
  /\ \E gold \in 1..house.safe : house' = [house EXCEPT !.safe = @ - gold]
  /\ UNCHANGED <<purse, bag, offers, letters>>

\* The owner gets what was in the safe, and one gold when it was empty.
Release ==
  /\ house.owner # Nobody
  /\ letters' = BagAdd(letters, Letter(house.owner, Max({1, house.safe}), 0))
  /\ house' = [owner |-> Nobody, safe |-> 0]
  /\ UNCHANGED <<purse, bag, offers>>

Step ==
  \/ \E a \in Accounts :
       \/ \E price \in Prices : Offer(a, price)
       \/ \E o \in BagToSet(offers) : Buy(a, o)
       \/ Discard(a) \/ Deposit(a) \/ Acquire(a) \/ Move(a)
  \/ \E o \in BagToSet(offers) : Cancel(o)
  \/ \E l \in BagToSet(letters) : Claim(l)
  \/ PayRent \/ Release

Next == IF trusted' THEN trusted /\ Step ELSE TRUE

Spec == Init /\ [][Next]_vars
=============================================================================
