------------------------------ MODULE Pricing ------------------------------
(***************************************************************************)
(* What the SDK computes about prices: the mirrors of OnRe's price vector  *)
(* and of its two conversions, and the floor a wallet signs.               *)
(* The signing client and the cranker evaluate the same functions at       *)
(* different times; OnRe evaluates its own when the swap executes.         *)
(***************************************************************************)
EXTENDS Naturals, Sequences

CONSTANTS
  BaseUnit,         \* 10^baseDecimals
  AssetUnit,        \* 10^onycDecimals
  PriceDenominator, \* ONRE_PRICE_DENOMINATOR
  YearlyScale       \* ONRE_APR_SCALE * ONRE_SECONDS_IN_YEAR

ASSUME PricingAssumption ==
  /\ BaseUnit \in Nat \ {0} /\ AssetUnit \in Nat \ {0}
  /\ PriceDenominator \in Nat \ {0} /\ YearlyScale \in Nat \ {0}

BPS_DENOMINATOR == 10000

(* parseActiveOfferVector: of the vectors that have started, the one that  *)
(* started last; an unused slot has a start_time of 0. An offer with none  *)
(* makes the caller throw.                                                 *)
Started(offer, now) ==
  { i \in 1 .. Len(offer) : offer[i].start_time # 0 /\ offer[i].start_time <= now }
parseActiveOfferVector(offer, now) ==
  offer[CHOOSE i \in Started(offer, now) :
          \A j \in Started(offer, now) :
            \/ offer[j].start_time < offer[i].start_time
            \/ offer[j].start_time = offer[i].start_time /\ i <= j]

(* calculateStepPrice: the price at the end of the current step. *)
StepStartPrice(v, now) ==   \* mutation: the price at the start of the step
  LET step == (now - v.base_time) \div v.price_fix_duration
  IN  (v.base_price * (YearlyScale + v.apr * step * v.price_fix_duration)) \div YearlyScale
calculateStepPrice(v, now) ==
  LET step == (now - v.base_time) \div v.price_fix_duration
      stepEnd == (step + 1) * v.price_fix_duration
  IN  (v.base_price * (YearlyScale + v.apr * stepEnd)) \div YearlyScale

SpotPrice(offer, now) == calculateStepPrice(parseActiveOfferVector(offer, now), now)

(* depositExpectedOut, redemptionExpectedOut: rounded down, as OnRe does. *)
depositExpectedOut(amount, price) ==
  (amount * AssetUnit * PriceDenominator) \div (price * BaseUnit)
redemptionExpectedOut(amount, price) ==
  (amount * price * BaseUnit) \div (AssetUnit * PriceDenominator)

(* computeMinSwapOut: the floor the wallet signs. The fee of a withdrawal  *)
(* is taken from its input first. A zero floor makes the client throw.     *)
computeMinSwapOut(direction, amount, price, slippageBps, withdrawFeeBps) ==
  LET net == amount - (amount * withdrawFeeBps) \div BPS_DENOMINATOR
      gross == IF direction = "Deposit" THEN depositExpectedOut(amount, price)
               ELSE redemptionExpectedOut(net, price)
  IN  (gross * (BPS_DENOMINATOR - slippageBps)) \div BPS_DENOMINATOR

=============================================================================
