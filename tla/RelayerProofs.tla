--------------------------- MODULE RelayerProofs ---------------------------
(* Proofs about the relayer program for every set of messages, pairs and   *)
(* wallets, every fee setting up to the cap and every router.              *)
EXTENDS Relayer, UnitSumsTheorems

LEMMA TransferType ==
  ASSUME NEW m \in Message
  PROVE  /\ Transfer[m].token \in Token
         /\ Transfer[m].to \in InboxAuthority
         /\ Transfer[m].amount \in Nat \ {0}
         /\ <<Transfer[m].to, Transfer[m].token>> \in InboxAccount
BY RelayerAssumption DEF InboxAccount

LEMMA TokenOfLeg ==
  ASSUME NEW p \in Pair, NEW d \in Direction
  PROVE  /\ RecvToken(p, d) \in Token
         /\ SendToken(p, d) \in Token
         /\ RecvToken(p, d) # SendToken(p, d)
BY DEF RecvToken, SendToken, Token, Direction, Side

LEMMA HeldInType ==
  ASSUME NEW f \in FlowRecord
  PROVE  HeldIn(f) \in Token
BY TokenOfLeg DEF HeldIn, FlowRecord

(* floor(gross * bps / BPS) is natural and at most gross, and what is left *)
(* is at least the gross less the capped share (state.rs, apply_fee_bps).  *)
LEMMA FeeBounds ==
  ASSUME NEW gross \in Nat, NEW bps \in 0 .. MAX_FEE_BPS
  PROVE  /\ FeeOf(gross, bps) \in Nat
         /\ FeeOf(gross, bps) <= gross
         /\ (gross - FeeOf(gross, bps)) * BPS >= gross * (BPS - MAX_FEE_BPS)
<1>1. MAX_FEE_BPS \in 0 .. 9999
  BY RelayerAssumption DEF BPS
<1>2. PICK x \in Nat : x = gross * bps
  BY <1>1
<1>3. PICK y \in Nat : y = gross * MAX_FEE_BPS
  BY <1>1
<1>4. x <= y /\ y <= gross * 10000
  BY <1>1, <1>2, <1>3
<1>5. PICK q \in Nat : q = x \div 10000
  OBVIOUS
<1>6. q * 10000 <= x
  BY <1>5
<1>7. q <= gross
  BY <1>4, <1>6
<1>8. gross * (10000 - MAX_FEE_BPS) = gross * 10000 - y
  BY <1>1, <1>3
<1>9. (gross - q) * 10000 >= gross * 10000 - y
  BY <1>4, <1>6
<1>. QED  BY <1>2, <1>5, <1>7, <1>8, <1>9 DEF FeeOf, BPS

(* What the arithmetic of `swap` yields for a flow and an output. *)
LEMMA SwapFees ==
  ASSUME TypeOK, NEW f \in FlowRecord, NEW out \in Nat
  PROVE  /\ FeeIn(f) \in Nat /\ FeeIn(f) <= f.amount
         /\ FeeOut(f, out) \in Nat /\ FeeOut(f, out) <= out
         /\ (out - FeeOut(f, out)) * BPS >= out * (BPS - MAX_FEE_BPS)
<1>1. /\ f.amount \in Nat
      /\ fees[f.pair].deposit \in 0 .. MAX_FEE_BPS
      /\ fees[f.pair].withdraw \in 0 .. MAX_FEE_BPS
  BY DEF TypeOK, FeeSetting, FlowRecord
<1>2. MAX_FEE_BPS \in 0 .. 9999
  BY RelayerAssumption DEF BPS
<1>3. FeeIn(f) \in Nat /\ FeeIn(f) <= f.amount
  BY <1>1, FeeBounds DEF FeeIn
<1>4. /\ FeeOf(out, fees[f.pair].deposit) \in Nat
      /\ FeeOf(out, fees[f.pair].deposit) <= out
      /\ (out - FeeOf(out, fees[f.pair].deposit)) * BPS >= out * (BPS - MAX_FEE_BPS)
  BY <1>1, FeeBounds, Zenon
<1>5. CASE f.direction = "Deposit"
  BY <1>3, <1>4, <1>5 DEF FeeOut
<1>6. CASE f.direction # "Deposit"
  <2>1. (out - 0) * BPS >= out * (BPS - MAX_FEE_BPS)
    BY <1>2 DEF BPS
  <2>. QED  BY <1>3, <1>6, <2>1 DEF FeeOut
<1>. QED  BY <1>5, <1>6

(* The trim of an outbound transfer leaves less than one unit behind       *)
(* (min-out.ts, applyNttTrim).                                             *)
LEMMA TrimBounds ==
  ASSUME NEW n \in Nat, NEW u \in Nat \ {0}
  PROVE  /\ applyNttTrim(n, u) \in Nat
         /\ applyNttTrim(n, u) <= n
         /\ n - applyNttTrim(n, u) < u
<1>1. PICK q \in Int : q = n \div u
  OBVIOUS
<1>2. n = u * q + (n % u)
  BY <1>1
<1>3. n % u \in 0 .. u - 1
  OBVIOUS
<1>4. q \in Nat
  BY <1>2, <1>3
<1>5. q * u = u * q /\ u * q \in Nat
  BY <1>4
<1>. QED  BY <1>1, <1>2, <1>3, <1>5 DEF applyNttTrim

(* What `send` or `refund` of a flow bridges back. *)
Sent(f) == applyNttTrim(f.amount, TrimUnit[HeldIn(f)])

LEMMA SentBounds ==
  ASSUME NEW f \in FlowRecord
  PROVE  /\ HeldIn(f) \in Token /\ f.amount \in Nat
         /\ Sent(f) \in Nat /\ Sent(f) <= f.amount
         /\ f.amount - Sent(f) < TrimUnit[HeldIn(f)]
<1>1. HeldIn(f) \in Token /\ f.amount \in Nat
  BY HeldInType DEF FlowRecord
<1>2. TrimUnit[HeldIn(f)] \in Nat \ {0}
  BY <1>1, RelayerAssumption
<1>. QED  BY <1>1, <1>2, TrimBounds DEF Sent

(* The assignments of BridgeBack. *)
LEMMA BridgeBackStep ==
  ASSUME TypeOK, NEW m \in Message, BridgeBack(m)
  PROVE  /\ ata[HeldIn(flow[m])] >= Sent(flow[m])
         /\ ata' = [ata EXCEPT ![HeldIn(flow[m])] = @ - Sent(flow[m])]
         /\ paid' = [paid EXCEPT ![<<flow[m].recipient, HeldIn(flow[m])>>] = @ + Sent(flow[m])]
         /\ dust' = [dust EXCEPT ![HeldIn(flow[m])] = @ + (flow[m].amount - Sent(flow[m]))]
         /\ flow' = [flow EXCEPT ![m] = NoFlow]
         /\ UNCHANGED <<inbox, parked, feeVault, fees, slot, gifts, opened, drawn>>
BY DEF BridgeBack, Sent

(***************************************************************************)
(* Type correctness                                                        *)
(***************************************************************************)

LEMMA TypeInit == Init => TypeOK
<1> SUFFICES ASSUME Init  PROVE TypeOK
  OBVIOUS
<1>1. fees \in [Pair -> FeeSetting]
  BY RelayerAssumption DEF Init
<1>2. paid \in [Wallet \X Token -> Nat]
  BY DEF Init
<1>. QED
  BY <1>1, <1>2 DEF Init, TypeOK

LEMMA TypeOpenFlow ==
  ASSUME TypeOK, NEW m \in Message, NEW p \in Pair, NEW d \in Direction,
         NEW w, NEW floor, NEW balance \in Nat,
         <<<<w, floor>>, RecvToken(p, d)>> \in InboxAccount,
         inbox' \in [Message -> {"absent", "delayed", "released"}],
         OpenFlow(m, p, d, w, floor, balance)
  PROVE  TypeOK'
<1>1. Transfer[m].amount \in Nat /\ <<w, floor>> \in InboxAuthority
  BY TransferType DEF OpenFlow, RecipientBound
<1>2. w \in Wallet /\ floor \in Floor
  BY <1>1 DEF InboxAuthority
<1>3. balance - Transfer[m].amount \in Nat
  BY <1>1 DEF OpenFlow, InboxCovers
<1>4. RecvToken(p, d) \in Token /\ <<Transfer[m].to, Transfer[m].token>> \in InboxAccount
  BY TokenOfLeg, TransferType
<1>5. [pair |-> p, direction |-> d, status |-> "Received", recipient |-> w,
       min_swap_out |-> floor, amount |-> Transfer[m].amount, received_slot |-> slot]
        \in FlowRecord
  BY <1>1, <1>2 DEF TypeOK, FlowRecord
<1>6. flow' \in [Message -> FlowRecord \cup {NoFlow}]
  BY <1>5 DEF TypeOK, OpenFlow
<1>7. parked' \in [InboxAccount -> Nat] /\ ata' \in [Token -> Nat]
  BY <1>1, <1>3, <1>4 DEF TypeOK, OpenFlow
<1>8. opened' \in [Message -> Nat] /\ drawn' \in [InboxAccount -> Nat]
  BY <1>1, <1>4 DEF TypeOK, OpenFlow
<1>. QED
  BY <1>6, <1>7, <1>8 DEF TypeOK, OpenFlow

LEMMA TypeReceive ==
  ASSUME TypeOK, NEW m \in Message, Receive(m)
  PROVE  TypeOK'
<1>a. PICK p \in Pair, d \in Direction : \E w, floor :
         \/ ReceiveRedeem(m, p, d, w, floor)
         \/ ReceiveDelayed(m, p, d, w, floor)
         \/ ReceiveSkip(m, p, d, w, floor)
  BY DEF Receive
<1>1. PICK w, floor :
         \/ ReceiveRedeem(m, p, d, w, floor)
         \/ ReceiveDelayed(m, p, d, w, floor)
         \/ ReceiveSkip(m, p, d, w, floor)
  BY <1>a
<1>2. <<<<w, floor>>, RecvToken(p, d)>> \in InboxAccount
  BY <1>1, TransferType DEF ReceiveRedeem, ReceiveDelayed, ReceiveSkip
<1>3. inbox' \in [Message -> {"absent", "delayed", "released"}]
  BY <1>1 DEF ReceiveRedeem, ReceiveDelayed, ReceiveSkip, TypeOK
<1>4. PICK balance \in Nat : OpenFlow(m, p, d, w, floor, balance)
  <2>1. /\ parked[<<<<w, floor>>, RecvToken(p, d)>>] \in Nat
        /\ parked[<<<<w, floor>>, RecvToken(p, d)>>] + Transfer[m].amount \in Nat
    <3>1. Transfer[m].amount \in Nat
      BY TransferType
    <3>. QED  BY <1>2, <3>1 DEF TypeOK
  <2>. QED  BY <1>1, <2>1 DEF ReceiveRedeem, ReceiveDelayed, ReceiveSkip
<1>. QED  BY <1>2, <1>3, <1>4, TypeOpenFlow

LEMMA TypeSwap ==
  ASSUME TypeOK, NEW m \in Message, NEW passed, NEW consumed \in Nat,
         NEW out \in RouterOutputs, IsOpen(m), Swap(m, passed, consumed, out)
  PROVE  TypeOK'
<1> DEFINE f == flow[m]
<1>1. f \in FlowRecord /\ out \in Nat
  BY RelayerAssumption DEF TypeOK, IsOpen
<1>2. /\ FeeIn(f) \in Nat /\ FeeIn(f) <= f.amount
      /\ FeeOut(f, out) \in Nat /\ FeeOut(f, out) <= out
  BY <1>1, SwapFees
<1>3. f.amount \in Nat /\ f.pair \in Pair /\ f.direction \in Direction
  BY <1>1 DEF FlowRecord
<1>4. RecvToken(f.pair, f.direction) \in Token
  BY <1>3, TokenOfLeg
<1>5. ata' \in [Token -> Nat]
  <2>1. ata[RecvToken(f.pair, f.direction)] - FeeIn(f) - consumed \in Nat
    BY <1>2, <1>3, <1>4 DEF Swap, InputConsumed, TypeOK
  <2>2. out - FeeOut(f, out) \in Nat
    BY <1>1, <1>2
  <2>. QED  BY <2>1, <2>2 DEF Swap, TypeOK
<1>6. flow' \in [Message -> FlowRecord \cup {NoFlow}]
  <2>1. out - FeeOut(f, out) \in Nat
    BY <1>1, <1>2
  <2>2. [f EXCEPT !.amount = out - FeeOut(f, out), !.status = "Swapped"] \in FlowRecord
    BY <1>1, <2>1 DEF FlowRecord
  <2>. QED  BY <2>2 DEF Swap, TypeOK
<1>7. feeVault' \in [Pair -> Nat]
  BY <1>2, <1>3 DEF Swap, TypeOK
<1>. QED  BY <1>5, <1>6, <1>7 DEF Swap, TypeOK

LEMMA TypeBridgeBack ==
  ASSUME TypeOK, NEW m \in Message, IsOpen(m), BridgeBack(m)
  PROVE  TypeOK'
<1>1. flow[m] \in FlowRecord /\ flow[m].recipient \in Wallet
  BY DEF TypeOK, IsOpen, FlowRecord
<1>2. /\ HeldIn(flow[m]) \in Token /\ flow[m].amount \in Nat
      /\ Sent(flow[m]) \in Nat /\ Sent(flow[m]) <= flow[m].amount
  BY <1>1, SentBounds
<1>3. ata' \in [Token -> Nat]
  <2>1. /\ ata' = [ata EXCEPT ![HeldIn(flow[m])] = @ - Sent(flow[m])]
        /\ ata[HeldIn(flow[m])] >= Sent(flow[m])
    BY BridgeBackStep
  <2>. QED  BY <1>2, <2>1 DEF TypeOK
<1>4. paid' \in [Wallet \X Token -> Nat]
  <2>1. paid' = [paid EXCEPT ![<<flow[m].recipient, HeldIn(flow[m])>>] = @ + Sent(flow[m])]
    BY BridgeBackStep
  <2>. QED  BY <1>1, <1>2, <2>1 DEF TypeOK
<1>5. dust' \in [Token -> Nat]
  <2>1. flow[m].amount - Sent(flow[m]) \in Nat
    BY <1>2
  <2>2. dust' = [dust EXCEPT ![HeldIn(flow[m])] = @ + (flow[m].amount - Sent(flow[m]))]
    BY BridgeBackStep
  <2>. QED  BY <1>2, <2>1, <2>2 DEF TypeOK
<1>. QED  BY <1>3, <1>4, <1>5, BridgeBackStep DEF TypeOK

(* The steps of the specification, one case per instruction. *)
LEMMA TypeNext == TypeOK /\ [Next]_vars => TypeOK'
<1> SUFFICES ASSUME TypeOK, [Next]_vars  PROVE TypeOK'
  OBVIOUS
<1>1. ASSUME NEW m \in Message, NttRedeem(m)  PROVE TypeOK'
  BY <1>1 DEF NttRedeem, TypeOK
<1>2. ASSUME NEW m \in Message, NttRelease(m)  PROVE TypeOK'
  <2>1. parked' \in [InboxAccount -> Nat]
    <3>1. Transfer[m].amount \in Nat /\ <<Transfer[m].to, Transfer[m].token>> \in InboxAccount
      BY <1>2, TransferType
    <3>. QED  BY <1>2, <3>1 DEF NttRelease, TypeOK
  <2>2. inbox' \in [Message -> {"absent", "delayed", "released"}]
    BY <1>2 DEF NttRelease, TypeOK
  <2>. QED  BY <1>2, <2>1, <2>2 DEF NttRelease, TypeOK
<1>3. ASSUME NEW m \in Message, Receive(m)  PROVE TypeOK'
  BY <1>3, TypeReceive
<1>4. ASSUME NEW m \in Message, IsOpen(m), Swaps(m)  PROVE TypeOK'
  <2>1. ata[RecvToken(flow[m].pair, flow[m].direction)] \in Nat
    BY <1>4, TokenOfLeg DEF TypeOK, IsOpen, FlowRecord
  <2>. QED  BY <1>4, <2>1, TypeSwap DEF Swaps
<1>5. ASSUME NEW m \in Message, Send(m) \/ Refund(m)  PROVE TypeOK'
  BY <1>5, TypeBridgeBack DEF Send, Refund
<1>6. ASSUME NEW p \in Pair, SetFees(p)  PROVE TypeOK'
  BY <1>6, RelayerAssumption DEF SetFees, TypeOK
<1>7. ASSUME NEW t \in Token, Gift(t)  PROVE TypeOK'
  BY <1>7 DEF Gift, TypeOK
<1>8. CASE Tick
  BY <1>8 DEF Tick, TypeOK
<1>9. CASE UNCHANGED vars
  BY <1>9 DEF vars, TypeOK
<1>. QED
  BY <1>1, <1>2, <1>3, <1>4, <1>5, <1>6, <1>7, <1>8, <1>9 DEF Next

(* Balances never go negative, an open flow always has the shape its       *)
(* instructions write, and live fees stay below the cap.                   *)
THEOREM TypeCorrect == Spec => []TypeOK
BY TypeInit, TypeNext, PTL DEF Spec

(***************************************************************************)
(* Custody                                                                 *)
(***************************************************************************)

LEMMA OwedUpdate ==
  ASSUME NEW fl \in [Message -> FlowRecord \cup {NoFlow}],
         NEW gl \in [Message -> FlowRecord \cup {NoFlow}],
         NEW m \in Message, \A y \in Message : y # m => gl[y] = fl[y],
         NEW t
  PROVE  /\ SumOf(Owed(fl, t)) \in Nat
         /\ SumOf(Owed(gl, t)) = SumOf(Owed(fl, t)) - Owed(fl, t)[m] + Owed(gl, t)[m]
<1>1. Owed(fl, t) \in [Message -> Nat] /\ Owed(gl, t) \in [Message -> Nat]
  BY DEF Owed, FlowRecord
<1>2. \A y \in Message : y # m => Owed(gl, t)[y] = Owed(fl, t)[y]
  BY DEF Owed
<1>3. IsFiniteSet(Message)
  BY RelayerAssumption
<1>. QED  BY <1>1, <1>2, <1>3, SumOfNat, SumOfUpdate

LEMMA CustodyInit == Init => CustodyExact
<1> SUFFICES ASSUME Init, NEW t \in Token  PROVE ata[t] = gifts[t] + dust[t] + SumOf(Owed(flow, t))
  BY DEF CustodyExact
<1>1. Owed(flow, t) \in [Message -> Nat] /\ \A m \in Message : Owed(flow, t)[m] = 0
  BY DEF Init, Owed
<1>2. SumOf(Owed(flow, t)) = 0
  BY <1>1, SumOfZero
<1>. QED  BY <1>2 DEF Init

LEMMA CustodyReceive ==
  ASSUME TypeOK, TypeOK', CustodyExact, NEW m \in Message, Receive(m)
  PROVE  CustodyExact'
<1>a. PICK p \in Pair, d \in Direction : \E w, floor, balance :
         /\ ReceivePins(m, p, d, floor)
         /\ OpenFlow(m, p, d, w, floor, balance)
  BY DEF Receive, ReceiveRedeem, ReceiveDelayed, ReceiveSkip
<1>1. PICK w, floor, balance :
         /\ ReceivePins(m, p, d, floor)
         /\ OpenFlow(m, p, d, w, floor, balance)
  BY <1>a
<1> DEFINE T == RecvToken(p, d)
           a == Transfer[m].amount
<1>2. T \in Token /\ a \in Nat
  BY TokenOfLeg, TransferType
<1>3. /\ flow[m] = NoFlow
      /\ ata' = [ata EXCEPT ![T] = @ + a]
      /\ gifts' = gifts /\ dust' = dust
      /\ flow'[m] # NoFlow /\ HeldIn(flow'[m]) = T /\ flow'[m].amount = a
      /\ \A y \in Message : y # m => flow'[y] = flow[y]
  <2>1. flow'[m] = [pair |-> p, direction |-> d, status |-> "Received", recipient |-> w,
                    min_swap_out |-> floor, amount |-> a, received_slot |-> slot]
    BY <1>1 DEF OpenFlow, TypeOK
  <2>2. flow'[m] \in FlowRecord
    <3>1. w \in Wallet /\ floor \in Floor
      BY <1>1, TransferType DEF OpenFlow, RecipientBound, InboxAuthority
    <3>. QED  BY <1>2, <2>1, <3>1 DEF FlowRecord, TypeOK
  <2>3. flow'[m] # NoFlow
    BY <2>2, NoFlowAssumption
  <2>4. HeldIn(flow'[m]) = T /\ flow'[m].amount = a
    BY <2>1 DEF HeldIn
  <2>. QED  BY <1>1, <2>3, <2>4 DEF ReceivePins, OpenFlow, TypeOK
<1> HIDE DEF T, a
<1>4. SUFFICES ASSUME NEW t \in Token  PROVE ata'[t] = gifts'[t] + dust'[t] + SumOf(Owed(flow', t))
  BY DEF CustodyExact
<1>5. /\ SumOf(Owed(flow, t)) \in Nat
      /\ SumOf(Owed(flow', t)) = SumOf(Owed(flow, t)) - Owed(flow, t)[m] + Owed(flow', t)[m]
  <2>1. /\ flow \in [Message -> FlowRecord \cup {NoFlow}]
        /\ flow' \in [Message -> FlowRecord \cup {NoFlow}]
        /\ \A y \in Message : y # m => flow'[y] = flow[y]
    BY <1>3 DEF TypeOK
  <2>. QED  BY <2>1, OwedUpdate, Zenon
<1>6. Owed(flow, t)[m] = 0 /\ Owed(flow', t)[m] = IF t = T THEN a ELSE 0
  BY <1>3 DEF Owed
<1>. QED  BY <1>2, <1>3, <1>5, <1>6 DEF CustodyExact, TypeOK

LEMMA CustodySwap ==
  ASSUME TypeOK, TypeOK', CustodyExact, NEW m \in Message, NEW passed, NEW consumed,
         NEW out \in RouterOutputs, IsOpen(m), Swap(m, passed, consumed, out)
  PROVE  CustodyExact'
<1> DEFINE f == flow[m]
           tin == RecvToken(f.pair, f.direction)
           tout == SendToken(f.pair, f.direction)
           net == out - FeeOut(f, out)
<1>1. f \in FlowRecord /\ out \in Nat
  BY RelayerAssumption DEF TypeOK, IsOpen
<1>2. tin \in Token /\ tout \in Token /\ tin # tout
  BY <1>1, TokenOfLeg DEF FlowRecord
<1>3. f.amount \in Nat /\ FeeIn(f) \in Nat /\ net \in Nat
  BY <1>1, SwapFees DEF FlowRecord
<1>4. /\ ata' = [t \in Token |-> IF t = tin THEN ata[t] - f.amount
                                 ELSE IF t = tout THEN ata[t] + net ELSE ata[t]]
      /\ gifts' = gifts /\ dust' = dust
  BY <1>3 DEF Swap, InputConsumed, SwapAccountsAllowed, TypeOK
<1>5. /\ HeldIn(f) = tin
      /\ flow'[m] # NoFlow /\ HeldIn(flow'[m]) = tout /\ flow'[m].amount = net
      /\ \A y \in Message : y # m => flow'[y] = flow[y]
  <2>1. flow'[m] = [f EXCEPT !.amount = net, !.status = "Swapped"]
    BY DEF Swap, TypeOK
  <2>2. flow'[m] \in FlowRecord
    BY <1>1, <1>3, <2>1 DEF FlowRecord
  <2>3. flow'[m] # NoFlow
    BY <2>2, NoFlowAssumption
  <2>4. HeldIn(f) = tin /\ HeldIn(flow'[m]) = tout /\ flow'[m].amount = net
    <3>1. f.status = "Received"
      BY DEF Swap
    <3>2. /\ flow'[m].status = "Swapped" /\ flow'[m].amount = net
          /\ flow'[m].pair = f.pair /\ flow'[m].direction = f.direction
      BY <1>1, <2>1 DEF FlowRecord
    <3>. QED  BY <3>1, <3>2 DEF HeldIn
  <2>. QED  BY <2>3, <2>4 DEF Swap, TypeOK
<1> HIDE DEF tin, tout, net
<1>6. SUFFICES ASSUME NEW t \in Token  PROVE ata'[t] = gifts'[t] + dust'[t] + SumOf(Owed(flow', t))
  BY DEF CustodyExact
<1>7. /\ SumOf(Owed(flow, t)) \in Nat
      /\ SumOf(Owed(flow', t)) = SumOf(Owed(flow, t)) - Owed(flow, t)[m] + Owed(flow', t)[m]
  <2>1. /\ flow \in [Message -> FlowRecord \cup {NoFlow}]
        /\ flow' \in [Message -> FlowRecord \cup {NoFlow}]
        /\ \A y \in Message : y # m => flow'[y] = flow[y]
    BY <1>5 DEF TypeOK
  <2>. QED  BY <2>1, OwedUpdate, Zenon
<1>8. /\ Owed(flow, t)[m] = IF t = tin THEN f.amount ELSE 0
      /\ Owed(flow', t)[m] = IF t = tout THEN net ELSE 0
  BY <1>5 DEF Owed, IsOpen
<1>. QED  BY <1>2, <1>3, <1>4, <1>7, <1>8 DEF CustodyExact, TypeOK

LEMMA CustodyBridgeBack ==
  ASSUME TypeOK, TypeOK', CustodyExact, NEW m \in Message, IsOpen(m), BridgeBack(m)
  PROVE  CustodyExact'
<1> DEFINE f == flow[m]
<1>1. f \in FlowRecord
  BY DEF TypeOK, IsOpen
<1>2. /\ f.amount \in Nat /\ HeldIn(f) \in Token
      /\ Sent(f) \in Nat /\ Sent(f) <= f.amount
  BY <1>1, SentBounds
<1>3. /\ ata' = [ata EXCEPT ![HeldIn(f)] = @ - Sent(f)]
      /\ dust' = [dust EXCEPT ![HeldIn(f)] = @ + (f.amount - Sent(f))]
      /\ gifts' = gifts
      /\ flow'[m] = NoFlow
      /\ \A y \in Message : y # m => flow'[y] = flow[y]
  BY BridgeBackStep DEF TypeOK
<1>4. SUFFICES ASSUME NEW t \in Token  PROVE ata'[t] = gifts'[t] + dust'[t] + SumOf(Owed(flow', t))
  BY DEF CustodyExact
<1>5. /\ SumOf(Owed(flow, t)) \in Nat
      /\ SumOf(Owed(flow', t)) = SumOf(Owed(flow, t)) - Owed(flow, t)[m] + Owed(flow', t)[m]
  <2>1. /\ flow \in [Message -> FlowRecord \cup {NoFlow}]
        /\ flow' \in [Message -> FlowRecord \cup {NoFlow}]
        /\ \A y \in Message : y # m => flow'[y] = flow[y]
    BY <1>3 DEF TypeOK
  <2>. QED  BY <2>1, OwedUpdate, Zenon
<1>6. /\ Owed(flow, t)[m] = IF t = HeldIn(f) THEN f.amount ELSE 0
      /\ Owed(flow', t)[m] = 0
  BY <1>3 DEF Owed, IsOpen
<1>. QED  BY <1>2, <1>3, <1>5, <1>6 DEF CustodyExact, TypeOK

LEMMA CustodyNext == TypeOK /\ TypeOK' /\ CustodyExact /\ [Next]_vars => CustodyExact'
<1> SUFFICES ASSUME TypeOK, TypeOK', CustodyExact, [Next]_vars  PROVE CustodyExact'
  OBVIOUS
<1>1. CASE UNCHANGED <<ata, gifts, dust, flow>>
  BY <1>1 DEF CustodyExact
<1>2. ASSUME NEW m \in Message, Receive(m)  PROVE CustodyExact'
  BY <1>2, CustodyReceive
<1>3. ASSUME NEW m \in Message, IsOpen(m), Swaps(m)  PROVE CustodyExact'
  BY <1>3, CustodySwap DEF Swaps
<1>4. ASSUME NEW m \in Message, Send(m) \/ Refund(m)  PROVE CustodyExact'
  BY <1>4, CustodyBridgeBack DEF Send, Refund
<1>5. ASSUME NEW t \in Token, Gift(t)  PROVE CustodyExact'
  <2>1. \A u \in Token : SumOf(Owed(flow, u)) \in Nat
    <3>1. ASSUME NEW u \in Token  PROVE SumOf(Owed(flow, u)) \in Nat
      <4>1. Owed(flow, u) \in [Message -> Nat]
        BY DEF Owed, TypeOK, FlowRecord
      <4>. QED  BY <4>1, RelayerAssumption, SumOfNat
    <3>. QED  BY <3>1
  <2>2. flow' = flow
    BY <1>5 DEF Gift
  <2>. QED  BY <1>5, <2>1, <2>2 DEF CustodyExact, Gift, TypeOK
<1>6. ASSUME NEW m \in Message, NttRedeem(m) \/ NttRelease(m)  PROVE CustodyExact'
  BY <1>1, <1>6 DEF NttRedeem, NttRelease
<1>7. ASSUME NEW p \in Pair, SetFees(p)  PROVE CustodyExact'
  BY <1>1, <1>7 DEF SetFees
<1>8. CASE Tick \/ UNCHANGED vars
  BY <1>1, <1>8 DEF Tick, vars
<1>. QED
  BY <1>2, <1>3, <1>4, <1>5, <1>6, <1>7, <1>8 DEF Next

(* Every custody account holds exactly what its open flows hold, the gifts *)
(* and the dust of NTT's trim, however many flows and pairs share the      *)
(* relayer authority and whatever a router does (swap.rs: exact input,     *)
(* forbidden accounts, fee order; send.rs, refund.rs: transfer_lock).      *)
THEOREM CustodyIsExact == Spec => []CustodyExact
BY TypeCorrect, CustodyInit, CustodyNext, PTL DEF Spec

(* An open flow never comes down to nothing. *)
HoldsSomething == \A m \in Message : IsOpen(m) => flow[m].amount > 0

LEMMA HoldsSomethingNext ==
  ASSUME TypeOK, HoldsSomething, [Next]_vars
  PROVE  HoldsSomething'
<1>1. CASE flow' = flow
  BY <1>1 DEF HoldsSomething, IsOpen
<1>2. ASSUME NEW m \in Message, Receive(m)  PROVE HoldsSomething'
  <2>1. PICK p, d, w, floor, balance : OpenFlow(m, p, d, w, floor, balance)
    BY <1>2 DEF Receive, ReceiveRedeem, ReceiveDelayed, ReceiveSkip
  <2>2. flow'[m].amount > 0 /\ \A y \in Message : y # m => flow'[y] = flow[y]
    BY <2>1 DEF OpenFlow, TypeOK
  <2>. QED  BY <2>2 DEF HoldsSomething, IsOpen
<1>3. ASSUME NEW m \in Message, IsOpen(m), Swaps(m)  PROVE HoldsSomething'
  <2>1. PICK passed, consumed, out : Swap(m, passed, consumed, out)
    BY <1>3 DEF Swaps
  <2>2. flow[m] \in FlowRecord
    BY <1>3 DEF TypeOK, IsOpen
  <2>3. flow'[m].amount > 0 /\ \A y \in Message : y # m => flow'[y] = flow[y]
    BY <2>1, <2>2 DEF Swap, TypeOK, FlowRecord
  <2>. QED  BY <2>3 DEF HoldsSomething, IsOpen
<1>4. ASSUME NEW m \in Message, Send(m) \/ Refund(m)  PROVE HoldsSomething'
  <2>1. \A y \in Message : IsOpen(y)' => IsOpen(y) /\ flow'[y] = flow[y]
    BY <1>4 DEF Send, Refund, BridgeBack, IsOpen, TypeOK
  <2>. QED  BY <2>1 DEF HoldsSomething
<1>5. ASSUME NEW m \in Message, NttRedeem(m) \/ NttRelease(m)  PROVE flow' = flow
  BY <1>5 DEF NttRedeem, NttRelease
<1>6. ASSUME NEW x, SetFees(x) \/ Gift(x)  PROVE flow' = flow
  BY <1>6 DEF SetFees, Gift
<1>7. CASE Tick \/ UNCHANGED vars
  BY <1>1, <1>7 DEF Tick, vars
<1>. QED
  BY <1>1, <1>2, <1>3, <1>4, <1>5, <1>6, <1>7 DEF Next

LEMMA CustodyCovers ==
  ASSUME TypeOK, CustodyExact, NEW m \in Message, IsOpen(m)
  PROVE  ata[HeldIn(flow[m])] >= flow[m].amount
<1> DEFINE t == HeldIn(flow[m])
<1>1. flow[m] \in FlowRecord
  BY DEF TypeOK, IsOpen
<1>2. t \in Token /\ flow[m].amount \in Nat
  BY <1>1, HeldInType DEF FlowRecord
<1>3. Owed(flow, t) \in [Message -> Nat] /\ Owed(flow, t)[m] = flow[m].amount
  BY DEF Owed, TypeOK, FlowRecord, IsOpen
<1>4. IsFiniteSet(Message)
  BY RelayerAssumption
<1>5. SumOf(Owed(flow, t)) \in Nat /\ flow[m].amount <= SumOf(Owed(flow, t))
  BY <1>3, <1>4, SumOfNat, SumOfCovers
<1>6. ata[t] = gifts[t] + dust[t] + SumOf(Owed(flow, t)) /\ gifts[t] \in Nat /\ dust[t] \in Nat
  BY <1>2 DEF CustodyExact, TypeOK
<1> HIDE DEF t
<1>7. ata[t] >= flow[m].amount
  BY <1>2, <1>5, <1>6
<1>. QED  BY <1>7 DEF t

(* Whatever the routers and fees of other flows took from the accounts it  *)
(* shares, an open flow can be paid out in full: the checks of swap.rs     *)
(* leave no order of instructions after which `send` or `refund` lacks the *)
(* tokens (send.rs, refund.rs). With fair crankers this is FlowsDrain.     *)
THEOREM FlowsAreCovered == Spec => []NeverStranded
<1>1. Init => HoldsSomething
  BY DEF Init, HoldsSomething, IsOpen
<1>2. TypeOK /\ HoldsSomething /\ [Next]_vars => HoldsSomething'
  BY HoldsSomethingNext
<1>3. TypeOK /\ CustodyExact /\ HoldsSomething => NeverStranded
  BY CustodyCovers DEF HoldsSomething, NeverStranded
<1>. QED  BY <1>1, <1>2, <1>3, TypeCorrect, CustodyIsExact, PTL DEF Spec

(***************************************************************************)
(* Inbox accounts                                                          *)
(***************************************************************************)

InboxStatus == {"absent", "delayed", "released"}

LEMMA ReleasedUpdate ==
  ASSUME NEW it \in [Message -> InboxStatus], NEW ju \in [Message -> InboxStatus],
         NEW m \in Message, \A y \in Message : y # m => ju[y] = it[y],
         NEW k
  PROVE  /\ SumOf(Released(it, k)) \in Nat
         /\ SumOf(Released(ju, k)) =
              SumOf(Released(it, k)) - Released(it, k)[m] + Released(ju, k)[m]
<1>1. Released(it, k) \in [Message -> Nat] /\ Released(ju, k) \in [Message -> Nat]
  BY TransferType DEF Released
<1>2. \A y \in Message : y # m => Released(ju, k)[y] = Released(it, k)[y]
  BY DEF Released
<1>3. IsFiniteSet(Message)
  BY RelayerAssumption
<1>. QED  BY <1>1, <1>2, <1>3, SumOfNat, SumOfUpdate

(* A step that changes message m's inbox item and its inbox account only:  *)
(* the account and what the message has drawn move with what is released.  *)
LEMMA InboxStep ==
  ASSUME TypeOK, TypeOK', InboxAccounted, NEW m \in Message,
         \A y \in Message : y # m => inbox'[y] = inbox[y],
         \A k \in InboxAccount : k # <<Transfer[m].to, Transfer[m].token>> =>
            parked'[k] = parked[k] /\ drawn'[k] = drawn[k],
         NEW h, h = <<Transfer[m].to, Transfer[m].token>>,
         parked'[h] + drawn'[h] =
           parked[h] + drawn[h]
           - (IF inbox[m] = "released" THEN Transfer[m].amount ELSE 0)
           + (IF inbox'[m] = "released" THEN Transfer[m].amount ELSE 0)
  PROVE  InboxAccounted'
<1>1. SUFFICES ASSUME NEW k \in InboxAccount
               PROVE  parked'[k] + drawn'[k] = SumOf(Released(inbox', k))
  BY DEF InboxAccounted
<1>2. /\ inbox \in [Message -> InboxStatus] /\ inbox' \in [Message -> InboxStatus]
  BY DEF TypeOK, InboxStatus
<1>3. /\ SumOf(Released(inbox, k)) \in Nat
      /\ SumOf(Released(inbox', k)) =
           SumOf(Released(inbox, k)) - Released(inbox, k)[m] + Released(inbox', k)[m]
  BY <1>2, ReleasedUpdate, Zenon
<1>4. parked[k] + drawn[k] = SumOf(Released(inbox, k))
  BY DEF InboxAccounted
<1>5. Transfer[m].amount \in Nat
  BY TransferType
<1>6. CASE k = <<Transfer[m].to, Transfer[m].token>>
  <2>1. /\ Released(inbox, k)[m] = IF inbox[m] = "released" THEN Transfer[m].amount ELSE 0
        /\ Released(inbox', k)[m] = IF inbox'[m] = "released" THEN Transfer[m].amount ELSE 0
    BY <1>6 DEF Released
  <2>2. parked'[k] + drawn'[k] =
          SumOf(Released(inbox, k)) - Released(inbox, k)[m] + Released(inbox', k)[m]
    <3>1. h = k
      BY <1>6
    <3>2. /\ parked[k] \in Nat /\ drawn[k] \in Nat
          /\ parked'[k] \in Nat /\ drawn'[k] \in Nat
      BY DEF TypeOK
    <3>3. parked'[k] + drawn'[k] =
            parked[k] + drawn[k] - Released(inbox, k)[m] + Released(inbox', k)[m]
      BY <2>1, <3>1, Zenon
    <3>4. Released(inbox, k)[m] \in Nat /\ Released(inbox', k)[m] \in Nat
      BY <1>5, <2>1
    <3>. HIDE DEF Released
    <3>. QED  BY <1>3, <1>4, <3>2, <3>3, <3>4
  <2>. QED  BY <1>3, <2>2
<1>7. CASE k # <<Transfer[m].to, Transfer[m].token>>
  <2>1. Released(inbox, k)[m] = 0 /\ Released(inbox', k)[m] = 0
    BY <1>7 DEF Released
  <2>. QED  BY <1>3, <1>4, <1>7, <2>1
<1>. QED  BY <1>6, <1>7

(* What `receive` does to the inbox account it draws on, on each of its    *)
(* three paths: `balance` is what the account holds after the NTT CPIs.    *)
LEMMA ReceiveDraws ==
  ASSUME TypeOK, NEW m \in Message, Receive(m),
         NEW k, k = <<Transfer[m].to, Transfer[m].token>>
  PROVE  \E balance :
           /\ Transfer[m].amount > 0 /\ balance >= Transfer[m].amount
           /\ parked' = [parked EXCEPT ![k] = balance - Transfer[m].amount]
           /\ drawn' = [drawn EXCEPT ![k] = @ + Transfer[m].amount]
           /\ opened' = [opened EXCEPT ![m] = @ + 1]
           /\ \/ /\ inbox[m] = "absent" /\ inbox' = [inbox EXCEPT ![m] = "released"]
                 /\ balance = parked[k] + Transfer[m].amount
              \/ /\ inbox[m] = "absent" /\ inbox' = [inbox EXCEPT ![m] = "delayed"]
                 /\ balance = parked[k]
              \/ /\ inbox[m] = "released" /\ inbox' = inbox
                 /\ balance = parked[k]
<1> DEFINE Account(p, d, w, floor) == <<<<w, floor>>, RecvToken(p, d)>>
<1>1. PICK p \in Pair, d \in Direction : \E w, floor :
         \/ ReceiveRedeem(m, p, d, w, floor)
         \/ ReceiveDelayed(m, p, d, w, floor)
         \/ ReceiveSkip(m, p, d, w, floor)
  BY DEF Receive
<1>2. PICK w, floor :
         \/ ReceiveRedeem(m, p, d, w, floor)
         \/ ReceiveDelayed(m, p, d, w, floor)
         \/ ReceiveSkip(m, p, d, w, floor)
  BY <1>1
<1>3. Account(p, d, w, floor) = k
  BY <1>2 DEF ReceiveRedeem, ReceiveDelayed, ReceiveSkip, ReceivePins, OpenFlow, RecipientBound
<1>4. PICK balance :
        /\ Transfer[m].amount > 0 /\ balance >= Transfer[m].amount
        /\ drawn' = [drawn EXCEPT ![<<Transfer[m].to, Transfer[m].token>>] = @ + Transfer[m].amount]
        /\ parked' = [parked EXCEPT ![Account(p, d, w, floor)] = balance - Transfer[m].amount]
        /\ opened' = [opened EXCEPT ![m] = @ + 1]
        /\ \/ /\ inbox[m] = "absent" /\ inbox' = [inbox EXCEPT ![m] = "released"]
              /\ balance = parked[Account(p, d, w, floor)] + Transfer[m].amount
           \/ /\ inbox[m] = "absent" /\ inbox' = [inbox EXCEPT ![m] = "delayed"]
              /\ balance = parked[Account(p, d, w, floor)]
           \/ /\ inbox[m] = "released" /\ inbox' = inbox
              /\ balance = parked[Account(p, d, w, floor)]
  <2>1. CASE ReceiveRedeem(m, p, d, w, floor)
    BY <2>1 DEF ReceiveRedeem, OpenFlow, InboxCovers
  <2>2. CASE ReceiveDelayed(m, p, d, w, floor)
    BY <2>2 DEF ReceiveDelayed, OpenFlow, InboxCovers
  <2>3. CASE ReceiveSkip(m, p, d, w, floor)
    BY <2>3 DEF ReceiveSkip, OpenFlow, InboxCovers
  <2>. QED  BY <1>2, <2>1, <2>2, <2>3
<1> HIDE DEF Account
<1>. QED  BY <1>3, <1>4, Zenon

LEMMA InboxReceive ==
  ASSUME TypeOK, TypeOK', InboxAccounted, NEW m \in Message, Receive(m)
  PROVE  InboxAccounted'
<1> DEFINE k == <<Transfer[m].to, Transfer[m].token>>
           a == Transfer[m].amount
<1>1. k \in InboxAccount /\ a \in Nat /\ parked[k] \in Nat /\ drawn[k] \in Nat
  BY TransferType DEF TypeOK
<1> HIDE DEF k
<1>2. PICK balance :
        /\ drawn' = [drawn EXCEPT ![k] = @ + a]
        /\ parked' = [parked EXCEPT ![k] = balance - a]
        /\ \/ /\ inbox[m] = "absent" /\ inbox' = [inbox EXCEPT ![m] = "released"]
              /\ balance = parked[k] + a
           \/ /\ inbox[m] = "absent" /\ inbox' = [inbox EXCEPT ![m] = "delayed"]
              /\ balance = parked[k]
           \/ /\ inbox[m] = "released" /\ inbox' = inbox
              /\ balance = parked[k]
  <2>1. k = <<Transfer[m].to, Transfer[m].token>>
    BY DEF k
  <2>. QED  BY <2>1, ReceiveDraws
<1>3. \A y \in Message : y # m => inbox'[y] = inbox[y]
  BY <1>2 DEF TypeOK
<1> HIDE DEF a
<1>4. \A j \in InboxAccount : j # k => parked'[j] = parked[j] /\ drawn'[j] = drawn[j]
  BY <1>2 DEF TypeOK
<1>5. parked'[k] + drawn'[k] = parked[k] + drawn[k]
         - (IF inbox[m] = "released" THEN a ELSE 0)
         + (IF inbox'[m] = "released" THEN a ELSE 0)
  <2>1. drawn'[k] = drawn[k] + a
    BY <1>1, <1>2 DEF TypeOK
  <2>2. parked'[k] = balance - a
    BY <1>1, <1>2 DEF TypeOK
  <2>3. balance = parked[k] - (IF inbox[m] = "released" THEN a ELSE 0)
                     + (IF inbox'[m] = "released" THEN a ELSE 0)
    BY <1>1, <1>2 DEF TypeOK
  <2>. QED  BY <1>1, <2>1, <2>2, <2>3
<1>. QED  BY <1>3, <1>4, <1>5, InboxStep DEF k, a

LEMMA InboxInit == Init => InboxAccounted
<1> SUFFICES ASSUME Init, NEW k \in InboxAccount
             PROVE  parked[k] + drawn[k] = SumOf(Released(inbox, k))
  BY DEF InboxAccounted
<1>1. Released(inbox, k) \in [Message -> Nat] /\ \A m \in Message : Released(inbox, k)[m] = 0
  BY DEF Init, Released
<1>2. SumOf(Released(inbox, k)) = 0
  BY <1>1, SumOfZero
<1>. QED  BY <1>2 DEF Init

LEMMA InboxNext == TypeOK /\ TypeOK' /\ InboxAccounted /\ [Next]_vars => InboxAccounted'
<1> SUFFICES ASSUME TypeOK, TypeOK', InboxAccounted, [Next]_vars  PROVE InboxAccounted'
  OBVIOUS
<1>1. CASE UNCHANGED <<inbox, parked, drawn>>
  BY <1>1 DEF InboxAccounted
<1>2. ASSUME NEW m \in Message, Receive(m)  PROVE InboxAccounted'
  BY <1>2, InboxReceive
<1>3. ASSUME NEW m \in Message, NttRedeem(m)  PROVE InboxAccounted'
  <2>1. /\ \A y \in Message : y # m => inbox'[y] = inbox[y]
        /\ inbox[m] # "released" /\ inbox'[m] # "released"
        /\ parked' = parked /\ drawn' = drawn
    BY <1>3 DEF NttRedeem, TypeOK
  <2>2. <<Transfer[m].to, Transfer[m].token>> \in InboxAccount
    BY <1>3, TransferType
  <2>3. ASSUME NEW k \in InboxAccount
        PROVE parked'[k] + drawn'[k] = parked[k] + drawn[k] - 0 + 0
    BY <2>1 DEF TypeOK
  <2>. QED  BY <1>3, <2>1, <2>2, <2>3, InboxStep
<1>4. ASSUME NEW m \in Message, NttRelease(m)  PROVE InboxAccounted'
  <2> DEFINE k == <<Transfer[m].to, Transfer[m].token>>
             a == Transfer[m].amount
  <2>1. k \in InboxAccount /\ a \in Nat /\ parked[k] \in Nat /\ drawn[k] \in Nat
    BY <1>4, TransferType DEF TypeOK
  <2>2. /\ \A y \in Message : y # m => inbox'[y] = inbox[y]
        /\ inbox[m] = "delayed" /\ inbox'[m] = "released"
        /\ parked' = [parked EXCEPT ![k] = @ + a] /\ drawn' = drawn
    BY <1>4 DEF NttRelease, TypeOK
  <2> HIDE DEF k, a
  <2>3. /\ \A j \in InboxAccount : j # k => parked'[j] = parked[j] /\ drawn'[j] = drawn[j]
        /\ parked'[k] + drawn'[k] = parked[k] + drawn[k] - 0 + a
    BY <2>1, <2>2 DEF TypeOK
  <2>. QED  BY <1>4, <2>2, <2>3, InboxStep DEF k, a
<1>5. ASSUME NEW m \in Message, IsOpen(m), Swaps(m)  PROVE InboxAccounted'
  BY <1>1, <1>5 DEF Swaps, Swap
<1>6. ASSUME NEW m \in Message, Send(m) \/ Refund(m)  PROVE InboxAccounted'
  BY <1>1, <1>6 DEF Send, Refund, BridgeBack
<1>7. ASSUME NEW p \in Pair, SetFees(p)  PROVE InboxAccounted'
  BY <1>1, <1>7 DEF SetFees
<1>8. ASSUME NEW t \in Token, Gift(t)  PROVE InboxAccounted'
  BY <1>1, <1>8 DEF Gift
<1>9. CASE Tick \/ UNCHANGED vars
  BY <1>1, <1>9 DEF Tick, vars
<1>. QED
  BY <1>2, <1>3, <1>4, <1>5, <1>6, <1>7, <1>8, <1>9 DEF Next

(* Whatever mix of redeem, delayed and skip paths opened them, the flows   *)
(* of an inbox draw exactly what was bridged to that inbox.                *)
THEOREM InboxesAccounted == Spec => []InboxAccounted
BY TypeCorrect, InboxInit, InboxNext, PTL DEF Spec

(***************************************************************************)
(* Flows that are one-shot                                                 *)
(***************************************************************************)

(* No two messages are addressed to one inbox account, that of a wallet, a *)
(* floor and a token.                                                      *)
OneMessagePerInbox ==
  \A m, n \in Message :
    Transfer[m].to = Transfer[n].to /\ Transfer[m].token = Transfer[n].token => m = n

(* An inbox account then holds its message's amount from the release to    *)
(* the first flow, and nothing before and after.                           *)
Holds(m) == parked[<<Transfer[m].to, Transfer[m].token>>]

InboxOfOne ==
  \A m \in Message :
    \/ inbox[m] # "released" /\ opened[m] = 0 /\ Holds(m) = 0
    \/ inbox[m] = "released" /\ opened[m] = 0 /\ Holds(m) = Transfer[m].amount
    \/ inbox[m] = "released" /\ opened[m] = 1 /\ Holds(m) = 0

LEMMA OwnInbox ==
  ASSUME OneMessagePerInbox, TypeOK, NEW m \in Message, NEW b,
         parked' = [parked EXCEPT ![<<Transfer[m].to, Transfer[m].token>>] = b]
  PROVE  /\ Holds(m)' = b
         /\ \A y \in Message : y # m => Holds(y)' = Holds(y)
<1>1. \A y \in Message : <<Transfer[y].to, Transfer[y].token>> \in InboxAccount
  BY TransferType
<1>2. \A y \in Message : y # m =>
        <<Transfer[y].to, Transfer[y].token>> # <<Transfer[m].to, Transfer[m].token>>
  BY DEF OneMessagePerInbox
<1>. QED  BY <1>1, <1>2 DEF Holds, TypeOK

LEMMA InboxOfOneNext ==
  ASSUME OneMessagePerInbox, TypeOK, InboxOfOne, [Next]_vars
  PROVE  InboxOfOne'
<1>0. \A m \in Message : Transfer[m].amount \in Nat /\ Holds(m) \in Nat /\ opened[m] \in Nat
  BY TransferType DEF TypeOK, Holds
<1>1. CASE UNCHANGED <<inbox, parked, opened>>
  BY <1>1 DEF InboxOfOne, Holds
<1>2. ASSUME NEW m \in Message, NttRedeem(m)  PROVE InboxOfOne'
  <2>1. /\ inbox[m] # "released" /\ inbox'[m] # "released"
        /\ \A y \in Message : y # m => inbox'[y] = inbox[y]
        /\ \A y \in Message : Holds(y)' = Holds(y) /\ opened'[y] = opened[y]
    BY <1>2 DEF NttRedeem, TypeOK, Holds
  <2>. QED  BY <2>1 DEF InboxOfOne
<1>3. ASSUME NEW m \in Message, NttRelease(m)  PROVE InboxOfOne'
  <2>1. /\ inbox[m] # "released" /\ inbox'[m] = "released"
        /\ \A y \in Message : y # m => inbox'[y] = inbox[y]
        /\ opened' = opened
    BY <1>3 DEF NttRelease, TypeOK
  <2>2. /\ Holds(m)' = Holds(m) + Transfer[m].amount
        /\ \A y \in Message : y # m => Holds(y)' = Holds(y)
    BY <1>3, OwnInbox DEF NttRelease, Holds
  <2>. QED  BY <1>0, <2>1, <2>2 DEF InboxOfOne
<1>4. ASSUME NEW m \in Message, Receive(m)  PROVE InboxOfOne'
  <2>1. PICK balance :
          /\ Transfer[m].amount > 0 /\ balance >= Transfer[m].amount
          /\ parked' = [parked EXCEPT ![<<Transfer[m].to, Transfer[m].token>>] =
                           balance - Transfer[m].amount]
          /\ opened' = [opened EXCEPT ![m] = @ + 1]
          /\ \/ /\ inbox[m] = "absent" /\ inbox' = [inbox EXCEPT ![m] = "released"]
                /\ balance = Holds(m) + Transfer[m].amount
             \/ /\ inbox[m] = "absent" /\ inbox' = [inbox EXCEPT ![m] = "delayed"]
                /\ balance = Holds(m)
             \/ /\ inbox[m] = "released" /\ inbox' = inbox
                /\ balance = Holds(m)
    BY <1>4, ReceiveDraws DEF Holds
  <2>2. /\ Holds(m)' = balance - Transfer[m].amount
        /\ \A y \in Message : y # m => Holds(y)' = Holds(y)
    BY <2>1, OwnInbox
  <2>3. /\ opened'[m] = opened[m] + 1
        /\ \A y \in Message : y # m => opened'[y] = opened[y] /\ inbox'[y] = inbox[y]
    BY <2>1 DEF TypeOK
  <2>4. inbox'[m] = "released" /\ opened[m] = 0 /\ balance = Transfer[m].amount
    BY <1>0, <2>1 DEF InboxOfOne, TypeOK
  <2>. QED  BY <1>0, <2>2, <2>3, <2>4 DEF InboxOfOne
<1>5. ASSUME NEW m \in Message, Swaps(m) \/ Send(m) \/ Refund(m)
      PROVE  UNCHANGED <<inbox, parked, opened>>
  BY <1>5 DEF Swaps, Swap, Send, Refund, BridgeBack
<1>6. ASSUME NEW x, SetFees(x) \/ Gift(x)  PROVE UNCHANGED <<inbox, parked, opened>>
  BY <1>6 DEF SetFees, Gift
<1>7. CASE Tick \/ UNCHANGED vars
  BY <1>1, <1>7 DEF Tick, vars
<1>. QED
  BY <1>1, <1>2, <1>3, <1>4, <1>5, <1>6, <1>7 DEF Next

LEMMA InboxOfOneInit == Init => InboxOfOne
<1>1. \A m \in Message : <<Transfer[m].to, Transfer[m].token>> \in InboxAccount
  BY TransferType
<1>. QED  BY <1>1 DEF Init, InboxOfOne, Holds

(* Where no two messages share an inbox account, a flow is one-shot: the   *)
(* skip path of `receive` never finds the amount of a settled message      *)
(* again, and the delayed path never finds it before the release           *)
(* (receive.rs). Run relayer_one_shot shows that the condition is needed.  *)
THEOREM OneShotPerInbox ==
  ASSUME OneMessagePerInbox
  PROVE  Spec => []OneShot
<1>1. TypeOK /\ InboxOfOne /\ [Next]_vars => InboxOfOne'
  BY InboxOfOneNext
<1>2. TypeOK /\ InboxOfOne => OneShot
  BY DEF InboxOfOne, OneShot
<1>. QED  BY <1>1, <1>2, InboxOfOneInit, TypeCorrect, PTL DEF Spec

(* A message whose flow has been opened and closed is settled. *)
Settled(m) == opened[m] >= 1 /\ ~IsOpen(m)

(* There, too, settlement is final: nothing that anybody submits afterwards *)
(* opens a flow for a settled message, although closing the flow frees its *)
(* account and the inbox item stays released (send.rs, receive.rs). The    *)
(* cranker's cache of closed flows rests on this.                          *)
THEOREM SettlementIsFinal ==
  ASSUME OneMessagePerInbox
  PROVE  Spec => [][\A m \in Message : Settled(m) => Settled(m)']_vars
<1>1. TypeOK /\ InboxOfOne /\ [Next]_vars => InboxOfOne'
  BY InboxOfOneNext
<1>2. ASSUME TypeOK, InboxOfOne, InboxOfOne', [Next]_vars, NEW m \in Message, Settled(m)
      PROVE  Settled(m)'
  <2>1. opened[m] = 1 /\ opened'[m] \in {0, 1} /\ ~IsOpen(m)
    BY <1>2 DEF InboxOfOne, Settled
  <2>2. CASE UNCHANGED <<flow, opened>>
    BY <2>1, <2>2 DEF Settled, IsOpen
  <2>3. ASSUME NEW n \in Message, Receive(n)  PROVE Settled(m)'
    <3>1. opened' = [opened EXCEPT ![n] = @ + 1] /\ \A y \in Message : y # n => flow'[y] = flow[y]
      BY <1>2, <2>3 DEF Receive, ReceiveRedeem, ReceiveDelayed, ReceiveSkip, OpenFlow, TypeOK
    <3>2. n # m
      BY <1>2, <2>1, <3>1 DEF TypeOK
    <3>. QED  BY <1>2, <2>1, <3>1, <3>2 DEF Settled, IsOpen, TypeOK
  <2>4. ASSUME NEW n \in Message, (IsOpen(n) /\ Swaps(n)) \/ Send(n) \/ Refund(n)  PROVE Settled(m)'
    <3>1. IsOpen(n) /\ opened' = opened /\ \A y \in Message : y # n => flow'[y] = flow[y]
      BY <1>2, <2>4 DEF Swaps, Swap, Send, Refund, BridgeBack, TypeOK
    <3>. QED  BY <2>1, <3>1 DEF Settled, IsOpen
  <2>5. ASSUME NEW n \in Message, NttRedeem(n) \/ NttRelease(n)  PROVE UNCHANGED <<flow, opened>>
    BY <2>5 DEF NttRedeem, NttRelease
  <2>6. ASSUME NEW x, SetFees(x) \/ Gift(x)  PROVE UNCHANGED <<flow, opened>>
    BY <2>6 DEF SetFees, Gift
  <2>7. CASE Tick \/ UNCHANGED vars
    BY <2>2, <2>7 DEF Tick, vars
  <2>. QED  BY <1>2, <2>2, <2>3, <2>4, <2>5, <2>6, <2>7 DEF Next
<1>3. TypeOK /\ InboxOfOne /\ InboxOfOne' /\ [Next]_vars
        => [\A m \in Message : Settled(m) => Settled(m)']_vars
  BY <1>2
<1>. QED  BY <1>1, <1>3, InboxOfOneInit, TypeCorrect, PTL DEF Spec

(***************************************************************************)
(* The signed floor                                                        *)
(***************************************************************************)

(* The strengthening: an open flow carries the wallet and the floor of its *)
(* message, is on the leg that moves the message's token and, until it is  *)
(* swapped, holds the message's whole amount.                              *)
BoundToMessage ==
  \A m \in Message : IsOpen(m) =>
    /\ flow[m].recipient = Transfer[m].to[1]
    /\ flow[m].min_swap_out = Transfer[m].to[2]
    /\ Transfer[m].token = RecvToken(flow[m].pair, flow[m].direction)
    /\ flow[m].status = "Received" => flow[m].amount = Transfer[m].amount

LEMMA BoundInit == Init => BoundToMessage /\ SettlesAboveFloor
BY DEF Init, BoundToMessage, SettlesAboveFloor, IsOpen

LEMMA BoundReceive ==
  ASSUME TypeOK, BoundToMessage, SettlesAboveFloor, NEW m \in Message, Receive(m)
  PROVE  BoundToMessage' /\ SettlesAboveFloor'
<1>a. PICK p \in Pair, d \in Direction : \E w, floor, balance :
         ReceivePins(m, p, d, floor) /\ OpenFlow(m, p, d, w, floor, balance)
  BY DEF Receive, ReceiveRedeem, ReceiveDelayed, ReceiveSkip
<1>1. PICK w, floor, balance :
         ReceivePins(m, p, d, floor) /\ OpenFlow(m, p, d, w, floor, balance)
  BY <1>a
<1>2. \A y \in Message : y # m => flow'[y] = flow[y]
  BY <1>1 DEF OpenFlow, TypeOK
<1>3. /\ flow'[m].recipient = Transfer[m].to[1]
      /\ flow'[m].min_swap_out = Transfer[m].to[2]
      /\ flow'[m].status = "Received" /\ flow'[m].amount = Transfer[m].amount
      /\ Transfer[m].token = RecvToken(flow'[m].pair, flow'[m].direction)
  BY <1>1 DEF OpenFlow, TypeOK, RecipientBound, ReceivePins
<1>4. BoundToMessage'
  BY <1>2, <1>3 DEF BoundToMessage, IsOpen
<1>5. SettlesAboveFloor'
  BY <1>2, <1>3 DEF SettlesAboveFloor, IsOpen
<1>. QED  BY <1>4, <1>5

LEMMA BoundSwap ==
  ASSUME TypeOK, BoundToMessage, SettlesAboveFloor, NEW m \in Message, IsOpen(m), Swaps(m)
  PROVE  BoundToMessage' /\ SettlesAboveFloor'
<1>1. PICK passed, out, consumed : out \in Nat /\ Swap(m, passed, consumed, out)
  <2>1. PICK passed \in SUBSET Token, out \in RouterOutputs : \E consumed : Swap(m, passed, consumed, out)
    BY DEF Swaps
  <2>2. out \in Nat
    BY RelayerAssumption
  <2>. QED  BY <2>1, <2>2, Zenon
<1> DEFINE f == flow[m]
           g == flow'[m]
<1>2. f \in FlowRecord
  BY DEF TypeOK, IsOpen
<1>3. \A y \in Message : y # m => flow'[y] = flow[y]
  BY <1>1 DEF Swap, TypeOK
<1>4. /\ g.recipient = f.recipient /\ g.min_swap_out = f.min_swap_out
      /\ g.pair = f.pair /\ g.direction = f.direction
      /\ g.status = "Swapped" /\ g.amount = out - FeeOut(f, out)
      /\ out >= f.min_swap_out
  BY <1>1, <1>2 DEF Swap, TypeOK, FlowRecord, FloorMet
<1>5. BoundToMessage'
  BY <1>3, <1>4 DEF BoundToMessage, IsOpen
<1>6. /\ out \in Nat /\ f.min_swap_out \in Nat /\ BPS - MAX_FEE_BPS \in Nat
      /\ FeeOut(f, out) \in Nat
      /\ (out - FeeOut(f, out)) * BPS >= out * (BPS - MAX_FEE_BPS)
  <2>1. out \in Nat
    BY <1>1
  <2>2. f.min_swap_out \in Nat
    BY <1>2 DEF FlowRecord, Floor
  <2>3. BPS - MAX_FEE_BPS \in Nat
    <3>1. MAX_FEE_BPS \in 0 .. BPS - 1
      BY RelayerAssumption
    <3>. QED  BY <3>1 DEF BPS
  <2>. HIDE DEF f
  <2>. QED  BY <1>2, <2>1, <2>2, <2>3, SwapFees
<1>7. /\ g.amount * BPS >= f.min_swap_out * (BPS - MAX_FEE_BPS)
      /\ f.direction = "Withdraw" => g.amount >= f.min_swap_out
  <2>. HIDE DEF f, g
  <2>1. ASSUME NEW x \in Nat, NEW y \in Nat, NEW z \in Nat, x >= y  PROVE x * z >= y * z
    BY <2>1
  <2>2. out * (BPS - MAX_FEE_BPS) >= f.min_swap_out * (BPS - MAX_FEE_BPS)
    BY <1>4, <1>6, <2>1
  <2>3. /\ out * (BPS - MAX_FEE_BPS) \in Int
        /\ f.min_swap_out * (BPS - MAX_FEE_BPS) \in Int
        /\ (out - FeeOut(f, out)) * BPS \in Int
    BY <1>6 DEF BPS
  <2>4. g.amount * BPS >= f.min_swap_out * (BPS - MAX_FEE_BPS)
    <3>. HIDE DEF BPS
    <3>. QED  BY <1>4, <1>6, <2>2, <2>3
  <2>5. f.direction = "Withdraw" => FeeOut(f, out) = 0
    BY DEF FeeOut
  <2>6. f.direction = "Withdraw" => g.amount >= f.min_swap_out
    BY <1>4, <1>6, <2>5
  <2>. QED  BY <2>4, <2>6
<1>8. f.recipient = Transfer[m].to[1] /\ f.min_swap_out = Transfer[m].to[2]
  BY DEF BoundToMessage
<1>9. ASSUME NEW y \in Message, IsOpen(y)'
      PROVE  /\ flow'[y].recipient = Transfer[y].to[1]
             /\ flow'[y].status = "Swapped" =>
                  flow'[y].amount * BPS >= Transfer[y].to[2] * (BPS - MAX_FEE_BPS)
             /\ flow'[y].status = "Swapped" /\ flow'[y].direction = "Withdraw" =>
                  flow'[y].amount >= Transfer[y].to[2]
  <2>1. CASE y = m
    BY <1>4, <1>7, <1>8, <2>1
  <2>2. CASE y # m
    <3>1. flow'[y] = flow[y] /\ IsOpen(y)
      BY <1>3, <1>9, <2>2 DEF IsOpen
    <3>. QED  BY <3>1 DEF SettlesAboveFloor
  <2>. QED  BY <2>1, <2>2
<1>. QED  BY <1>5, <1>9 DEF SettlesAboveFloor

LEMMA BoundNext ==
  ASSUME TypeOK, BoundToMessage, SettlesAboveFloor, [Next]_vars
  PROVE  BoundToMessage' /\ SettlesAboveFloor'
<1>1. CASE flow' = flow
  BY <1>1 DEF BoundToMessage, SettlesAboveFloor, IsOpen
<1>2. ASSUME NEW m \in Message, Send(m) \/ Refund(m)
      PROVE  BoundToMessage' /\ SettlesAboveFloor'
  <2>1. flow' = [flow EXCEPT ![m] = NoFlow]
    BY <1>2 DEF Send, Refund, BridgeBack
  <2>2. \A y \in Message : IsOpen(y)' => IsOpen(y) /\ flow'[y] = flow[y]
    BY <2>1 DEF IsOpen, TypeOK
  <2>. QED  BY <2>2 DEF BoundToMessage, SettlesAboveFloor
<1>3. ASSUME NEW m \in Message, NttRedeem(m) \/ NttRelease(m)  PROVE flow' = flow
  BY <1>3 DEF NttRedeem, NttRelease
<1>4. ASSUME NEW p \in Pair, SetFees(p)  PROVE flow' = flow
  BY <1>4 DEF SetFees
<1>5. ASSUME NEW t \in Token, Gift(t)  PROVE flow' = flow
  BY <1>5 DEF Gift
<1>6. CASE Tick \/ UNCHANGED vars
  BY <1>1, <1>6 DEF Tick, vars
<1>. QED
  BY <1>1, <1>2, <1>3, <1>4, <1>5, <1>6, BoundReceive, BoundSwap DEF Next

(* A flow only ever pays the wallet its message names, and what is held    *)
(* for it respects the floor signed in that address up to the fee cap      *)
(* (swap.rs: floor on the gross output; fees as promoted by configure).    *)
THEOREM FloorIsRespected == Spec => []SettlesAboveFloor
<1>1. Init => BoundToMessage /\ SettlesAboveFloor
  BY BoundInit
<1>2. TypeOK /\ BoundToMessage /\ SettlesAboveFloor /\ [Next]_vars
        => BoundToMessage' /\ SettlesAboveFloor'
  BY BoundNext
<1>. QED  BY <1>1, <1>2, TypeCorrect, PTL DEF Spec

(***************************************************************************)
(* The escrows                                                             *)
(***************************************************************************)

LEMMA SidesOfLeg ==
  ASSUME NEW p \in Pair, NEW d \in Direction
  PROVE  OtherSide(RecvToken(p, d)) = SendToken(p, d)
BY DEF OtherSide, RecvToken, SendToken, Direction

(* What the escrow of an open flow is. *)
LEMMA EscrowOfFlow ==
  ASSUME TypeOK, NEW m \in Message
  PROVE  /\ IsOpen(m) =>
              /\ EscrowView[m] = [phase |-> IF flow[m].status = "Received" THEN "held" ELSE "converted",
                                  token |-> HeldIn(flow[m]), amount |-> flow[m].amount]
              /\ EscrowView[m] \in [phase : {"held", "converted"}, token : Token, amount : Nat]
              /\ EscrowView[m] # NoFlow
         /\ ~IsOpen(m) => EscrowView[m] = NoFlow
<1>1. CASE IsOpen(m)
  <2>1. flow[m] \in FlowRecord
    BY <1>1 DEF TypeOK, IsOpen
  <2>2. HeldIn(flow[m]) \in Token /\ flow[m].amount \in Nat
    BY <2>1, HeldInType DEF FlowRecord
  <2>3. EscrowView[m] = [phase |-> IF flow[m].status = "Received" THEN "held" ELSE "converted",
                         token |-> HeldIn(flow[m]), amount |-> flow[m].amount]
    BY <1>1 DEF EscrowView
  <2>4. EscrowView[m] \in [phase : {"held", "converted"}, token : Token, amount : Nat]
    BY <2>2, <2>3
  <2>. QED  BY <1>1, <2>3, <2>4, NoFlowAssumption
<1>2. CASE ~IsOpen(m)
  BY <1>2 DEF EscrowView
<1>. QED  BY <1>1, <1>2

(* A step that leaves the flows of all other messages alone changes one    *)
(* escrow.                                                                 *)
LEMMA EscrowUpdate ==
  ASSUME NEW m \in Message, \A y \in Message : y # m => flow'[y] = flow[y]
  PROVE  EscrowView' = [EscrowView EXCEPT ![m] = EscrowView'[m]]
<1>1. \A y \in Message : y # m => EscrowView'[y] = EscrowView[y]
  BY DEF EscrowView, IsOpen
<1>2. /\ EscrowView = [y \in Message |-> EscrowView[y]]
      /\ EscrowView' = [y \in Message |-> EscrowView'[y]]
  BY DEF EscrowView
<1>. HIDE DEF EscrowView
<1>. QED  BY <1>1, <1>2

(* `receive` opens the escrow of its message with the whole amount. *)
LEMMA EscrowReceive ==
  ASSUME TypeOK, TypeOK', NEW m \in Message, Receive(m)
  PROVE  Escrow!Open(m)
<1>a. PICK p \in Pair, d \in Direction : \E w, floor, balance :
         ReceivePins(m, p, d, floor) /\ OpenFlow(m, p, d, w, floor, balance)
  BY DEF Receive, ReceiveRedeem, ReceiveDelayed, ReceiveSkip
<1>1. PICK w, floor, balance :
         ReceivePins(m, p, d, floor) /\ OpenFlow(m, p, d, w, floor, balance)
  BY <1>a
<1>2. flow'[m] = [pair |-> p, direction |-> d, status |-> "Received", recipient |-> w,
                  min_swap_out |-> floor, amount |-> Transfer[m].amount, received_slot |-> slot]
  BY <1>1 DEF OpenFlow, TypeOK
<1>3. \A y \in Message : y # m => flow'[y] = flow[y]
  BY <1>1 DEF OpenFlow, TypeOK
<1>4. IsOpen(m)'
  <2>1. w \in Wallet /\ floor \in Floor /\ Transfer[m].amount \in Nat
    BY <1>1, TransferType DEF OpenFlow, RecipientBound, InboxAuthority
  <2>2. flow'[m] \in FlowRecord
    BY <1>2, <2>1 DEF FlowRecord, TypeOK
  <2>. QED  BY <2>2, NoFlowAssumption DEF IsOpen
<1>5. /\ flow'[m].status = "Received" /\ flow'[m].amount = Transfer[m].amount
      /\ HeldIn(flow'[m]) = Transfer[m].token
  BY <1>1, <1>2 DEF HeldIn, ReceivePins
<1>6. EscrowView'[m] = [phase |-> "held", token |-> Transfer[m].token,
                        amount |-> Transfer[m].amount]
  BY <1>4, <1>5 DEF EscrowView
<1>7. EscrowView[m] = NoFlow
  BY <1>1 DEF EscrowView, ReceivePins, IsOpen
<1>8. Orders[m].token = Transfer[m].token /\ Orders[m].amount = Transfer[m].amount
  BY DEF Orders
<1>9. EscrowView' = [EscrowView EXCEPT ![m] = EscrowView'[m]]
  BY <1>3, EscrowUpdate
<1>10. paid' = paid
  BY <1>1 DEF OpenFlow
<1>. QED  BY <1>6, <1>7, <1>8, <1>9, <1>10 DEF Escrow!Open

(* `swap` converts it, at no less than the floor allows. *)
LEMMA EscrowSwap ==
  ASSUME TypeOK, TypeOK', BoundToMessage, SettlesAboveFloor',
         NEW m \in Message, IsOpen(m), Swaps(m)
  PROVE  Escrow!Convert(m)
<1>1. PICK passed, out, consumed : out \in Nat /\ Swap(m, passed, consumed, out)
  <2>1. PICK passed \in SUBSET Token, out \in RouterOutputs : \E consumed : Swap(m, passed, consumed, out)
    BY DEF Swaps
  <2>2. out \in Nat
    BY RelayerAssumption
  <2>. QED  BY <2>1, <2>2, Zenon
<1> DEFINE f == flow[m]
           g == flow'[m]
<1>2. f \in FlowRecord /\ f.pair \in Pair /\ f.direction \in Direction
  BY DEF TypeOK, IsOpen, FlowRecord
<1>3. \A y \in Message : y # m => flow'[y] = flow[y]
  BY <1>1 DEF Swap, TypeOK
<1>4. g = [f EXCEPT !.amount = out - FeeOut(f, out), !.status = "Swapped"]
  BY <1>1 DEF Swap, TypeOK
<1>5. /\ f.status = "Received" /\ g.status = "Swapped"
      /\ g.pair = f.pair /\ g.direction = f.direction
      /\ g.amount = out - FeeOut(f, out) /\ g.amount > 0
  <2>1. f.status = "Received" /\ out - FeeOut(f, out) > 0
    BY <1>1 DEF Swap
  <2>. QED  BY <1>2, <1>4, <2>1 DEF FlowRecord
<1>6. g \in FlowRecord
  <2>1. out - FeeOut(f, out) \in Nat
    BY <1>1, <1>2, SwapFees
  <2>. QED  BY <1>2, <1>4, <2>1 DEF FlowRecord
<1>7. IsOpen(m)'
  BY <1>6, NoFlowAssumption DEF IsOpen
<1>8. HeldIn(g) = Orders[m].other
  <2>1. HeldIn(g) = SendToken(f.pair, f.direction)
    BY <1>5 DEF HeldIn
  <2>2. Transfer[m].token = RecvToken(f.pair, f.direction)
    BY DEF BoundToMessage
  <2>. QED  BY <1>2, <2>1, <2>2, SidesOfLeg DEF Orders
<1>9. EscrowView'[m] = [phase |-> "converted", token |-> Orders[m].other, amount |-> g.amount]
  BY <1>5, <1>7, <1>8 DEF EscrowView
<1>10. EscrowView[m] # NoFlow /\ EscrowView[m].phase = "held"
  <2>1. /\ EscrowView[m] = [phase |-> IF f.status = "Received" THEN "held" ELSE "converted",
                            token |-> HeldIn(f), amount |-> f.amount]
        /\ EscrowView[m] # NoFlow
    BY EscrowOfFlow, Zenon
  <2>. QED  BY <1>5, <2>1
<1>11. g.amount * BPS >= Orders[m].floor * (BPS - MAX_FEE_BPS)
  BY <1>5, <1>7 DEF SettlesAboveFloor, Orders
<1>12. EscrowView' = [EscrowView EXCEPT ![m] = EscrowView'[m]]
  BY <1>3, EscrowUpdate
<1>13. g.amount \in Nat
  BY <1>6 DEF FlowRecord
<1>14. paid' = paid
  BY <1>1 DEF Swap
<1>15. /\ EscrowView'[m] \in [phase : {"converted"}, token : {Orders[m].other}, amount : Nat]
       /\ EscrowView'[m].amount = g.amount
  BY <1>9, <1>13
<1>. HIDE DEF f, g
<1>. QED  BY <1>5, <1>10, <1>11, <1>12, <1>14, <1>15 DEF Escrow!Convert, Escrow!ConvertedEnough

(* `send` and `refund` pay the escrow to the wallet of its order but for   *)
(* the trim, which takes nothing from an amount that came over the bridge. *)
LEMMA EscrowBridgeBack ==
  ASSUME TypeOK, TypeOK', BoundToMessage, NEW m \in Message, IsOpen(m), BridgeBack(m)
  PROVE  Escrow!Close(m)
<1>1. \A y \in Message : y # m => flow'[y] = flow[y]
  BY BridgeBackStep DEF TypeOK
<1>2. ~IsOpen(m)'
  BY BridgeBackStep DEF TypeOK, IsOpen
<1>3. EscrowView' = [EscrowView EXCEPT ![m] = NoFlow]
  <2>1. EscrowView' = [EscrowView EXCEPT ![m] = EscrowView'[m]]
    BY <1>1, EscrowUpdate
  <2>2. EscrowView'[m] = NoFlow
    BY <1>2 DEF EscrowView
  <2>. QED  BY <2>1, <2>2
<1>4. /\ EscrowView[m] # NoFlow
      /\ EscrowView[m].token = HeldIn(flow[m]) /\ EscrowView[m].amount = flow[m].amount
      /\ EscrowView[m].phase = "held" => flow[m].status = "Received"
  <2>1. /\ EscrowView[m] = [phase |-> IF flow[m].status = "Received" THEN "held" ELSE "converted",
                            token |-> HeldIn(flow[m]), amount |-> flow[m].amount]
        /\ EscrowView[m] # NoFlow
    BY EscrowOfFlow, Zenon
  <2>. QED  BY <2>1
<1>5. Orders[m].recipient = flow[m].recipient
  BY DEF Orders, BoundToMessage
<1>6. /\ flow[m].amount \in Nat /\ Sent(flow[m]) \in 0 .. flow[m].amount
      /\ flow[m].amount - Sent(flow[m]) < TrimUnit[HeldIn(flow[m])]
  <2>1. flow[m] \in FlowRecord
    BY DEF TypeOK, IsOpen
  <2>. QED  BY <2>1, SentBounds
<1>7. flow[m].status = "Received" => Sent(flow[m]) = flow[m].amount
  <2>1. flow[m].status = "Received" =>
          flow[m].amount = Transfer[m].amount /\ HeldIn(flow[m]) = Transfer[m].token
    BY DEF BoundToMessage, HeldIn
  <2>2. applyNttTrim(Transfer[m].amount, TrimUnit[Transfer[m].token]) = Transfer[m].amount
    BY RelayerAssumption
  <2>. QED  BY <2>1, <2>2 DEF Sent
<1>8. paid' = [paid EXCEPT ![<<flow[m].recipient, HeldIn(flow[m])>>] = @ + Sent(flow[m])]
  BY BridgeBackStep
<1>. HIDE DEF EscrowView, Orders
<1>. QED  BY <1>3, <1>4, <1>5, <1>6, <1>7, <1>8 DEF Escrow!Close

LEMMA EscrowInit == Init => Escrow!Init
BY DEF Init, Escrow!Init, EscrowView, IsOpen

LEMMA EscrowNext ==
  ASSUME TypeOK, TypeOK', BoundToMessage, SettlesAboveFloor', [Next]_vars
  PROVE  [Escrow!Next]_(Escrow!vars)
<1>1. CASE flow' = flow /\ paid' = paid
  BY <1>1 DEF Escrow!vars, EscrowView, IsOpen
<1>2. ASSUME NEW m \in Message, Receive(m)  PROVE Escrow!Next
  BY <1>2, EscrowReceive DEF Escrow!Next
<1>3. ASSUME NEW m \in Message, IsOpen(m), Swaps(m)  PROVE Escrow!Next
  BY <1>3, EscrowSwap DEF Escrow!Next
<1>4. ASSUME NEW m \in Message, Send(m) \/ Refund(m)  PROVE Escrow!Next
  BY <1>4, EscrowBridgeBack DEF Escrow!Next, Send, Refund
<1>5. ASSUME NEW m \in Message, NttRedeem(m) \/ NttRelease(m)  PROVE flow' = flow /\ paid' = paid
  BY <1>5 DEF NttRedeem, NttRelease
<1>6. ASSUME NEW p \in Pair, SetFees(p)  PROVE flow' = flow /\ paid' = paid
  BY <1>6 DEF SetFees
<1>7. ASSUME NEW t \in Token, Gift(t)  PROVE flow' = flow /\ paid' = paid
  BY <1>7 DEF Gift
<1>8. CASE Tick \/ UNCHANGED vars
  BY <1>1, <1>8 DEF Tick, vars
<1>. QED
  BY <1>1, <1>2, <1>3, <1>4, <1>5, <1>6, <1>7, <1>8 DEF Next

(* The shared-custody program implements one escrow per message: whatever  *)
(* the routers, the inbox paths and the other flows do, a flow goes from   *)
(* its message's amount to a conversion above the floor and then, but for  *)
(* less than one trim unit, to the message's wallet, or back unconverted   *)
(* and whole.                                                              *)
THEOREM EscrowIsImplemented == Spec => Escrow!Spec
<1>1. Init => BoundToMessage /\ SettlesAboveFloor
  BY BoundInit
<1>2. TypeOK /\ BoundToMessage /\ SettlesAboveFloor /\ [Next]_vars
        => BoundToMessage' /\ SettlesAboveFloor'
  BY BoundNext
<1>3. TypeOK /\ TypeOK' /\ BoundToMessage /\ SettlesAboveFloor' /\ [Next]_vars
        => [Escrow!Next]_(Escrow!vars)
  BY EscrowNext
<1>. QED  BY <1>1, <1>2, <1>3, EscrowInit, TypeCorrect, PTL DEF Spec, Escrow!Spec

=============================================================================
