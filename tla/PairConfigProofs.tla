-------------------------- MODULE PairConfigProofs --------------------------
(* Proofs about the relayer's governance for every set of keys and mints,  *)
(* every timelock and every fee cap.                                       *)
EXTENDS PairConfig, TLAPS

(***************************************************************************)
(* The fee operators                                                       *)
(***************************************************************************)

LEMMA PromoteType ==
  ASSUME NEW c \in Config, NEW now \in Nat
  PROVE  /\ Promote(c, now) \in Config
         /\ Promote(c, now).authority = c.authority
         /\ Promote(c, now).pending_authority = c.pending_authority
         /\ Promote(c, now).fee_vault = c.fee_vault
<1>1. CASE c.pending_fee = None \/ now < c.pending_fee.ready_slot
  BY <1>1 DEF Promote
<1>2. CASE ~(c.pending_fee = None \/ now < c.pending_fee.ready_slot)
  <2> DEFINE fee == [l \in Leg |-> IF c.pending_fee.fee[l] = None
                                   THEN c.fee[l] ELSE c.pending_fee.fee[l]]
  <2>1. fee \in [Leg -> Nat]
    BY <1>2 DEF Config, PendingFee
  <2>. HIDE DEF fee
  <2>2. Promote(c, now) = [c EXCEPT !.fee = fee, !.pending_fee = None]
    BY <1>2 DEF Promote, fee
  <2>. QED  BY <2>1, <2>2 DEF Config
<1>. QED  BY <1>1, <1>2

LEMMA LowerType ==
  ASSUME NEW c \in Config, NEW leg \in Leg, NEW x \in Nat
  PROVE  /\ Lower(c, leg, x) \in Config
         /\ Lower(c, leg, x).authority = c.authority
         /\ Lower(c, leg, x).pending_authority = c.pending_authority
         /\ Lower(c, leg, x).fee_vault = c.fee_vault
<1> DEFINE left == [c.pending_fee.fee EXCEPT ![leg] = None]
           pending == IF c.pending_fee = None \/ \A l \in Leg : left[l] = None
                      THEN None ELSE [fee |-> left, ready_slot |-> c.pending_fee.ready_slot]
<1>1. pending \in PendingFee \cup {None}
  BY DEF Config, PendingFee
<1>2. [c.fee EXCEPT ![leg] = x] \in [Leg -> Nat]
  BY DEF Config
<1>. HIDE DEF pending
<1>3. Lower(c, leg, x) = [c EXCEPT !.fee = [c.fee EXCEPT ![leg] = x], !.pending_fee = pending]
  BY DEF Lower, pending
<1>. QED  BY <1>1, <1>2, <1>3 DEF Config

LEMMA RaiseType ==
  ASSUME NEW c \in Config, NEW leg \in Leg, NEW x \in Nat, NEW now \in Nat
  PROVE  /\ Raise(c, leg, x, now) \in Config
         /\ Raise(c, leg, x, now).authority = c.authority
         /\ Raise(c, leg, x, now).pending_authority = c.pending_authority
         /\ Raise(c, leg, x, now).fee_vault = c.fee_vault
<1> DEFINE staged == IF c.pending_fee = None THEN [l \in Leg |-> None] ELSE c.pending_fee.fee
           pending == [fee |-> [staged EXCEPT ![leg] = x], ready_slot |-> ReadySlot(c, now)]
<1>1. pending \in PendingFee
  <2>1. staged \in [Leg -> Nat \cup {None}]
    BY DEF Config, PendingFee
  <2>2. ReadySlot(c, now) \in Nat
    BY ConfigAssumption DEF Config, PendingFee, ReadySlot
  <2>. QED  BY <2>1, <2>2 DEF PendingFee
<1>. HIDE DEF pending
<1>2. Raise(c, leg, x, now) = [c EXCEPT !.pending_fee = pending]
  BY DEF Raise, pending
<1>. QED  BY <1>1, <1>2 DEF Config

LEMMA ProposeType ==
  ASSUME NEW c \in Config, NEW leg \in Leg, NEW x \in Nat \cup {None}, NEW now \in Nat
  PROVE  /\ Propose(c, leg, x, now) \in Config
         /\ Propose(c, leg, x, now).authority = c.authority
         /\ Propose(c, leg, x, now).pending_authority = c.pending_authority
         /\ Propose(c, leg, x, now).fee_vault = c.fee_vault
BY LowerType, RaiseType DEF Propose

LEMMA ReconfiguredType ==
  ASSUME NEW c \in Config, NEW d \in Nat \cup {None}, NEW w \in Nat \cup {None}, NEW now \in Nat
  PROVE  /\ Reconfigured(c, d, w, now) \in Config
         /\ Reconfigured(c, d, w, now).authority = c.authority
         /\ Reconfigured(c, d, w, now).pending_authority = c.pending_authority
         /\ Reconfigured(c, d, w, now).fee_vault = c.fee_vault
<1> DEFINE c1 == Promote(c, now)
           c2 == Propose(c1, "deposit", d, now)
<1>1. "deposit" \in Leg /\ "withdraw" \in Leg
  BY DEF Leg
<1>2. c1 \in Config /\ c1.authority = c.authority /\ c1.fee_vault = c.fee_vault
      /\ c1.pending_authority = c.pending_authority
  BY PromoteType
<1>. HIDE DEF c1
<1>3. c2 \in Config /\ c2.authority = c.authority /\ c2.fee_vault = c.fee_vault
      /\ c2.pending_authority = c.pending_authority
  BY <1>1, <1>2, ProposeType
<1>. HIDE DEF c2
<1>4. Reconfigured(c, d, w, now) = Propose(c2, "withdraw", w, now)
  BY DEF Reconfigured, c1, c2
<1>. QED  BY <1>1, <1>3, <1>4, ProposeType

(***************************************************************************)
(* The notice period. Sound is the strengthening: a staged value is a      *)
(* raise, and one above what a user was shown is not ripe until that       *)
(* user's notice has run out.                                              *)
(***************************************************************************)

NoticeRecord == [slot : Nat, ceiling : [Leg -> Nat]]

Sound(c, n, now) ==
  /\ c.pending_fee # None =>
       \A l \in Leg : c.pending_fee.fee[l] # None => c.pending_fee.fee[l] > c.fee[l]
  /\ n # None =>
       /\ n.slot <= now
       /\ now < n.slot + FEE_TIMELOCK_SLOTS => \A l \in Leg : c.fee[l] <= n.ceiling[l]
       /\ c.pending_fee # None =>
            \A l \in Leg : c.pending_fee.fee[l] # None =>
              \/ c.pending_fee.fee[l] <= n.ceiling[l]
              \/ c.pending_fee.ready_slot >= n.slot + FEE_TIMELOCK_SLOTS

LEMMA PromoteSound ==
  ASSUME NEW c \in Config, NEW n \in NoticeRecord \cup {None}, NEW now \in Nat, Sound(c, n, now)
  PROVE  Sound(Promote(c, now), n, now)
<1>1. CASE c.pending_fee = None \/ now < c.pending_fee.ready_slot
  BY <1>1 DEF Promote
<1>2. CASE ~(c.pending_fee = None \/ now < c.pending_fee.ready_slot)
  <2> DEFINE fee == [l \in Leg |-> IF c.pending_fee.fee[l] = None
                                   THEN c.fee[l] ELSE c.pending_fee.fee[l]]
             p == c.pending_fee
  <2>1. p \in PendingFee /\ c.fee \in [Leg -> Nat]
    BY <1>2 DEF Config
  <2>2. ASSUME n # None, now < n.slot + FEE_TIMELOCK_SLOTS, NEW l \in Leg
        PROVE  fee[l] <= n.ceiling[l]
    <3>1. CASE p.fee[l] = None
      BY <2>2, <3>1 DEF Sound
    <3>2. CASE p.fee[l] # None
      <4>1. p.ready_slot \in Nat /\ n.slot \in Nat /\ ~(now < p.ready_slot)
        BY <1>2, <2>1, <2>2 DEF PendingFee, NoticeRecord
      <4>2. ~(p.ready_slot >= n.slot + FEE_TIMELOCK_SLOTS)
        BY <2>2, <4>1, ConfigAssumption
      <4>. QED  BY <1>2, <2>2, <3>2, <4>2 DEF Sound
    <3>. QED  BY <3>1, <3>2
  <2>. HIDE DEF fee, p
  <2>3. Promote(c, now) = [c EXCEPT !.fee = fee, !.pending_fee = None]
    BY <1>2 DEF Promote, fee
  <2>4. Promote(c, now).fee = fee /\ Promote(c, now).pending_fee = None
    BY <2>3 DEF Config
  <2>. QED  BY <2>2, <2>4 DEF Sound
<1>. QED  BY <1>1, <1>2

LEMMA LowerSound ==
  ASSUME NEW c \in Config, NEW n \in NoticeRecord \cup {None}, NEW now \in Nat,
         Sound(c, n, now), NEW leg \in Leg, NEW x \in Nat, x <= c.fee[leg]
  PROVE  Sound(Lower(c, leg, x), n, now)
<1> DEFINE left == [c.pending_fee.fee EXCEPT ![leg] = None]
           pending == IF c.pending_fee = None \/ \A l \in Leg : left[l] = None
                      THEN None ELSE [fee |-> left, ready_slot |-> c.pending_fee.ready_slot]
           fee == [c.fee EXCEPT ![leg] = x]
<1>1. /\ c.fee \in [Leg -> Nat]
      /\ \A l \in Leg : fee[l] \in Nat /\ fee[l] <= c.fee[l]
  BY DEF Config
<1>2. pending # None =>
        /\ c.pending_fee # None
        /\ pending.ready_slot = c.pending_fee.ready_slot
        /\ \A l \in Leg : pending.fee[l] # None => pending.fee[l] = c.pending_fee.fee[l]
  BY DEF Config, PendingFee
<1>3. \A l \in Leg : c.pending_fee # None /\ c.pending_fee.fee[l] # None
                       => c.pending_fee.fee[l] \in Nat
  BY DEF Config, PendingFee
<1>4. n # None => \A l \in Leg : n.ceiling[l] \in Nat
  BY DEF NoticeRecord
<1>. HIDE DEF fee, pending
<1>5. Lower(c, leg, x).fee = fee /\ Lower(c, leg, x).pending_fee = pending
  BY DEF Lower, Config, fee, pending
<1>6. pending # None => \A l \in Leg : pending.fee[l] # None => pending.fee[l] > fee[l]
  BY <1>1, <1>2, <1>3 DEF Sound
<1>7. n # None /\ now < n.slot + FEE_TIMELOCK_SLOTS => \A l \in Leg : fee[l] <= n.ceiling[l]
  BY <1>1, <1>4 DEF Sound
<1>8. n # None /\ pending # None =>
        \A l \in Leg : pending.fee[l] # None =>
          \/ pending.fee[l] <= n.ceiling[l]
          \/ pending.ready_slot >= n.slot + FEE_TIMELOCK_SLOTS
  BY <1>2 DEF Sound
<1>9. n # None => n.slot <= now
  BY DEF Sound
<1>. QED  BY <1>5, <1>6, <1>7, <1>8, <1>9 DEF Sound

LEMMA RaiseSound ==
  ASSUME NEW c \in Config, NEW n \in NoticeRecord \cup {None}, NEW now \in Nat,
         Sound(c, n, now), NEW leg \in Leg, NEW x \in Nat, x > c.fee[leg]
  PROVE  Sound(Raise(c, leg, x, now), n, now)
<1> DEFINE staged == IF c.pending_fee = None THEN [l \in Leg |-> None] ELSE c.pending_fee.fee
           fee == [staged EXCEPT ![leg] = x]
           ready == ReadySlot(c, now)
           pending == [fee |-> fee, ready_slot |-> ready]
<1>1. \A l \in Leg : fee[l] # None =>
        \/ l = leg /\ fee[l] = x
        \/ c.pending_fee # None /\ fee[l] = c.pending_fee.fee[l]
  BY DEF Config, PendingFee
<1>2. /\ ready \in Nat
      /\ ready >= now + FEE_TIMELOCK_SLOTS
      /\ c.pending_fee # None => ready >= c.pending_fee.ready_slot
  BY ConfigAssumption DEF Config, PendingFee, ReadySlot
<1>3. n # None => n.slot \in Nat /\ n.slot <= now /\ ready >= n.slot + FEE_TIMELOCK_SLOTS
  BY <1>2, ConfigAssumption DEF NoticeRecord, Sound
<1>. HIDE DEF fee, ready
<1>4. pending # None /\ pending.fee = fee /\ pending.ready_slot = ready
  <2>1. fee \in [Leg -> Nat \cup {None}]
    BY DEF fee, Config, PendingFee
  <2>. QED  BY <1>2, <2>1, NoConfigAssumption DEF PendingFee
<1>. HIDE DEF pending
<1>5. Raise(c, leg, x, now) = [c EXCEPT !.pending_fee = pending]
  BY DEF Raise, pending, fee, ready
<1>6. Raise(c, leg, x, now).fee = c.fee /\ Raise(c, leg, x, now).pending_fee = pending
  BY <1>5 DEF Config
<1>7. \A l \in Leg : fee[l] # None => fee[l] > c.fee[l]
  BY <1>1 DEF Sound
<1>. QED  BY <1>3, <1>4, <1>6, <1>7 DEF Sound

LEMMA ProposeSound ==
  ASSUME NEW c \in Config, NEW n \in NoticeRecord \cup {None}, NEW now \in Nat,
         Sound(c, n, now), NEW leg \in Leg, NEW x \in Nat \cup {None}
  PROVE  Sound(Propose(c, leg, x, now), n, now)
<1>1. c.fee[leg] \in Nat
  BY DEF Config
<1>2. CASE x = None
  BY <1>2 DEF Propose
<1>3. CASE x \in Nat /\ x <= c.fee[leg]
  BY <1>3, LowerSound, NoneAssumption DEF Propose
<1>4. CASE x \in Nat /\ ~(x <= c.fee[leg])
  <2>1. x > c.fee[leg]
    BY <1>1, <1>4
  <2>. QED  BY <1>4, <2>1, RaiseSound, NoneAssumption DEF Propose
<1>. QED  BY <1>2, <1>3, <1>4

LEMMA ReconfiguredSound ==
  ASSUME NEW c \in Config, NEW n \in NoticeRecord \cup {None}, NEW now \in Nat,
         Sound(c, n, now), NEW d \in Nat \cup {None}, NEW w \in Nat \cup {None}
  PROVE  Sound(Reconfigured(c, d, w, now), n, now)
<1> DEFINE c1 == Promote(c, now)
           c2 == Propose(c1, "deposit", d, now)
<1>1. "deposit" \in Leg /\ "withdraw" \in Leg
  BY DEF Leg
<1>2. c1 \in Config /\ Sound(c1, n, now)
  BY PromoteType, PromoteSound
<1>. HIDE DEF c1
<1>3. c2 \in Config /\ Sound(c2, n, now)
  BY <1>1, <1>2, ProposeType, ProposeSound
<1>. HIDE DEF c2
<1>4. Reconfigured(c, d, w, now) = Propose(c2, "withdraw", w, now)
  BY DEF Reconfigured, c1, c2
<1>. QED  BY <1>1, <1>3, <1>4, ProposeSound

(***************************************************************************)
(* What `configure` leaves in a pair's account                             *)
(***************************************************************************)

(* What `configure` leaves of the pair p, and what it had found there. *)
Configured(done, k, p, d, w, new) ==
  /\ config' = [config EXCEPT ![p] = done]
  /\ config[p] \in Config /\ config[p].authority = k
  /\ Valid(done)
  /\ done.fee = Reconfigured(config[p], d, w, slot).fee
  /\ done.pending_fee = Reconfigured(config[p], d, w, slot).pending_fee
  /\ done.authority = k
  /\ done.fee_vault = config[p].fee_vault \/ VaultAllowed(done.fee_vault, p[2])
  /\ \/ new = None /\ done.pending_authority = config[p].pending_authority
     \/ new = Default /\ done.pending_authority = None
     \/ new \in Key /\ new # k /\ done.pending_authority = new

LEMMA ConfigureEffect ==
  ASSUME TypeOK, NEW k \in Key, NEW p \in PairId,
         NEW d \in FeeInputs \cup {None}, NEW w \in FeeInputs \cup {None},
         NEW vault \in Account \cup {None}, NEW new \in Key \cup {Default, None},
         Configure(k, p, d, w, vault, new)
  PROVE  \E done \in Config : Configured(done, k, p, d, w, new)
<1> DEFINE c == Reconfigured(config[p], d, w, slot)
           vaulted == IF vault = None THEN c ELSE [c EXCEPT !.fee_vault = vault]
           done == CASE new = None    -> vaulted
                     [] new = Default -> [vaulted EXCEPT !.pending_authority = None]
                     [] OTHER         -> [vaulted EXCEPT !.pending_authority = new]
<1>1. /\ config[p] \in Config /\ config[p].authority = k /\ Valid(done)
      /\ config' = [config EXCEPT ![p] = done]
      /\ vault # None => VaultAllowed(vault, p[2])
      /\ new # config[p].authority
  BY DEF Configure, TypeOK, Initialized
<1>2. d \in Nat \cup {None} /\ w \in Nat \cup {None} /\ slot \in Nat
  BY ConfigAssumption DEF TypeOK
<1>3. /\ c \in Config /\ c.authority = k /\ c.fee_vault = config[p].fee_vault
      /\ c.pending_authority = config[p].pending_authority
  <2> DEFINE b == config[p]
  <2>1. b \in Config /\ b.authority = k
    BY <1>1
  <2>. HIDE DEF b
  <2>2. /\ Reconfigured(b, d, w, slot) \in Config
        /\ Reconfigured(b, d, w, slot).authority = b.authority
        /\ Reconfigured(b, d, w, slot).pending_authority = b.pending_authority
        /\ Reconfigured(b, d, w, slot).fee_vault = b.fee_vault
    BY <1>2, <2>1, ReconfiguredType
  <2>. QED  BY <2>1, <2>2, Zenon DEF b
<1>. HIDE DEF c
<1>4. /\ vaulted \in Config /\ vaulted.authority = k
      /\ vaulted.fee = c.fee /\ vaulted.pending_fee = c.pending_fee
      /\ vaulted.pending_authority = config[p].pending_authority
      /\ vaulted.fee_vault = config[p].fee_vault \/ VaultAllowed(vaulted.fee_vault, p[2])
  <2>1. CASE vault = None
    BY <1>3, <2>1
  <2>2. CASE vault # None
    BY <1>1, <1>3, <2>2 DEF Config
  <2>. QED  BY <2>1, <2>2
<1>. HIDE DEF vaulted
<1>5. None # Default /\ None \notin Key
  BY NoneAssumption
<1>6. /\ done \in Config /\ done.authority = k /\ done.fee_vault = vaulted.fee_vault
      /\ done.fee = c.fee /\ done.pending_fee = c.pending_fee
      /\ \/ new = None /\ done.pending_authority = config[p].pending_authority
         \/ new = Default /\ done.pending_authority = None
         \/ new \in Key /\ new # k /\ done.pending_authority = new
  <2>1. CASE new = None
    <3>1. done = vaulted
      BY <1>5, <2>1
    <3>. HIDE DEF done
    <3>. QED  BY <1>4, <2>1, <3>1
  <2>2. CASE new = Default
    <3>1. done = [vaulted EXCEPT !.pending_authority = None]
      BY <1>5, <2>2
    <3>. QED  BY <1>4, <2>2, <3>1 DEF Config
  <2>3. CASE new # None /\ new # Default
    <3>1. done = [vaulted EXCEPT !.pending_authority = new] /\ new \in Key
      BY <2>3
    <3>. QED  BY <1>1, <1>4, <3>1 DEF Config
  <2>. QED  BY <2>1, <2>2, <2>3
<1>. HIDE DEF done
<1>. QED  BY <1>1, <1>4, <1>6 DEF c, Configured

(***************************************************************************)
(* Type correctness                                                        *)
(***************************************************************************)

LEMMA ValidIsCapped ==
  ASSUME NEW c \in Config, Valid(c)
  PROVE  Capped(c)
BY DEF Valid, Capped, Ceiling, Config

LEMMA ConfigTypeInit == Init => TypeOK
BY DEF Init, TypeOK, Initialized

LEMMA InitializeEffect ==
  ASSUME TypeOK, NEW k \in Key, NEW p \in PairId, NEW vault \in Account,
         NEW d \in FeeInputs, NEW w \in FeeInputs, Initialize(k, p, vault, d, w)
  PROVE  \E c \in Config :
           /\ config' = [config EXCEPT ![p] = c]
           /\ Valid(c) /\ c.pending_fee = None /\ c.pending_authority = None
           /\ c.fee_vault = vault /\ c.authority = k
<1> DEFINE fee == [l \in Leg |-> IF l = "deposit" THEN d ELSE w]
           c == [authority |-> k, pending_authority |-> None, fee_vault |-> vault,
                 fee |-> fee, pending_fee |-> None]
<1>1. fee \in [Leg -> Nat] /\ \A l \in Leg : fee[l] <= MAX_FEE_BPS
  BY ConfigAssumption DEF Initialize
<1>2. config' = [config EXCEPT ![p] = c]
  BY DEF Initialize
<1>. HIDE DEF fee
<1>3. c \in Config /\ Valid(c)
  BY <1>1 DEF Config, Valid
<1>. QED  BY <1>2, <1>3

LEMMA ConfigTypeNext == TypeOK /\ [Next]_vars => TypeOK'
<1> SUFFICES ASSUME TypeOK, [Next]_vars  PROVE TypeOK'
  OBVIOUS
<1>1. ASSUME NEW k \in Key, Bootstrap(k) \/ AcceptAdmin(k)  PROVE TypeOK'
  BY <1>1 DEF TypeOK, Bootstrap, AcceptAdmin, Initialized
<1>2. ASSUME NEW k \in Key, NEW new \in Key \cup {Default}, SetAdmin(k, new)  PROVE TypeOK'
  BY <1>2 DEF TypeOK, SetAdmin, Initialized
<1>3. ASSUME NEW k \in Key, NEW p \in PairId, NEW vault \in Account,
             NEW d \in FeeInputs, NEW w \in FeeInputs, Initialize(k, p, vault, d, w)
      PROVE  TypeOK'
  <2>1. PICK c \in Config : config' = [config EXCEPT ![p] = c] /\ Capped(c)
    BY <1>3, InitializeEffect, ValidIsCapped
  <2>2. config' \in [PairId -> Config \cup {None}]
    BY <2>1 DEF TypeOK
  <2>3. \A q \in PairId : config'[q] # None => Capped(config'[q])
    BY <2>1 DEF TypeOK, Initialized
  <2>4. custody' \subseteq Mint
    BY <1>3 DEF Initialize, TypeOK, PairId
  <2>5. asked' \in [PairId -> [Leg -> Nat]]
    <3>1. [l \in Leg |-> IF l = "deposit" THEN d ELSE w] \in [Leg -> Nat]
      BY ConfigAssumption
    <3>. QED  BY <1>3, <3>1 DEF Initialize, TypeOK
  <2>. QED  BY <1>3, <2>2, <2>3, <2>4, <2>5 DEF TypeOK, Initialize, Initialized
<1>4. ASSUME NEW k \in Key, NEW p \in PairId,
             NEW d \in FeeInputs \cup {None}, NEW w \in FeeInputs \cup {None},
             NEW vault \in Account \cup {None}, NEW new \in Key \cup {Default, None},
             Configure(k, p, d, w, vault, new)
      PROVE  TypeOK'
  <2>1. PICK c \in Config : config' = [config EXCEPT ![p] = c] /\ Capped(c)
    <3>1. \E c \in Config : Configured(c, k, p, d, w, new)
      BY <1>4, ConfigureEffect
    <3>. QED  BY <3>1, ValidIsCapped DEF Configured
  <2>2. config' \in [PairId -> Config \cup {None}]
    BY <2>1 DEF TypeOK
  <2>3. \A q \in PairId : config'[q] # None => Capped(config'[q])
    BY <2>1 DEF TypeOK, Initialized
  <2>4. /\ proposer' \in [PairId -> Key \cup {None}]
        /\ UNCHANGED <<global, custody, slot, notice>>
    BY <1>4 DEF TypeOK, Configure
  <2>5. asked' \in [PairId -> [Leg -> Nat]]
    <3>1. Asked(Asked(asked[p], "deposit", d), "withdraw", w) \in [Leg -> Nat]
      BY ConfigAssumption DEF TypeOK, Asked, Leg
    <3>. QED  BY <1>4, <3>1 DEF Configure, TypeOK
  <2>. QED  BY <2>2, <2>3, <2>4, <2>5 DEF TypeOK, Initialized
<1>5. ASSUME NEW k \in Key, NEW p \in PairId, AcceptAuthority(k, p)  PROVE TypeOK'
  <2>1. PICK c \in Config : config[p] = c /\ Capped(c)
    BY <1>5 DEF TypeOK, AcceptAuthority, Initialized
  <2>2. Promoted(c, k) \in Config /\ Capped(Promoted(c, k))
    BY <2>1 DEF Promoted, Config, Capped, Ceiling
  <2>3. config' = [config EXCEPT ![p] = Promoted(c, k)]
    BY <1>5, <2>1 DEF AcceptAuthority
  <2>4. config' \in [PairId -> Config \cup {None}]
    BY <2>2, <2>3 DEF TypeOK
  <2>5. \A q \in PairId : config'[q] # None => Capped(config'[q])
    BY <2>2, <2>3 DEF TypeOK, Initialized
  <2>. QED  BY <1>5, <2>4, <2>5 DEF TypeOK, AcceptAuthority, Initialized
<1>6. ASSUME NEW mint \in Mint, CreateAta(mint)  PROVE TypeOK'
  BY <1>6 DEF TypeOK, CreateAta, Initialized
<1>7. ASSUME NEW p \in PairId, Notice(p)  PROVE TypeOK'
  <2>1. PICK c \in Config : config[p] = c
    BY <1>7 DEF TypeOK, Notice, Initialized
  <2>2. Ceiling(c) \in [Leg -> Nat]
    BY DEF Ceiling, Config, PendingFee
  <2>3. notice' = [notice EXCEPT ![p] = [slot |-> slot, ceiling |-> Ceiling(c)]]
    BY <1>7, <2>1 DEF Notice
  <2>4. notice' \in [PairId -> [slot : Nat, ceiling : [Leg -> Nat]] \cup {None}]
    BY <2>2, <2>3 DEF TypeOK
  <2>. QED  BY <1>7, <2>4 DEF TypeOK, Notice, Initialized
<1>8. CASE Tick
  BY <1>8 DEF TypeOK, Tick, Initialized
<1>9. CASE UNCHANGED vars
  BY <1>9 DEF TypeOK, vars, Initialized
<1>. QED
  BY <1>1, <1>2, <1>3, <1>4, <1>5, <1>6, <1>7, <1>8, <1>9 DEF Next

(* Every account the governance instructions write stays well formed and   *)
(* within the fee cap that `validate` enforces.                            *)
THEOREM ConfigTypeCorrect == Spec => []TypeOK
BY ConfigTypeInit, ConfigTypeNext, PTL DEF Spec

(***************************************************************************)
(* Two days' notice                                                        *)
(***************************************************************************)

AllSound ==
  \A p \in PairId :
    /\ Initialized(p) => Sound(config[p], notice[p], slot)
    /\ notice[p] # None => Initialized(p)

LEMMA SoundInit == Init => AllSound
BY DEF Init, AllSound, Initialized

LEMMA NoticeTypes ==
  ASSUME TypeOK, NEW p \in PairId
  PROVE  /\ notice[p] \in NoticeRecord \cup {None}
         /\ Initialized(p) => config[p] \in Config
         /\ slot \in Nat
BY DEF TypeOK, NoticeRecord, Initialized

(* Sound reads a config's fees only. *)
LEMMA SoundSameFees ==
  ASSUME NEW c, NEW e, NEW n, NEW now, Sound(c, n, now),
         e.fee = c.fee, e.pending_fee = c.pending_fee
  PROVE  Sound(e, n, now)
BY DEF Sound

LEMMA SoundNext == TypeOK /\ AllSound /\ [Next]_vars => AllSound'
<1> SUFFICES ASSUME TypeOK, AllSound, [Next]_vars  PROVE AllSound'
  OBVIOUS
<1>1. CASE UNCHANGED <<config, slot, notice>>
  BY <1>1 DEF AllSound, Initialized
<1>2. ASSUME NEW k \in Key, NEW p \in PairId, NEW vault \in Account,
             NEW d \in FeeInputs, NEW w \in FeeInputs, Initialize(k, p, vault, d, w)
      PROVE  AllSound'
  <2>1. PICK c \in Config : config' = [config EXCEPT ![p] = c] /\ c.pending_fee = None
    BY <1>2, InitializeEffect
  <2>2. notice' = notice /\ slot' = slot /\ ~Initialized(p)
    BY <1>2 DEF Initialize
  <2>3. notice[p] = None /\ c # None
    BY <2>2, NoConfigAssumption DEF AllSound
  <2>4. config'[p] = c /\ \A q \in PairId : q # p => config'[q] = config[q]
    BY <2>1 DEF TypeOK
  <2>5. Sound(c, notice[p], slot)
    BY <2>1, <2>3 DEF Sound
  <2>. QED  BY <2>2, <2>3, <2>4, <2>5 DEF AllSound, Initialized
<1>3. ASSUME NEW k \in Key, NEW p \in PairId,
             NEW d \in FeeInputs \cup {None}, NEW w \in FeeInputs \cup {None},
             NEW vault \in Account \cup {None}, NEW new \in Key \cup {Default, None},
             Configure(k, p, d, w, vault, new)
      PROVE  AllSound'
  <2> DEFINE r == Reconfigured(config[p], d, w, slot)
  <2>1. PICK c \in Config :
          /\ config' = [config EXCEPT ![p] = c] /\ config[p] \in Config
          /\ c.fee = r.fee /\ c.pending_fee = r.pending_fee
    BY <1>3, ConfigureEffect DEF Configured
  <2>2. notice' = notice /\ slot' = slot /\ Initialized(p)
    BY <1>3 DEF Configure
  <2>3. d \in Nat \cup {None} /\ w \in Nat \cup {None}
    BY ConfigAssumption
  <2>4. Sound(r, notice[p], slot)
    <3>1. Sound(config[p], notice[p], slot)
      BY <2>2 DEF AllSound
    <3>. QED  BY <2>1, <2>3, <3>1, NoticeTypes, ReconfiguredSound
  <2>. HIDE DEF r
  <2>5. Sound(c, notice[p], slot)
    BY <2>1, <2>4, SoundSameFees
  <2>6. config'[p] = c /\ \A q \in PairId : q # p => config'[q] = config[q]
    BY <2>1 DEF TypeOK
  <2>7. c # None
    BY NoConfigAssumption
  <2>. QED  BY <2>2, <2>5, <2>6, <2>7 DEF AllSound, Initialized
<1>4. ASSUME NEW k \in Key, NEW p \in PairId, AcceptAuthority(k, p)  PROVE AllSound'
  <2>1. PICK c \in Config : config[p] = c
    BY <1>4 DEF TypeOK, AcceptAuthority, Initialized
  <2> DEFINE e == Promoted(c, k)
  <2>2. e \in Config /\ e.fee = c.fee /\ e.pending_fee = c.pending_fee
    BY DEF Promoted, Config
  <2>3. config' = [config EXCEPT ![p] = e] /\ notice' = notice /\ slot' = slot
    BY <1>4, <2>1 DEF AcceptAuthority
  <2>. HIDE DEF e
  <2>4. config'[p] = e /\ e # None /\ \A q \in PairId : q # p => config'[q] = config[q]
    BY <2>2, <2>3, NoConfigAssumption DEF TypeOK
  <2>5. Sound(c, notice[p], slot)
    BY <1>4, <2>1 DEF AllSound, AcceptAuthority
  <2>6. Sound(e, notice[p], slot)
    BY <2>2, <2>5, SoundSameFees
  <2>. QED  BY <1>4, <2>3, <2>4, <2>6 DEF AllSound, Initialized, AcceptAuthority
<1>5. ASSUME NEW p \in PairId, Notice(p)  PROVE AllSound'
  <2> DEFINE c == config[p]
             n == [slot |-> slot, ceiling |-> Ceiling(c)]
  <2>1. c \in Config /\ Sound(c, notice[p], slot) /\ slot \in Nat
    BY <1>5, NoticeTypes DEF Notice, AllSound
  <2>2. notice' = [notice EXCEPT ![p] = n] /\ config' = config /\ slot' = slot
    BY <1>5 DEF Notice
  <2>3. \A l \in Leg :
          /\ c.pending_fee # None /\ c.pending_fee.fee[l] # None
               => Ceiling(c)[l] = c.pending_fee.fee[l]
          /\ c.fee[l] <= Ceiling(c)[l]
    BY <2>1 DEF Ceiling, Sound, Config, PendingFee
  <2>4. Sound(c, n, slot)
    <3>1. \A l \in Leg : c.pending_fee # None /\ c.pending_fee.fee[l] # None
                           => c.pending_fee.fee[l] \in Nat
      BY <2>1 DEF Config, PendingFee
    <3>2. n.slot = slot /\ n.ceiling = Ceiling(c)
      OBVIOUS
    <3>. HIDE DEF n, c
    <3>. QED  BY <2>1, <2>3, <3>1, <3>2 DEF Sound
  <2>. HIDE DEF n
  <2>5. notice'[p] = n /\ \A q \in PairId : q # p => notice'[q] = notice[q]
    BY <2>2 DEF TypeOK
  <2>. QED  BY <1>5, <2>2, <2>4, <2>5 DEF AllSound, Initialized, Notice
<1>6. CASE Tick
  <2>1. slot' = slot + 1 /\ config' = config /\ notice' = notice
    BY <1>6 DEF Tick
  <2>2. ASSUME NEW p \in PairId, Initialized(p)  PROVE Sound(config[p], notice[p], slot + 1)
    <3>1. Sound(config[p], notice[p], slot) /\ slot \in Nat
      BY <2>2, NoticeTypes DEF AllSound
    <3>2. notice[p] # None => notice[p].slot \in Nat
      BY NoticeTypes DEF NoticeRecord
    <3>3. notice[p] # None => notice[p].slot <= slot + 1
      BY <3>1, <3>2 DEF Sound
    <3>4. notice[p] # None /\ slot + 1 < notice[p].slot + FEE_TIMELOCK_SLOTS
            => slot < notice[p].slot + FEE_TIMELOCK_SLOTS
      BY <3>1, <3>2, ConfigAssumption
    <3>. QED  BY <3>1, <3>3, <3>4 DEF Sound
  <2>. QED  BY <2>1, <2>2 DEF AllSound, Initialized
<1>7. ASSUME NEW k \in Key, Bootstrap(k) \/ AcceptAdmin(k)  PROVE AllSound'
  BY <1>1, <1>7 DEF Bootstrap, AcceptAdmin
<1>8. ASSUME NEW k \in Key, NEW new \in Key \cup {Default}, SetAdmin(k, new)  PROVE AllSound'
  BY <1>1, <1>8 DEF SetAdmin
<1>9. ASSUME NEW mint \in Mint, CreateAta(mint)  PROVE AllSound'
  BY <1>1, <1>9 DEF CreateAta
<1>10. CASE UNCHANGED vars
  BY <1>1, <1>10 DEF vars
<1>. QED
  BY <1>2, <1>3, <1>4, <1>5, <1>6, <1>7, <1>8, <1>9, <1>10 DEF Next

(* Whatever is proposed, bundled, lowered or promoted in between, for      *)
(* FEE_TIMELOCK_SLOTS after a flow is received neither fee exceeds what    *)
(* its user could see then (state.rs, propose_fee_change and               *)
(* promote_pending_fee_if_ready).                                          *)
THEOREM NoticeIsKept == Spec => []NoticeKept
<1>1. TypeOK /\ AllSound => NoticeKept
  BY DEF AllSound, Sound, NoticeKept
<1>. QED  BY <1>1, ConfigTypeCorrect, SoundInit, SoundNext, PTL DEF Spec

(***************************************************************************)
(* The last word counts                                                    *)
(***************************************************************************)

LEMMA CeilingPromote ==
  ASSUME NEW c \in Config, NEW now \in Nat
  PROVE  Ceiling(Promote(c, now)) = Ceiling(c)
<1>1. CASE c.pending_fee = None \/ now < c.pending_fee.ready_slot
  BY <1>1 DEF Promote
<1>2. CASE ~(c.pending_fee = None \/ now < c.pending_fee.ready_slot)
  <2>1. /\ Promote(c, now).pending_fee = None
        /\ Promote(c, now).fee = [l \in Leg |-> IF c.pending_fee.fee[l] = None
                                               THEN c.fee[l] ELSE c.pending_fee.fee[l]]
    BY <1>2 DEF Promote, Config
  <2>. QED  BY <1>2, <2>1 DEF Ceiling
<1>. QED  BY <1>1, <1>2

LEMMA CeilingLower ==
  ASSUME NEW c \in Config, NEW leg \in Leg, NEW x \in Nat
  PROVE  Ceiling(Lower(c, leg, x)) = [Ceiling(c) EXCEPT ![leg] = x]
<1> DEFINE e == Lower(c, leg, x)
           left == [c.pending_fee.fee EXCEPT ![leg] = None]
<1>1. e.fee = [c.fee EXCEPT ![leg] = x] /\ c.fee \in [Leg -> Nat]
  BY DEF Lower, Config
<1>2. e.pending_fee = IF c.pending_fee = None \/ \A l \in Leg : left[l] = None
                      THEN None ELSE [fee |-> left, ready_slot |-> c.pending_fee.ready_slot]
  BY DEF Lower, Config
<1>3. c.pending_fee # None => c.pending_fee.fee \in [Leg -> Nat \cup {None}]
  BY DEF Config, PendingFee
<1>4. None \notin PendingFee
  BY NoConfigAssumption
<1>5. ASSUME c.pending_fee = None \/ \A l \in Leg : left[l] = None
      PROVE  Ceiling(e) = [Ceiling(c) EXCEPT ![leg] = x]
  <2>1. \A l \in Leg : l # leg /\ c.pending_fee # None => c.pending_fee.fee[l] = None
    BY <1>3, <1>5
  <2>2. e.pending_fee = None
    BY <1>2, <1>5
  <2>. HIDE DEF e
  <2>. QED  BY <1>1, <2>1, <2>2 DEF Ceiling
<1>6. ASSUME ~(c.pending_fee = None \/ \A l \in Leg : left[l] = None)
      PROVE  Ceiling(e) = [Ceiling(c) EXCEPT ![leg] = x]
  <2>1. e.pending_fee # None /\ e.pending_fee.fee = left
    <3>1. e.pending_fee = [fee |-> left, ready_slot |-> c.pending_fee.ready_slot]
      BY <1>2, <1>6
    <3>2. e.pending_fee \in PendingFee
      <4>1. left \in [Leg -> Nat \cup {None}] /\ c.pending_fee.ready_slot \in Nat
        BY <1>3, <1>6 DEF Config, PendingFee
      <4>. QED  BY <3>1, <4>1 DEF PendingFee
    <3>. QED  BY <1>4, <3>1, <3>2
  <2>. HIDE DEF e
  <2>. QED  BY <1>1, <1>3, <1>6, <2>1 DEF Ceiling
<1>. QED  BY <1>5, <1>6

LEMMA CeilingRaise ==
  ASSUME NEW c \in Config, NEW leg \in Leg, NEW x \in Nat, NEW now \in Nat
  PROVE  Ceiling(Raise(c, leg, x, now)) = [Ceiling(c) EXCEPT ![leg] = x]
<1> DEFINE staged == IF c.pending_fee = None THEN [l \in Leg |-> None] ELSE c.pending_fee.fee
           e == Raise(c, leg, x, now)
<1>1. staged \in [Leg -> Nat \cup {None}]
  BY DEF Config, PendingFee
<1>2. e \in Config /\ e.fee = c.fee
      /\ e.pending_fee = [fee |-> [staged EXCEPT ![leg] = x], ready_slot |-> ReadySlot(c, now)]
  BY RaiseType DEF Raise, Config
<1>3. e.pending_fee # None
  <2>1. ReadySlot(c, now) \in Nat
    BY ConfigAssumption DEF Config, PendingFee, ReadySlot
  <2>2. e.pending_fee \in PendingFee
    BY <1>1, <1>2, <2>1 DEF PendingFee
  <2>. QED  BY <2>2, NoConfigAssumption
<1>4. x # None
  BY NoneAssumption
<1>. HIDE DEF e
<1>5. Ceiling(e) = [l \in Leg |-> IF [staged EXCEPT ![leg] = x][l] # None
                                 THEN [staged EXCEPT ![leg] = x][l] ELSE c.fee[l]]
  BY <1>2, <1>3 DEF Ceiling
<1>6. Ceiling(c) = [l \in Leg |-> IF staged[l] # None THEN staged[l] ELSE c.fee[l]]
  BY DEF Ceiling
<1>. HIDE DEF staged
<1>7. Ceiling(e) = [Ceiling(c) EXCEPT ![leg] = x]
  BY <1>1, <1>4, <1>5, <1>6
<1>. QED  BY <1>7 DEF e

LEMMA CeilingPropose ==
  ASSUME NEW c \in Config, NEW leg \in Leg, NEW x \in Nat \cup {None}, NEW now \in Nat
  PROVE  Ceiling(Propose(c, leg, x, now)) = Asked(Ceiling(c), leg, x)
BY CeilingLower, CeilingRaise DEF Propose, Asked

LEMMA CeilingReconfigured ==
  ASSUME NEW c \in Config, NEW d \in Nat \cup {None}, NEW w \in Nat \cup {None},
         NEW now \in Nat
  PROVE  Ceiling(Reconfigured(c, d, w, now)) = Asked(Asked(Ceiling(c), "deposit", d), "withdraw", w)
<1> DEFINE a == Promote(c, now)
           b == Propose(a, "deposit", d, now)
<1>1. a \in Config /\ Ceiling(a) = Ceiling(c)
  BY PromoteType, CeilingPromote
<1>2. b \in Config /\ Ceiling(b) = Asked(Ceiling(a), "deposit", d)
  BY <1>1, ProposeType, CeilingPropose DEF Leg
<1>3. Ceiling(Propose(b, "withdraw", w, now)) = Asked(Ceiling(b), "withdraw", w)
  BY <1>2, CeilingPropose DEF Leg
<1>. QED  BY <1>1, <1>2, <1>3 DEF Reconfigured

LEMMA LatestNext == TypeOK /\ LatestFeeWins /\ [Next]_vars => LatestFeeWins'
<1> SUFFICES ASSUME TypeOK, LatestFeeWins, [Next]_vars  PROVE LatestFeeWins'
  OBVIOUS
<1>1. CASE UNCHANGED <<config, asked>>
  BY <1>1 DEF LatestFeeWins, Initialized
<1>2. ASSUME NEW p \in PairId, NEW c \in Config, config' = [config EXCEPT ![p] = c],
             NEW a, asked' = [asked EXCEPT ![p] = a], Ceiling(c) = a
      PROVE  LatestFeeWins'
  <2>1. /\ config'[p] = c /\ \A q \in PairId : q # p => config'[q] = config[q]
        /\ asked'[p] = a /\ \A q \in PairId : q # p => asked'[q] = asked[q]
    BY <1>2 DEF TypeOK
  <2>. QED  BY <1>2, <2>1 DEF LatestFeeWins, Initialized
<1>3. ASSUME NEW k \in Key, NEW p \in PairId, NEW vault \in Account,
             NEW d \in FeeInputs, NEW w \in FeeInputs, Initialize(k, p, vault, d, w)
      PROVE  LatestFeeWins'
  <2> DEFINE fee == [l \in Leg |-> IF l = "deposit" THEN d ELSE w]
             c == [authority |-> k, pending_authority |-> None, fee_vault |-> vault,
                   fee |-> fee, pending_fee |-> None]
  <2>1. config' = [config EXCEPT ![p] = c] /\ c \in Config
    <3>1. config' = [config EXCEPT ![p] = c]
      BY <1>3 DEF Initialize
    <3>2. fee \in [Leg -> Nat]
      BY ConfigAssumption
    <3>. QED  BY <3>1, <3>2 DEF Config
  <2>2. asked' = [asked EXCEPT ![p] = fee]
    BY <1>3 DEF Initialize
  <2>3. Ceiling(c) = fee
    BY DEF Ceiling
  <2>. HIDE DEF c, fee
  <2>. QED  BY <1>2, <2>1, <2>2, <2>3
<1>4. ASSUME NEW k \in Key, NEW p \in PairId,
             NEW d \in FeeInputs \cup {None}, NEW w \in FeeInputs \cup {None},
             NEW vault \in Account \cup {None}, NEW new \in Key \cup {Default, None},
             Configure(k, p, d, w, vault, new)
      PROVE  LatestFeeWins'
  <2>1. PICK c \in Config : Configured(c, k, p, d, w, new)
    BY <1>4, ConfigureEffect
  <2> DEFINE r == Reconfigured(config[p], d, w, slot)
             a == Asked(Asked(asked[p], "deposit", d), "withdraw", w)
  <2>2. /\ config' = [config EXCEPT ![p] = c] /\ config[p] \in Config
        /\ c.fee = r.fee /\ c.pending_fee = r.pending_fee
    BY <2>1 DEF Configured
  <2>3. Initialized(p) /\ asked' = [asked EXCEPT ![p] = a]
    BY <1>4 DEF Configure
  <2>4. d \in Nat \cup {None} /\ w \in Nat \cup {None} /\ slot \in Nat
    BY ConfigAssumption DEF TypeOK
  <2>5. Ceiling(r) = a
    BY <2>2, <2>3, <2>4, CeilingReconfigured DEF LatestFeeWins
  <2>6. Ceiling(c) = Ceiling(r)
    BY <2>2 DEF Ceiling
  <2>. QED  BY <1>2, <2>2, <2>3, <2>5, <2>6
<1>5. ASSUME NEW k \in Key, NEW p \in PairId, AcceptAuthority(k, p)  PROVE LatestFeeWins'
  <2>1. PICK c \in Config : config[p] = c /\ Ceiling(c) = asked[p]
    BY <1>5 DEF TypeOK, AcceptAuthority, Initialized, LatestFeeWins
  <2> DEFINE e == Promoted(c, k)
  <2>2. e \in Config /\ e.fee = c.fee /\ e.pending_fee = c.pending_fee
    BY DEF Promoted, Config
  <2>3. config' = [config EXCEPT ![p] = e] /\ asked' = asked
    BY <1>5, <2>1 DEF AcceptAuthority
  <2>4. Ceiling(e) = asked[p]
    BY <2>1, <2>2 DEF Ceiling
  <2>. HIDE DEF e
  <2>5. config'[p] = e /\ \A q \in PairId : q # p => config'[q] = config[q]
    BY <2>3 DEF TypeOK
  <2>. QED  BY <2>3, <2>4, <2>5 DEF LatestFeeWins, Initialized
<1>6. ASSUME NEW k \in Key, Bootstrap(k) \/ AcceptAdmin(k)  PROVE LatestFeeWins'
  BY <1>1, <1>6 DEF Bootstrap, AcceptAdmin
<1>7. ASSUME NEW k \in Key, NEW new \in Key \cup {Default}, SetAdmin(k, new)
      PROVE  LatestFeeWins'
  BY <1>1, <1>7 DEF SetAdmin
<1>8. ASSUME NEW mint \in Mint, CreateAta(mint)  PROVE LatestFeeWins'
  BY <1>1, <1>8 DEF CreateAta
<1>9. ASSUME NEW p \in PairId, Notice(p)  PROVE LatestFeeWins'
  BY <1>1, <1>9 DEF Notice
<1>10. CASE Tick \/ UNCHANGED vars
  BY <1>1, <1>10 DEF Tick, vars
<1>. QED
  BY <1>3, <1>4, <1>5, <1>6, <1>7, <1>8, <1>9, <1>10 DEF Next

(* However proposals, promotions and cancellations interleave, a leg's     *)
(* staged fee, or its live one when nothing is staged, is the value last   *)
(* asked for (state.rs, propose_fee_change).                               *)
THEOREM LatestFeeIsKept == Spec => []LatestFeeWins
<1>1. Init => LatestFeeWins
  BY DEF Init, LatestFeeWins, Initialized
<1>. QED  BY <1>1, ConfigTypeCorrect, LatestNext, PTL DEF Spec

(***************************************************************************)
(* Custody accounts and proposals                                          *)
(***************************************************************************)

(* The strengthening: an initialised pair has two mints, its vault is an   *)
(* account of its asset mint, and its custody accounts exist.              *)
Separate ==
  /\ CustodySeparate
  /\ \A p \in PairId : Initialized(p) =>
       /\ p[1] # p[2] /\ p[1] \in custody /\ p[2] \in custody
       /\ VaultAllowed(config[p].fee_vault, p[2])

LEMMA SeparateInit == Init => Separate
BY DEF Init, Separate, CustodySeparate, Initialized

(* A vault of a mint is no custody account of a pair without that mint.    *)
LEMMA SeparateVaults ==
  ASSUME NEW p \in PairId, NEW q \in PairId, NEW v,
         VaultAllowed(v, p[2]),
         p = q \/ {p[1], p[2]} \cap {q[1], q[2]} = {}, p[1] # p[2]
  PROVE  v \notin {CustodyOf(q[1]), CustodyOf(q[2])}
BY DEF VaultAllowed, CustodyOf

LEMMA SeparateNext == TypeOK /\ Separate /\ [Next]_vars => Separate'
<1> SUFFICES ASSUME TypeOK, Separate, [Next]_vars  PROVE Separate'
  OBVIOUS
<1>1. ASSUME NEW k \in Key, NEW p \in PairId, NEW vault \in Account,
             NEW d \in FeeInputs, NEW w \in FeeInputs, Initialize(k, p, vault, d, w)
      PROVE  Separate'
  <2>1. PICK c \in Config : config' = [config EXCEPT ![p] = c] /\ c.fee_vault = vault
    BY <1>1, InitializeEffect
  <2>2. /\ p[1] # p[2] /\ p[1] \notin custody /\ p[2] \notin custody
        /\ VaultAllowed(vault, p[2]) /\ custody' = custody \cup {p[1], p[2]}
    BY <1>1 DEF Initialize, CustodyCreated
  <2>3. config'[p] = c /\ \A q \in PairId : q # p => config'[q] = config[q]
    BY <2>1 DEF TypeOK
  <2>4. \A q \in PairId : Initialized(q)' =>
          /\ q[1] # q[2] /\ q[1] \in custody' /\ q[2] \in custody'
          /\ VaultAllowed(config'[q].fee_vault, q[2])
    BY <2>1, <2>2, <2>3 DEF Separate, Initialized
  <2>5. \A q, r \in PairId : Initialized(q)' /\ Initialized(r)' /\ q # r
          => {q[1], q[2]} \cap {r[1], r[2]} = {}
    BY <2>2, <2>3 DEF Separate, CustodySeparate, Initialized
  <2>6. \A q, r \in PairId : Initialized(q)' /\ Initialized(r)'
          => config'[q].fee_vault \notin {CustodyOf(r[1]), CustodyOf(r[2])}
    BY <2>4, <2>5, SeparateVaults
  <2>. QED  BY <2>4, <2>5, <2>6 DEF Separate, CustodySeparate
<1>2. ASSUME NEW p \in PairId, NEW c \in Config, config' = [config EXCEPT ![p] = c],
             Initialized(p), custody' = custody,
             c.fee_vault = config[p].fee_vault \/ VaultAllowed(c.fee_vault, p[2])
      PROVE  Separate'
  <2>1. config'[p] = c /\ \A q \in PairId : q # p => config'[q] = config[q]
    BY <1>2 DEF TypeOK
  <2>2. \A q \in PairId : Initialized(q)' => Initialized(q)
    BY <1>2, <2>1 DEF Initialized
  <2>3. \A q \in PairId : Initialized(q)' =>
          /\ q[1] # q[2] /\ q[1] \in custody' /\ q[2] \in custody'
          /\ VaultAllowed(config'[q].fee_vault, q[2])
    BY <1>2, <2>1, <2>2 DEF Separate
  <2>4. \A q, r \in PairId : Initialized(q)' /\ Initialized(r)' /\ q # r
          => {q[1], q[2]} \cap {r[1], r[2]} = {}
    BY <2>2 DEF Separate, CustodySeparate
  <2>5. \A q, r \in PairId : Initialized(q)' /\ Initialized(r)'
          => config'[q].fee_vault \notin {CustodyOf(r[1]), CustodyOf(r[2])}
    BY <2>3, <2>4, SeparateVaults
  <2>. QED  BY <2>3, <2>4, <2>5 DEF Separate, CustodySeparate
<1>3. ASSUME NEW k \in Key, NEW p \in PairId,
             NEW d \in FeeInputs \cup {None}, NEW w \in FeeInputs \cup {None},
             NEW vault \in Account \cup {None}, NEW new \in Key \cup {Default, None},
             Configure(k, p, d, w, vault, new)
      PROVE  Separate'
  <2>1. Initialized(p) /\ custody' = custody
    BY <1>3 DEF Configure
  <2>2. PICK c \in Config : Configured(c, k, p, d, w, new)
    BY <1>3, ConfigureEffect
  <2>3. /\ config' = [config EXCEPT ![p] = c]
        /\ c.fee_vault = config[p].fee_vault \/ VaultAllowed(c.fee_vault, p[2])
    BY <2>2 DEF Configured
  <2>. QED  BY <1>2, <2>1, <2>3
<1>4. ASSUME NEW k \in Key, NEW p \in PairId, AcceptAuthority(k, p)  PROVE Separate'
  <2>1. Initialized(p) /\ custody' = custody /\ config[p] \in Config
        /\ config' = [config EXCEPT ![p] = Promoted(config[p], k)]
    BY <1>4 DEF AcceptAuthority, TypeOK, Initialized
  <2>2. Promoted(config[p], k) \in Config /\ Promoted(config[p], k).fee_vault = config[p].fee_vault
    BY <2>1 DEF Promoted, Config
  <2>. QED  BY <1>2, <2>1, <2>2
<1>5. CASE config' = config /\ custody \subseteq custody'
  <2>1. \A p \in PairId : Initialized(p)' = Initialized(p)
    BY <1>5 DEF Initialized
  <2>. QED  BY <1>5, <2>1 DEF Separate, CustodySeparate
<1>6. ASSUME NEW k \in Key, Bootstrap(k) \/ AcceptAdmin(k)  PROVE Separate'
  BY <1>5, <1>6 DEF Bootstrap, AcceptAdmin
<1>7. ASSUME NEW k \in Key, NEW new \in Key \cup {Default}, SetAdmin(k, new)  PROVE Separate'
  BY <1>5, <1>7 DEF SetAdmin
<1>8. ASSUME NEW mint \in Mint, CreateAta(mint)  PROVE Separate'
  BY <1>5, <1>8 DEF CreateAta
<1>9. ASSUME NEW p \in PairId, Notice(p)  PROVE Separate'
  BY <1>5, <1>9 DEF Notice
<1>10. CASE Tick \/ UNCHANGED vars
  BY <1>5, <1>10 DEF Tick, vars
<1>. QED
  BY <1>1, <1>3, <1>4, <1>6, <1>7, <1>8, <1>9, <1>10 DEF Next

(* However many pairs the admin creates and however their vaults rotate,   *)
(* the custody accounts of the shared authority belong to one pair each    *)
(* and never receive fees (initialize.rs, configure.rs).                   *)
THEOREM CustodyIsSeparate == Spec => []CustodySeparate
<1>1. Separate => CustodySeparate
  BY DEF Separate
<1>. QED  BY <1>1, ConfigTypeCorrect, SeparateInit, SeparateNext, PTL DEF Spec

LEMMA ProposalNext == TypeOK /\ ProposalIsCurrent /\ [Next]_vars => ProposalIsCurrent'
<1> SUFFICES ASSUME TypeOK, ProposalIsCurrent, [Next]_vars  PROVE ProposalIsCurrent'
  OBVIOUS
<1>1. ASSUME NEW k \in Key, NEW p \in PairId, NEW vault \in Account,
             NEW d \in FeeInputs, NEW w \in FeeInputs, Initialize(k, p, vault, d, w)
      PROVE  ProposalIsCurrent'
  <2>1. PICK c \in Config : config' = [config EXCEPT ![p] = c] /\ c.pending_authority = None
    BY <1>1, InitializeEffect
  <2>2. config'[p] = c /\ \A q \in PairId : q # p => config'[q] = config[q]
    BY <2>1 DEF TypeOK
  <2>3. proposer' = proposer
    BY <1>1 DEF Initialize
  <2>. QED  BY <2>1, <2>2, <2>3 DEF ProposalIsCurrent, Initialized
<1>2. ASSUME NEW k \in Key, NEW p \in PairId,
             NEW d \in FeeInputs \cup {None}, NEW w \in FeeInputs \cup {None},
             NEW vault \in Account \cup {None}, NEW new \in Key \cup {Default, None},
             Configure(k, p, d, w, vault, new)
      PROVE  ProposalIsCurrent'
  <2>0. PICK c \in Config : Configured(c, k, p, d, w, new)
    BY <1>2, ConfigureEffect
  <2>1. /\ config' = [config EXCEPT ![p] = c]
        /\ config[p].authority = k /\ c.authority = k
        /\ \/ new = None /\ c.pending_authority = config[p].pending_authority
           \/ new = Default /\ c.pending_authority = None
           \/ new \in Key /\ new # k /\ c.pending_authority = new
    BY <2>0 DEF Configured
  <2>2. /\ Initialized(p)
        /\ proposer' = [proposer EXCEPT ![p] = IF new = None THEN @ ELSE k]
    BY <1>2 DEF Configure
  <2>3. config'[p] = c /\ \A q \in PairId : q # p => config'[q] = config[q]
    BY <2>1 DEF TypeOK
  <2>4. /\ proposer'[p] = IF new = None THEN proposer[p] ELSE k
        /\ \A q \in PairId : q # p => proposer'[q] = proposer[q]
    BY <2>2 DEF TypeOK
  <2>5. c.pending_authority # None => proposer'[p] = k /\ c.pending_authority # k
    BY <2>1, <2>2, <2>4, NoneAssumption DEF ProposalIsCurrent
  <2>. QED  BY <2>1, <2>3, <2>4, <2>5 DEF ProposalIsCurrent, Initialized
<1>3. ASSUME NEW k \in Key, NEW p \in PairId, AcceptAuthority(k, p)  PROVE ProposalIsCurrent'
  <2>1. config[p] \in Config /\ config' = [config EXCEPT ![p] = Promoted(config[p], k)]
        /\ proposer' = proposer
    BY <1>3 DEF AcceptAuthority, TypeOK, Initialized
  <2>2. Promoted(config[p], k).pending_authority = None
    BY <2>1 DEF Promoted, Config
  <2>3. config'[p].pending_authority = None /\ \A q \in PairId : q # p => config'[q] = config[q]
    BY <2>1, <2>2 DEF TypeOK
  <2>. QED  BY <2>1, <2>3 DEF ProposalIsCurrent, Initialized
<1>4. CASE UNCHANGED <<config, proposer>>
  BY <1>4 DEF ProposalIsCurrent, Initialized
<1>5. ASSUME NEW k \in Key, Bootstrap(k) \/ AcceptAdmin(k)  PROVE ProposalIsCurrent'
  BY <1>4, <1>5 DEF Bootstrap, AcceptAdmin
<1>6. ASSUME NEW k \in Key, NEW new \in Key \cup {Default}, SetAdmin(k, new)
      PROVE  ProposalIsCurrent'
  BY <1>4, <1>6 DEF SetAdmin
<1>7. ASSUME NEW mint \in Mint, CreateAta(mint)  PROVE ProposalIsCurrent'
  BY <1>4, <1>7 DEF CreateAta
<1>8. ASSUME NEW p \in PairId, Notice(p)  PROVE ProposalIsCurrent'
  BY <1>4, <1>8 DEF Notice
<1>9. CASE Tick \/ UNCHANGED vars
  BY <1>4, <1>9 DEF Tick, vars
<1>. QED
  BY <1>1, <1>2, <1>3, <1>5, <1>6, <1>7, <1>8, <1>9 DEF Next

(* A key that lost a pair's authority leaves no proposal behind that could *)
(* still be accepted (configure.rs, accept_authority.rs).                  *)
THEOREM ProposalsAreCurrent == Spec => []ProposalIsCurrent
<1>1. Init => ProposalIsCurrent
  BY DEF Init, ProposalIsCurrent, Initialized
<1>. QED  BY <1>1, ConfigTypeCorrect, ProposalNext, PTL DEF Spec

=============================================================================
