----------------------------- MODULE PairConfig -----------------------------
(***************************************************************************)
(* The relayer's governance: the global config (one admin, who alone       *)
(* creates pairs) and the config of each token pair (its authority, fee    *)
(* vault and two fees). Both keys rotate in two steps. A fee decrease is   *)
(* immediate; an increase is staged for FEE_TIMELOCK_SLOTS and promoted by *)
(* the first `configure` after that, before it looks at its own arguments. *)
(***************************************************************************)
EXTENDS Integers

CONSTANTS
  Key,        \* signers
  Mint,       \* token mints
  None,       \* Rust's Option::None, and "the account does not exist"
  Default,    \* Pubkey::default(), which nobody can sign for
  FeeInputs,  \* fee arguments tried (bps)
  FEE_TIMELOCK_SLOTS, MAX_FEE_BPS,
  MaxSlot     \* bound: last slot explored

ASSUME ConfigAssumption ==
  /\ FEE_TIMELOCK_SLOTS \in Nat \ {0}
  /\ MAX_FEE_BPS \in Nat
  /\ FeeInputs \subseteq Nat
  /\ MaxSlot \in Nat

ASSUME NoneAssumption == None \notin Nat /\ None \notin Key \cup {Default}

PairId == Mint \X Mint
Leg == {"deposit", "withdraw"}

(* Token accounts a fee vault may be: the relayer authority's associated   *)
(* account of a mint, or anybody else's account of it.                     *)
Account == {"custody", "other"} \X Mint
CustodyOf(mint) == <<"custody", mint>>

PendingFee == [fee : [Leg -> Nat \cup {None}], ready_slot : Nat]

Config ==
  [authority : Key, pending_authority : Key \cup {None}, fee_vault : Account,
   fee : [Leg -> Nat], pending_fee : PendingFee \cup {None}]

ASSUME NoConfigAssumption ==
  /\ None \notin Config /\ None \notin PendingFee
  /\ None \notin [slot : Nat, ceiling : [Leg -> Nat]]

VARIABLES
  global,   \* GlobalConfig account
  config,   \* PairConfig account of each pair
  custody,  \* mints whose relayer-authority token account exists
  slot,     \* Clock::slot
  proposer, \* history: who staged the pending authority of each pair
  notice,   \* history: what one flow's user could see when it was received
  asked     \* history: the fee last asked for, per leg

vars == <<global, config, custody, slot, proposer, notice, asked>>

Init ==
  /\ global = None
  /\ config = [p \in PairId |-> None]
  /\ custody = {}
  /\ slot = 0
  /\ proposer = [p \in PairId |-> None]
  /\ notice = [p \in PairId |-> None]
  /\ asked = [p \in PairId |-> [l \in Leg |-> 0]]

Initialized(p) == config[p] # None

-----------------------------------------------------------------------------
(* The global admin *)

(* `bootstrap`: the first caller becomes admin, once. *)
Bootstrap(k) ==
  /\ global = None
  /\ global' = [admin |-> k, pending_admin |-> None]
  /\ UNCHANGED <<config, custody, slot, proposer, notice, asked>>

SetAdmin(k, new) ==
  /\ global # None
  /\ global.admin = k
  /\ new # global.admin
  /\ global' = [global EXCEPT !.pending_admin = new]
  /\ UNCHANGED <<config, custody, slot, proposer, notice, asked>>

AcceptAdmin(k) ==
  /\ global # None
  /\ global.pending_admin = k
  /\ global' = [admin |-> k, pending_admin |-> None]
  /\ UNCHANGED <<config, custody, slot, proposer, notice, asked>>

-----------------------------------------------------------------------------
(* `initialize` *)

(* Both associated accounts are created here, so neither may exist yet. *)
CustodyReused(base, asset) == base # asset   \* mutation: init_if_needed
CustodyCreated(base, asset) == base # asset /\ {base, asset} \cap custody = {}

VaultOfMint(vault, asset) == vault[2] = asset   \* mutation: the alias check is dropped
VaultAllowed(vault, asset) == vault[2] = asset /\ vault # CustodyOf(asset)

Initialize(k, p, vault, d, w) ==
  /\ global # None
  /\ global.admin = k
  /\ ~Initialized(p)
  /\ CustodyCreated(p[1], p[2])
  /\ VaultAllowed(vault, p[2])
  /\ d <= MAX_FEE_BPS /\ w <= MAX_FEE_BPS
  /\ config' = [config EXCEPT ![p] =
       [authority |-> k, pending_authority |-> None, fee_vault |-> vault,
        fee |-> [l \in Leg |-> IF l = "deposit" THEN d ELSE w], pending_fee |-> None]]
  /\ custody' = custody \cup {p[1], p[2]}
  /\ asked' = [asked EXCEPT ![p] = [l \in Leg |-> IF l = "deposit" THEN d ELSE w]]
  /\ UNCHANGED <<global, slot, proposer, notice>>

-----------------------------------------------------------------------------
(* `configure` *)

(* promote_pending_fee_if_ready *)
Promote(c, now) ==
  IF c.pending_fee = None \/ now < c.pending_fee.ready_slot THEN c
  ELSE [c EXCEPT !.fee = [l \in Leg |-> IF c.pending_fee.fee[l] = None
                                        THEN c.fee[l] ELSE c.pending_fee.fee[l]],
                 !.pending_fee = None]

(* propose_fee_change, lowering: immediate, and the staged raise of this   *)
(* leg is dropped, the bundle with it when nothing is left in it.          *)
LowerKeepsStaged(c, leg, proposed) ==   \* mutation: the staged raise survives
  [c EXCEPT !.fee = [c.fee EXCEPT ![leg] = proposed]]
Lower(c, leg, proposed) ==
  LET left == [c.pending_fee.fee EXCEPT ![leg] = None]
  IN  [c EXCEPT !.fee = [c.fee EXCEPT ![leg] = proposed],
                !.pending_fee = IF c.pending_fee = None \/ \A l \in Leg : left[l] = None
                                THEN None
                                ELSE [fee |-> left, ready_slot |-> c.pending_fee.ready_slot]]

(* The slot at which a bundle that gains a raise becomes ready. *)
NotExtended(c, now) ==   \* mutation: a bundle keeps its first ready slot
  IF c.pending_fee = None THEN now + FEE_TIMELOCK_SLOTS ELSE c.pending_fee.ready_slot
ReadySlot(c, now) ==
  IF c.pending_fee = None \/ c.pending_fee.ready_slot < now + FEE_TIMELOCK_SLOTS
  THEN now + FEE_TIMELOCK_SLOTS ELSE c.pending_fee.ready_slot

(* propose_fee_change, raising: staged next to the other leg's raise. *)
Raise(c, leg, proposed, now) ==
  LET staged == IF c.pending_fee = None THEN [l \in Leg |-> None] ELSE c.pending_fee.fee
  IN  [c EXCEPT !.pending_fee = [fee |-> [staged EXCEPT ![leg] = proposed],
                                 ready_slot |-> ReadySlot(c, now)]]

Propose(c, leg, proposed, now) ==
  IF proposed = None THEN c
  ELSE IF proposed <= c.fee[leg] THEN Lower(c, leg, proposed)
  ELSE Raise(c, leg, proposed, now)

(* The fees and the pending bundle after `configure`. *)
Reconfigured(c, d, w, now) ==
  Propose(Propose(Promote(c, now), "deposit", d, now), "withdraw", w, now)

(* PairConfig::validate *)
ValidLive(c) == \A l \in Leg : c.fee[l] <= MAX_FEE_BPS   \* mutation: staged fees pass
Valid(c) ==
  /\ \A l \in Leg : c.fee[l] <= MAX_FEE_BPS
  /\ c.pending_fee # None =>
       /\ \E l \in Leg : c.pending_fee.fee[l] # None
       /\ \A l \in Leg : c.pending_fee.fee[l] # None => c.pending_fee.fee[l] <= MAX_FEE_BPS

(* History: the fee asked for, None standing for "leave it". *)
Asked(a, leg, proposed) == IF proposed = None THEN a ELSE [a EXCEPT ![leg] = proposed]

Configure(k, p, d, w, vault, new) ==
  LET c == Reconfigured(config[p], d, w, slot)
      vaulted == IF vault = None THEN c ELSE [c EXCEPT !.fee_vault = vault]
      done == CASE new = None    -> vaulted
                [] new = Default -> [vaulted EXCEPT !.pending_authority = None]
                [] OTHER         -> [vaulted EXCEPT !.pending_authority = new]
  IN  /\ Initialized(p)
      /\ config[p].authority = k
      /\ vault # None => VaultAllowed(vault, p[2])
      /\ new # config[p].authority
      /\ Valid(done)
      /\ config' = [config EXCEPT ![p] = done]
      /\ proposer' = [proposer EXCEPT ![p] = IF new = None THEN @ ELSE k]
      /\ asked' = [asked EXCEPT ![p] = Asked(Asked(@, "deposit", d), "withdraw", w)]
      /\ UNCHANGED <<global, custody, slot, notice>>

(* `accept_authority`: the pending authority signs for itself. *)
PromotedKept(c, k) == [c EXCEPT !.authority = k]   \* mutation: the proposal is kept
Promoted(c, k) == [c EXCEPT !.authority = k, !.pending_authority = None]

AcceptAuthority(k, p) ==
  /\ Initialized(p)
  /\ config[p].pending_authority = k
  /\ config' = [config EXCEPT ![p] = Promoted(@, k)]
  /\ UNCHANGED <<global, custody, slot, proposer, notice, asked>>

-----------------------------------------------------------------------------
(* The environment *)

(* Associated accounts are permissionless to create. *)
CreateAta(mint) ==
  /\ mint \notin custody
  /\ custody' = custody \cup {mint}
  /\ UNCHANGED <<global, config, slot, proposer, notice, asked>>

(* A flow of the pair is received: from here its user can see, per leg,    *)
(* the live fee and the staged one.                                        *)
Ceiling(c) ==
  [l \in Leg |-> IF c.pending_fee # None /\ c.pending_fee.fee[l] # None
                 THEN c.pending_fee.fee[l] ELSE c.fee[l]]

Notice(p) ==
  /\ Initialized(p)
  /\ notice' = [notice EXCEPT ![p] = [slot |-> slot, ceiling |-> Ceiling(config[p])]]
  /\ UNCHANGED <<global, config, custody, slot, proposer, asked>>

Tick ==
  /\ slot < MaxSlot
  /\ slot' = slot + 1
  /\ UNCHANGED <<global, config, custody, proposer, notice, asked>>

Next ==
  \/ \E k \in Key :
       \/ Bootstrap(k)
       \/ \E new \in Key \cup {Default} : SetAdmin(k, new)
       \/ AcceptAdmin(k)
  \/ \E k \in Key, p \in PairId :
       \/ \E vault \in Account, d, w \in FeeInputs : Initialize(k, p, vault, d, w)
       \/ \E d, w \in FeeInputs \cup {None}, vault \in Account \cup {None},
             new \in Key \cup {Default, None} : Configure(k, p, d, w, vault, new)
       \/ AcceptAuthority(k, p)
  \/ \E mint \in Mint : CreateAta(mint)
  \/ \E p \in PairId : Notice(p)
  \/ Tick

Spec == Init /\ [][Next]_vars

-----------------------------------------------------------------------------
(* Properties *)

(* Neither a live nor a staged fee is above the cap. *)
Capped(c) == \A l \in Leg : c.fee[l] <= MAX_FEE_BPS /\ Ceiling(c)[l] <= MAX_FEE_BPS

TypeOK ==
  /\ global \in [admin : Key, pending_admin : Key \cup {Default, None}] \cup {None}
  /\ config \in [PairId -> Config \cup {None}]
  /\ custody \subseteq Mint
  /\ slot \in Nat
  /\ proposer \in [PairId -> Key \cup {None}]
  /\ notice \in [PairId -> [slot : Nat, ceiling : [Leg -> Nat]] \cup {None}]
  /\ asked \in [PairId -> [Leg -> Nat]]
  /\ \A p \in PairId : Initialized(p) => Capped(config[p])

(* Two days' notice: for FEE_TIMELOCK_SLOTS after a flow was received, no  *)
(* sequence of raises, lowerings, re-raises, bundled legs and promotions   *)
(* makes either fee exceed what was live or staged at that moment.         *)
NoticeKept ==
  \A p \in PairId, l \in Leg :
    notice[p] # None /\ slot < notice[p].slot + FEE_TIMELOCK_SLOTS
      => config[p].fee[l] <= notice[p].ceiling[l]

(* The last word counts: what a leg charges, or is going to charge once    *)
(* its staged raise is promoted, is the fee last asked for. A decrease     *)
(* cancels the raise staged before it, a promotion inside a later call     *)
(* does not win over that call's arguments, and a proposal for one leg     *)
(* never loses what is staged for the other.                               *)
LatestFeeWins ==
  \A p \in PairId : Initialized(p) => Ceiling(config[p]) = asked[p]

(* The relayer authority is shared, yet no two pairs have a mint, hence a  *)
(* custody account, in common; and no pair's fees are paid into a custody  *)
(* account of any pair.                                                    *)
CustodySeparate ==
  \A p, q \in PairId : Initialized(p) /\ Initialized(q) =>
    /\ p # q => {p[1], p[2]} \cap {q[1], q[2]} = {}
    /\ config[p].fee_vault \notin {CustodyOf(q[1]), CustodyOf(q[2])}

(* A pending authority was staged by the authority of today: no proposal   *)
(* outlives the rotation of the key that made it.                          *)
ProposalIsCurrent ==
  \A p \in PairId : Initialized(p) /\ config[p].pending_authority # None =>
    /\ proposer[p] = config[p].authority
    /\ config[p].pending_authority # config[p].authority

=============================================================================
