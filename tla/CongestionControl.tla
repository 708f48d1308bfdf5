------------------------- MODULE CongestionControl -------------------------
(***************************************************************************)
(* The congestion controllers of lib/cc-pico.c (reno, pico, cubic, cuback, *)
(* with Rapid Start, jumpstart, ABBA and Prague) and of lib/cc-cubic.c     *)
(* (legacy), with the state they share in include/quicly/cc.h.             *)
(*                                                                         *)
(* Windows are counted in packets of one MTU.  How far a curve has risen   *)
(* when an ACK arrives depends on clocks and floating point: it is a       *)
(* choice (Chances).  Everything that decides which branch is taken, which *)
(* part of the state is saved, restored, reset or left stale, is kept.     *)
(*                                                                         *)
(* Packets belong to one epoch, so that loss detection declares them lost  *)
(* in the order in which they were sent.                                   *)
(***************************************************************************)
EXTENDS Integers, FiniteSets, FiniteSetsExt

CONSTANTS
    Types,          \* the controllers a connection may start with
    Switches,       \* from which controller to which quicly_set_cc is called
    MaxPn,          \* bound: packets sent
    MaxMarks,       \* bound: ACK frames that report CE
    MaxCwnd,        \* INT32_MAX of quicly_cc_add_cwnd
    InitCwnd,       \* quicly_cc_calc_initial_cwnd
    MinCwnd,        \* QUICLY_MIN_CWND
    JumpCwnds,      \* the windows jumpstart may be entered with
    RapidStart,     \* the values of conf->rapid_start
    Abba, L4s       \* conf->abba; whether ECN is used with ECT(1)

CongestionAssumption ==
    /\ Types \subseteq {"reno", "pico", "cubic", "cuback", "legacy"}
    /\ Switches \subseteq Types \X Types
    /\ MaxPn \in Nat /\ MaxMarks \in Nat
    /\ 0 < MinCwnd /\ MinCwnd <= InitCwnd /\ InitCwnd <= MaxCwnd
    /\ RapidStart \subseteq BOOLEAN /\ Abba \in BOOLEAN /\ L4s \in BOOLEAN

VARIABLES
    cc,     \* quicly_cc_t
    net     \* the packets: next pn, in flight, declared lost; ECN; jumpstart tried

vars == <<cc, net>>

Inf == MaxCwnd + MaxPn + 1      \* UINT32_MAX and UINT64_MAX

(* What one ACK frame may find besides the packets it acknowledges:        *)
(* cc_limited or not, a curve that has risen, a Prague sample completed,   *)
(* an ABBA model that becomes fit, a minimum RTT too short for 3x growth.  *)
Chances == {"idle", "grown", "sampled", "fit", "short_rtt"}

AtLeast(floor, w) == IF w < floor THEN floor ELSE w
Capped(w) == IF w > MaxCwnd THEN MaxCwnd ELSE w
Scale(w, percent) == (w * percent) \div 100

-----------------------------------------------------------------------------
(* State set up by the constructors.                                       *)

NoPrague == [running |-> FALSE, sampled |-> FALSE, ignore |-> "no"]
NoJump == [enter |-> Inf, exit |-> Inf, acked |-> 0]
NoPolicy == [per |-> 0, bandwidth |-> 0, prior |-> 0, fast |-> FALSE,
             byEcn |-> FALSE, west |-> 0, clock |-> FALSE, limited |-> FALSE]
NoUndo == [num |-> 0, start |-> 0, cwnd |-> 0, ssthresh |-> 0,
           toIncrease |-> 0, abba |-> "none", policy |-> NoPolicy]

InitialPolicy(type, cwnd) ==
    CASE type = "cubic" -> [NoPolicy EXCEPT !.limited = TRUE]
      [] type = "pico"  -> [NoPolicy EXCEPT !.per = 1]
      [] OTHER          -> NoPolicy

pico_init_pico_state(c) ==
    [c EXCEPT !.prague = NoPrague, !.abba = "none", !.toIncrease = 0,
              !.policy = InitialPolicy(c.type, c.cwnd)]

pico_reset(type) ==
    pico_init_pico_state(
      [type |-> type, cwnd |-> InitCwnd, ssthresh |-> Inf, recoveryEnd |-> 0,
       byEcn |-> FALSE, toIncrease |-> 0, policy |-> NoPolicy, abba |-> "none",
       prague |-> NoPrague, undo |-> NoUndo, jump |-> NoJump,
       rapid |-> "inactive", rapidByEcn |-> FALSE, rapidFloor |-> 0,
       exiting |-> 0, episodes |-> 0, ecnEpisodes |-> 0, accelEpisodes |-> 0,
       reductions |-> 0])

init_with_type(type, rapid) ==
    [pico_reset(type) EXCEPT !.rapid = IF rapid /\ type # "legacy" THEN "probing" ELSE "inactive"]

UpdateEcnEpisodes_NeverByLoss(c, bytes, pn) ==
    LET new == pn >= c.recoveryEnd
    IN [c EXCEPT !.ecnEpisodes = @ + (IF new THEN 1 ELSE 0) - (IF bytes # 0 THEN 1 ELSE 0),
                 !.byEcn = new \/ c.byEcn]

-----------------------------------------------------------------------------
(* cc.h: episodes, jumpstart, Rapid Start.                                 *)

UpdateEcnEpisodes(c, bytes, pn) ==
    LET new == pn >= c.recoveryEnd
        byEcn == new \/ c.byEcn
        drop == bytes # 0 /\ byEcn
    IN [c EXCEPT !.ecnEpisodes = @ + (IF new THEN 1 ELSE 0) - (IF drop THEN 1 ELSE 0),
                 !.byEcn = byEcn /\ ~drop]

InJumpstart(c) == c.jump.enter < Inf /\ c.jump.exit = Inf
IsJumpstartAck(c, pn) == c.jump.enter <= pn /\ pn < c.jump.exit

JumpstartAcked(c, bytes, pn) ==
    IF IsJumpstartAck(c, pn) THEN [c EXCEPT !.jump.acked = @ + bytes] ELSE c

JumpstartInRecovery(c, pn) ==
    IF IsJumpstartAck(c, pn) /\ c.cwnd < Scale(c.jump.acked, 70)
    THEN [c EXCEPT !.cwnd = Scale(c.jump.acked, 70)] ELSE c

JumpstartExit(c, pn, inflight, next) ==
    IF c.jump.exit = Inf /\ c.jump.enter <= pn
    THEN [c EXCEPT !.cwnd = AtLeast(InitCwnd, inflight), !.jump.exit = next] ELSE c

JumpstartOnFirstLoss(c, pn, skip) ==
    IF c.jump.enter # Inf /\ pn < c.jump.exit
    THEN [c EXCEPT !.cwnd = IF skip THEN @ ELSE AtLeast(InitCwnd, c.jump.acked),
                   !.jump.exit = IF @ = Inf THEN pn ELSE @]
    ELSE c

RapidActive(c) == c.rapid # "inactive"

(* quicly_cc_rapid_start_on_first_lost, factors 0.9 and 0.95. *)
RapidOnFirstLost(c, byEcn) ==
    LET base == IF InitCwnd < c.jump.acked THEN c.jump.acked ELSE InitCwnd
        floor == AtLeast(base \div 2, Scale(c.cwnd, IF byEcn THEN 28 ELSE 23))
    IN [c EXCEPT !.rapid = "recovery", !.rapidByEcn = byEcn, !.rapidFloor = floor,
                 !.cwnd = AtLeast(floor, Scale(c.cwnd, IF byEcn THEN 95 ELSE 90))]

(* quicly_cc_rapid_start_on_recovery *)
RapidOnRecovery(c, acked, lost) ==
    LET cut == IF c.rapidByEcn THEN 10 * acked + 95 * lost ELSE 20 * acked + 90 * lost
    IN [c EXCEPT !.cwnd = AtLeast(c.rapidFloor, (100 * c.cwnd - cut) \div 100)]

-----------------------------------------------------------------------------
(* cc-pico.c: an ACK frame.                                                *)

AbbaEnabled(c) == Abba /\ c.type \in {"cubic", "cuback"}

(* The Prague estimator runs in recovery too; without L4S it stops. *)
PragueOnAcked(c, l4s, chance) ==
    IF ~c.prague.running THEN c
    ELSE IF l4s THEN [c EXCEPT !.prague.sampled = @ \/ chance = "sampled"]
    ELSE [c EXCEPT !.prague = NoPrague, !.policy.byEcn = FALSE]

AckInRecovery(c, bytes, pn) ==
    IF ~RapidActive(c) THEN JumpstartInRecovery(JumpstartAcked(c, bytes, pn), pn)
    ELSE IF c.episodes # 1 THEN c
    ELSE LET r == RapidOnRecovery(c, bytes, 0) IN [r EXCEPT !.ssthresh = r.cwnd]

PragueStart(c, l4s) ==
    IF c.prague.running
    THEN [c EXCEPT !.prague.ignore = IF @ = "recovery" THEN "no" ELSE @]
    ELSE IF c.type = "cuback" /\ l4s /\ c.episodes # 0
    THEN [c EXCEPT !.prague = [running |-> TRUE, sampled |-> FALSE, ignore |-> "no"]]
    ELSE c

(* ABBA: the model becomes fit at most once per congestion-avoidance period. *)
AbbaOnAcked(c, chance) ==
    IF AbbaEnabled(c) /\ c.cwnd >= c.ssthresh /\ c.abba = "watermark" /\ chance = "fit"
    THEN [c EXCEPT !.abba = "fit", !.accelEpisodes = @ + 1] ELSE c

PostRapidStartWmax(c) == Scale(2 * c.cwnd, IF c.rapidByEcn THEN 117 ELSE 143)

(* The first ACK of congestion avoidance starts the cubic curve. *)
CubicEpoch(c) ==
    IF c.policy.west # 0 THEN c
    ELSE [c EXCEPT !.policy.prior = IF RapidActive(c) THEN PostRapidStartWmax(c) ELSE @,
                   !.policy.fast = @ /\ ~RapidActive(c),
                   !.policy.west = c.cwnd,
                   !.policy.clock = c.policy.limited]

Grown(c, chance) == [c EXCEPT !.cwnd = IF chance = "grown" THEN Capped(@ + 1) ELSE @]

(* ABBA, once fit: acceleration beyond the ordinary growth. *)
AbbaOnGrowth(c, chance) ==
    IF AbbaEnabled(c) /\ c.abba = "fit" THEN Grown(c, chance) ELSE c

CubicOnAcked(c, chance) ==
    IF c.policy.clock THEN AbbaOnGrowth(Grown(c, chance), chance) ELSE c

CubackPrior(c) ==
    IF c.type = "cuback" /\ c.rapid = "recovery"
    THEN [c EXCEPT !.policy.prior = PostRapidStartWmax(c)] ELSE c

InPragueCa(c) == c.prague.running /\ c.policy.byEcn

PragueGrow(c, chance) == AbbaOnGrowth(Grown(c, chance), chance)

(* The number of bytes to be acknowledged, zero or not: Cuback's curve and *)
(* Pico's interval are clamped to one byte at least.                       *)
CubackInterval == 1
PicoInterval == 1

BytesPerMtuIncrease(c) ==
    CASE c.cwnd < c.ssthresh -> 1
      [] c.cwnd >= c.ssthresh /\ c.type = "cuback" -> CubackInterval
      [] c.cwnd >= c.ssthresh /\ c.type = "pico"   -> c.policy.per
      [] OTHER -> 1

Use3x(c, chance) ==
    IF c.cwnd < c.ssthresh /\ c.rapid = "probing" /\ chance = "short_rtt"
    THEN [c EXCEPT !.rapid = "inactive"] ELSE c

AdditiveIncrease(c, chance) ==
    [Grown(c, chance) EXCEPT !.toIncrease = BytesPerMtuIncrease(c)]

CongestionAvoidance(c, chance) ==
    IF c.cwnd >= c.ssthresh THEN AbbaOnGrowth(AdditiveIncrease(c, chance), chance)
    ELSE AdditiveIncrease(Use3x(c, chance), chance)

Growth(c, chance) ==
    CASE c.type = "cubic" /\ c.cwnd >= c.ssthresh -> CubicOnAcked(CubicEpoch(c), chance)
      [] chance = "idle" -> CubackPrior(c)
      [] InPragueCa(c)   -> PragueGrow(CubackPrior(c), chance)
      [] OTHER           -> CongestionAvoidance(CubackPrior(c), chance)

RapidExitRecovery(c) == [c EXCEPT !.rapid = IF @ = "recovery" THEN "inactive" ELSE @]

AckPastRecovery(c, bytes, pn, inflight, next, l4s, chance) ==
    RapidExitRecovery(Growth(AbbaOnAcked(
        JumpstartExit(JumpstartAcked(PragueStart(c, l4s), bytes, pn), pn, inflight, next),
        chance), chance))

pico_on_acked(c, bytes, pn, inflight, next, l4s, chance) ==
    IF pn < c.recoveryEnd
    THEN AckInRecovery(PragueOnAcked(c, l4s, chance), bytes, pn)
    ELSE AckPastRecovery(PragueOnAcked(c, l4s, chance), bytes, pn, inflight, next, l4s, chance)

(* cc-cubic.c *)
legacy_on_acked(c, bytes, pn, inflight, next, chance) ==
    IF bytes = 0 THEN c
    ELSE IF pn < c.recoveryEnd THEN JumpstartInRecovery(JumpstartAcked(c, bytes, pn), pn)
    ELSE LET j == JumpstartExit(JumpstartAcked(c, bytes, pn), pn, inflight, next)
         IN IF j.cwnd < j.ssthresh THEN [j EXCEPT !.cwnd = Capped(@ + bytes)] ELSE Grown(j, chance)

-----------------------------------------------------------------------------
(* A packet declared lost (bytes = 1) or CE reported (bytes = 0).          *)

MetricsUpdated(c) == [c EXCEPT !.ssthresh = c.cwnd]

LostInRecovery_NotCounted(c, bytes) ==
    IF c.episodes = 1 /\ RapidActive(c)
    THEN LET r == RapidOnRecovery(c, 0, bytes)
         IN MetricsUpdated([r EXCEPT !.cwnd = AtLeast(MinCwnd, @)])
    ELSE c

LostInRecovery(c, bytes) ==
    LET u == IF bytes # 0 /\ c.undo.num # 0 THEN [c EXCEPT !.undo.num = @ + 1] ELSE c
    IN IF c.episodes = 1 /\ RapidActive(c)
       THEN LET r == RapidOnRecovery(u, 0, bytes)
            IN MetricsUpdated([r EXCEPT !.cwnd = AtLeast(MinCwnd, @)])
       ELSE u

(* Rapid Start: a loss is the first event after the first recovery. *)
CloseFirstRecovery(c, inflight, next) ==
    IF c.rapid = "recovery"
    THEN pico_on_acked(c, 0, c.recoveryEnd, inflight, next, c.prague.running, "idle")
    ELSE c

PragueReduction(c) ==
    MetricsUpdated([c EXCEPT !.abba = IF AbbaEnabled(c) THEN "watermark" ELSE @,
                             !.prague.ignore = "virtual_rtt",
                             !.cwnd = AtLeast(MinCwnd, @ \div 2),
                             !.policy.byEcn = TRUE,
                             !.undo.num = 0,
                             !.reductions = @ + 1])

(* Reno keeps no policy state, and leaves what undo.policy held. *)
SaveUndo(c, bytes, pn) ==
    IF bytes = 0 THEN [c EXCEPT !.undo.num = 0]
    ELSE [c EXCEPT !.undo = [num |-> 1, start |-> pn,
            cwnd |-> IF InJumpstart(c) THEN AtLeast(InitCwnd, c.cwnd \div 2) ELSE c.cwnd,
            ssthresh |-> c.ssthresh, toIncrease |-> c.toIncrease, abba |-> c.abba,
            policy |-> IF c.type = "reno" THEN @.policy ELSE c.policy]]

EnterRecovery(c, next) ==
    [c EXCEPT !.abba = IF AbbaEnabled(c) THEN "watermark" ELSE @,
              !.recoveryEnd = next,
              !.prague.ignore = IF c.prague.running THEN "recovery" ELSE @,
              !.episodes = @ + 1]

ExitSlowStart(c, pn) ==
    IF c.exiting # 0 THEN c
    ELSE LET j == JumpstartOnFirstLoss(c, pn, RapidActive(c))
         IN [j EXCEPT !.exiting = j.cwnd]

Bdp(c, pn) ==
    IF c.episodes # 1 THEN c.cwnd
    ELSE AtLeast(MinCwnd, CASE IsJumpstartAck(c, pn) -> c.jump.acked
                            [] ~IsJumpstartAck(c, pn) /\ RapidActive(c) -> c.cwnd \div 3
                            [] OTHER -> c.cwnd \div 2)

Beta(c, bytes) == IF c.type = "reno" THEN 50 ELSE IF bytes = 0 THEN 85 ELSE 70

Reduce_NoMinimum(c, bytes) ==
    CASE c.ssthresh = Inf /\ RapidActive(c) -> RapidOnFirstLost(c, bytes = 0)
      [] c.ssthresh = Inf /\ ~RapidActive(c) -> [c EXCEPT !.cwnd = @ \div 2]
      [] OTHER -> [c EXCEPT !.cwnd = Scale(@, Beta(c, bytes))]

Reduce(c, bytes) ==
    LET r == CASE c.ssthresh = Inf /\ RapidActive(c) -> RapidOnFirstLost(c, bytes = 0)
               [] c.ssthresh = Inf /\ ~RapidActive(c) -> [c EXCEPT !.cwnd = @ \div 2]
               [] OTHER -> [c EXCEPT !.cwnd = Scale(@, Beta(c, bytes))]
    IN [r EXCEPT !.cwnd = AtLeast(MinCwnd, @)]

(* cubic_w_max, cubic_fast_convergence_w_max *)
WMax(c) == IF c.policy.fast THEN (c.policy.prior + c.ssthresh) \div 2 ELSE c.policy.prior

(* The policy's own state; Cuback after startup waits for Rapid Start's BDP. *)
PolicyOnCongestion(c, bdp, bytes) ==
    CASE c.type = "cuback" ->
           [c EXCEPT !.policy = [@ EXCEPT
                       !.prior = IF c.episodes = 1 /\ RapidActive(c) THEN 0 ELSE bdp,
                       !.fast = c.episodes # 1 /\ bdp < WMax(c),
                       !.byEcn = bytes = 0, !.bandwidth = 1],
                     !.toIncrease = 0]
      [] c.type = "cubic" ->
           [c EXCEPT !.policy = [@ EXCEPT !.prior = bdp, !.byEcn = bytes = 0,
                       !.fast = c.policy.prior # 0 /\ bdp < WMax(c),
                       !.clock = FALSE, !.west = 0],
                     !.toIncrease = 0]
      [] c.type = "pico" -> [c EXCEPT !.policy.per = PicoInterval, !.toIncrease = PicoInterval]
      [] OTHER -> [c EXCEPT !.toIncrease = 0]

NewEpisode(c, bytes, pn) == MetricsUpdated(PolicyOnCongestion(Reduce(c, bytes), Bdp(c, pn), bytes))

(* CE while Prague runs, and CE it ignores: before the first sample, for a *)
(* virtual RTT after a reduction, until recovery has ended.                *)
IsPrague(c, bytes) == bytes = 0 /\ c.prague.running
PragueIgnores(c, early) ==
    \/ ~c.prague.sampled
    \/ c.prague.ignore = "recovery"
    \/ c.prague.ignore = "virtual_rtt" /\ early

AfterRecovery(c, bytes, pn, next) ==
    IF IsPrague(c, bytes) THEN PragueReduction(c)
    ELSE NewEpisode(ExitSlowStart(EnterRecovery(SaveUndo(c, bytes, pn), next), pn), bytes, pn)

pico_on_lost(c, bytes, pn, next, inflight, early) ==
    IF IsPrague(c, bytes) /\ PragueIgnores(c, early) THEN c
    ELSE LET e == IF IsPrague(c, bytes) THEN c ELSE UpdateEcnEpisodes(c, bytes, pn)
         IN IF pn < c.recoveryEnd THEN LostInRecovery(e, bytes)
            ELSE AfterRecovery(CloseFirstRecovery(e, inflight, next), bytes, pn, next)

(* cc-cubic.c *)
LegacyEpisode(c, pn, next) ==
    LET j == IF c.ssthresh = Inf THEN JumpstartOnFirstLoss(c, pn, FALSE) ELSE c
    IN MetricsUpdated([j EXCEPT !.recoveryEnd = next, !.episodes = @ + 1,
           !.exiting = IF @ = 0 THEN j.cwnd ELSE @,
           !.cwnd = AtLeast(MinCwnd, Scale(@, IF c.ssthresh = Inf THEN 50 ELSE 70))])

legacy_on_lost(c, bytes, pn, next) ==
    IF pn < c.recoveryEnd THEN UpdateEcnEpisodes(c, bytes, pn)
    ELSE LegacyEpisode(UpdateEcnEpisodes(c, bytes, pn), pn, next)

-----------------------------------------------------------------------------
(* An ACK for a packet that had been declared lost.                        *)

StartupUndone_StillExited(c) ==
    IF c.undo.ssthresh # Inf THEN c
    ELSE [c EXCEPT !.jump = NoJump, !.rapid = "inactive", !.prague = NoPrague]

PolicyUndone(c) ==
    CASE c.type \in {"cuback", "pico"} -> c.undo.policy
      [] c.type = "cubic" ->
           [c.undo.policy EXCEPT !.limited = c.policy.limited,
              !.clock = c.policy.limited /\ (@ \/ c.undo.policy.west # 0)]
      [] OTHER -> c.policy

StartupUndone(c) ==
    IF c.undo.ssthresh # Inf THEN c
    ELSE [c EXCEPT !.exiting = 0, !.jump = NoJump, !.rapid = "inactive", !.prague = NoPrague]

Undone_StillInRecovery(c) ==
    StartupUndone([c EXCEPT !.cwnd = c.undo.cwnd, !.ssthresh = c.undo.ssthresh,
        !.toIncrease = c.undo.toIncrease,
        !.accelEpisodes = IF AbbaEnabled(c) /\ c.abba = "fit" THEN @ - 1 ELSE @,
        !.abba = c.undo.abba, !.policy = PolicyUndone(c),
        !.episodes = @ - 1, !.undo.num = 0])

Undone(c) ==
    StartupUndone([c EXCEPT !.cwnd = c.undo.cwnd, !.ssthresh = c.undo.ssthresh,
        !.toIncrease = c.undo.toIncrease,
        !.accelEpisodes = IF AbbaEnabled(c) /\ c.abba = "fit" THEN @ - 1 ELSE @,
        !.abba = c.undo.abba, !.policy = PolicyUndone(c),
        !.recoveryEnd = 0, !.episodes = @ - 1, !.undo.num = 0])

pico_on_late_ack(pn, c) ==
    IF c.type = "legacy" \/ pn < c.undo.start \/ pn >= c.recoveryEnd \/ c.undo.num = 0 THEN c
    ELSE IF c.undo.num > 1 THEN [c EXCEPT !.undo.num = @ - 1]
    ELSE Undone(c)

(* Only reno can become another controller in the middle of congestion     *)
(* avoidance; the undo state stays what reno left.                         *)
switch_to(c, type) ==
    IF c.exiting = 0 \/ (c.type = "reno" /\ type # "cubic")
    THEN pico_init_pico_state([c EXCEPT !.type = type]) ELSE pico_reset(type)

(* cubic_on_switch of cc-cubic.c *)
switch_to_legacy(c) ==
    IF c.exiting = 0 THEN [c EXCEPT !.type = "legacy"] ELSE pico_reset("legacy")

-----------------------------------------------------------------------------
(* The connection: what calls the controller, and when.                    *)

Init ==
    /\ \E t \in Types, r \in RapidStart : cc = init_with_type(t, r)
    /\ net = [next |-> 0, out |-> {}, lost |-> {}, largest |-> -1,
              ecn |-> TRUE, marks |-> 0, tried |-> FALSE]

Send ==
    /\ net.next < MaxPn
    /\ net' = [net EXCEPT !.next = @ + 1, !.out = @ \cup {net.next}]
    /\ UNCHANGED cc

OnAcked(c, newly, largest, chance) ==
    IF c.type = "legacy"
    THEN legacy_on_acked(c, Cardinality(newly), largest, Cardinality(net.out), net.next, chance)
    ELSE pico_on_acked(c, Cardinality(newly), largest, Cardinality(net.out), net.next,
                       L4s /\ net.ecn, chance)

(* handle_ack_frame: late ACKs first, then the frame as a whole. *)
ReceiveAck(newly, late, largest, chance) ==
    /\ newly \cup late # {}
    /\ \A p \in newly \cup late : p <= largest
    /\ largest \in newly \cup late \cup {net.largest}
    /\ \E undone \in {FoldSet(pico_on_late_ack, cc, late)} :
         cc' = OnAcked(undone, newly, largest, chance)
    /\ net' = [net EXCEPT !.out = @ \ newly, !.lost = @ \ late,
                          !.largest = IF largest > @ THEN largest ELSE @]

(* on_loss_detected and on_loss_detected_by_alarm: the probe that is sent  *)
(* upon the alarm belongs to the episode.                                  *)
Lose(byAlarm) ==
    /\ net.out # {} /\ Min(net.out) < net.largest
    /\ \E p \in {Min(net.out)}, next \in {net.next + (IF byAlarm THEN 1 ELSE 0)} :
         /\ cc' = IF cc.type = "legacy" THEN legacy_on_lost(cc, 1, p, next)
                  ELSE pico_on_lost(cc, 1, p, next, Cardinality(net.out) - 1, FALSE)
         /\ net' = [net EXCEPT !.out = @ \ {p}, !.lost = @ \cup {p}]

(* notify_congestion_to_cc with the CE count of an ACK frame *)
Marked(early) ==
    /\ net.ecn /\ net.largest >= 0 /\ net.marks < MaxMarks
    /\ cc' = IF cc.type = "legacy" THEN legacy_on_lost(cc, 0, net.largest, net.next)
             ELSE pico_on_lost(cc, 0, net.largest, net.next, Cardinality(net.out), early)
    /\ net' = [net EXCEPT !.marks = @ + 1]

EcnOff ==
    /\ net.ecn
    /\ net' = [net EXCEPT !.ecn = FALSE]
    /\ UNCHANGED cc

(* do_send: jumpstart is tried once, before any loss episode. *)
EnterJumpstart(target) ==
    /\ ~net.tried /\ net.largest >= 0
    /\ cc.episodes = 0 /\ target > cc.cwnd + Cardinality(net.out)
    /\ cc' = [cc EXCEPT !.jump.enter = net.next, !.cwnd = target]
    /\ net' = [net EXCEPT !.tried = TRUE]

(* cubic_update_cc_limited *)
UpdateLimited ==
    /\ cc.type = "cubic"
    /\ cc' = [cc EXCEPT !.policy.limited = ~@,
                        !.policy.clock = ~cc.policy.limited /\ (@ \/ cc.policy.west # 0)]
    /\ UNCHANGED net

SetCc(type) ==
    /\ type # cc.type
    /\ cc' = IF type = "legacy" THEN switch_to_legacy(cc) ELSE switch_to(cc, type)
    /\ UNCHANGED net

Next ==
    \/ Send
    \/ \E newly \in SUBSET net.out, late \in SUBSET net.lost,
          largest \in 0 .. net.next - 1, chance \in Chances :
         ReceiveAck(newly, late, largest, chance)
    \/ \E b \in BOOLEAN : Lose(b)
    \/ \E b \in BOOLEAN : Marked(b)
    \/ EcnOff
    \/ \E t \in JumpCwnds : EnterJumpstart(t)
    \/ UpdateLimited
    \/ \E t \in Types : <<cc.type, t>> \in Switches /\ SetCc(t)

Spec == Init /\ [][Next]_vars

-----------------------------------------------------------------------------
(* The types of quicly_cc_t's fields; the window is never below            *)
(* QUICLY_MIN_CWND packets and never above INT32_MAX.                      *)
TypeOK ==
    /\ cc.cwnd \in MinCwnd .. MaxCwnd
    /\ cc.ssthresh \in (MinCwnd .. MaxCwnd) \cup {Inf}
    /\ cc.recoveryEnd \in 0 .. net.next + 1
    /\ cc.undo.num \in 0 .. MaxPn
    /\ cc.policy.prior \in 0 .. 3 * MaxCwnd
    /\ net.out \cap net.lost = {}

(* No assert() of cc-pico.c and cc.h can fail in the next callback, in any *)
(* order of ACKs, losses, CE, late ACKs and those switches of controller   *)
(* that Switches admits: the startup state is all there or all gone,       *)
(* Prague runs for cuback only, a curve that congestion avoidance reads    *)
(* has been defined, Rapid Start is in the phase each hook expects,        *)
(* jumpstart has a window below ssthresh.  With <<"reno", "cuback">> in    *)
(* Switches it does not hold: switch_to keeps Rapid Start's recovery going *)
(* and gives cuback a bandwidth of zero (cc-pico.c:728).                   *)
AssertionsHold ==
    /\ (cc.exiting = 0) <=> (cc.ssthresh = Inf)
    /\ (cc.exiting = 0) <=> (cc.episodes = 0)
    /\ cc.prague.running => cc.type = "cuback"
    /\ cc.type = "cuback" /\ cc.rapid = "recovery" => cc.policy.bandwidth > 0 /\ cc.policy.prior = 0
    /\ cc.type = "cubic" /\ cc.cwnd >= cc.ssthresh /\ cc.policy.west = 0
         => cc.policy.prior # 0 \/ cc.rapid = "recovery"
    /\ cc.type # "legacy" /\ cc.ssthresh = Inf => cc.rapid # "recovery"
    /\ cc.type # "legacy" /\ cc.ssthresh # Inf => cc.rapid # "probing"
    /\ InJumpstart(cc) => cc.cwnd < cc.ssthresh

(* cc.h, st_quicly_cc_t.undo: num_packets_lost counts the packets of the   *)
(* current episode that were declared lost and have not been late-ACKed,   *)
(* whatever came in between; the reduction is undone exactly when the last *)
(* of them turns up.                                                       *)
UndoCountsLost ==
    cc.undo.num # 0 =>
        cc.undo.num = Cardinality({p \in net.lost : cc.undo.start <= p /\ p < cc.recoveryEnd})

(* Loss episodes and ECN-only loss episodes are told apart although the    *)
(* first loss of an episode may come after its CE and the whole episode    *)
(* may be undone: the unsigned counters never wrap, and no episode counts  *)
(* as ECN-only while a packet of it was lost.                              *)
EpisodesCounted ==
    /\ 0 <= cc.ecnEpisodes /\ cc.ecnEpisodes <= cc.episodes
    /\ 0 <= cc.accelEpisodes /\ cc.accelEpisodes <= cc.episodes + cc.reductions
    /\ cc.byEcn => cc.ecnEpisodes > 0

(* When late ACKs undo an episode in startup the connection is back in     *)
(* slow start with at least its initial window, and a packet lost later    *)
(* ends slow start as if for the first time.                               *)
BackInStartup ==
    cc.type # "legacy" /\ cc.ssthresh = Inf =>
        /\ cc.cwnd >= InitCwnd /\ cc.recoveryEnd = 0 /\ cc.undo.num = 0
        /\ ~cc.prague.running

(* cc-pico.c: bytes_to_mtu_increase of zero "means that the value needs to *)
(* be initialized"; the growth loop of pico_on_acked never ends when the   *)
(* interval it is initialized from is zero too.                            *)
IntervalInitialised ==
    cc.cwnd >= cc.ssthresh => BytesPerMtuIncrease(cc) # 0

(* The controllers keep their books through losses, CE marks, undo and the *)
(* switches that Switches admits: their assertions hold, the growth loop   *)
(* ends, an undo waits for exactly the losses to be disproved, episodes    *)
(* are told apart, and an undone episode leaves no trace of startup's end  *)
(* (pico_on_lost, pico_on_late_ack, cc.h).                                 *)
ControllersSound ==
    /\ TypeOK /\ AssertionsHold /\ IntervalInitialised
    /\ UndoCountsLost /\ EpisodesCounted /\ BackInStartup
=============================================================================
