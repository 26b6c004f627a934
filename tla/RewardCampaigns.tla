---------------------------- MODULE RewardCampaigns ----------------------------
(***************************************************************************)
(* Gift campaigns of the back office: sent at once or scheduled, claimed   *)
(* by the cron of one of the backends, distributed as one reward per       *)
(* customer, leaving out those who had a gift within the cooldown.         *)
(***************************************************************************)
EXTENDS Naturals, FiniteSets

CONSTANTS
    Campaign,
    Target,        \* customers each campaign aims at
    Uncapped,      \* campaigns that ignore the capping
    Customer,
    Cron,          \* the cron of each backend
    Desk,          \* the request that creates a campaign sent at once
    NoCampaign

VARIABLES
    camp,          \* status of each campaign
    given,         \* given[c][u]: rewards of campaign c customer u received
    recent,        \* customers with a campaign reward within the cooldown
    seen,          \* campaigns each cron has read as due
    kh             \* the distribution each process is in

kvars == <<camp, given, recent, seen, kh>>

Process == Cron \union {Desk}
KIdle == [pc |-> "idle", c |-> NoCampaign]

KInit ==
    /\ camp = [c \in Campaign |-> "none"]
    /\ given = [c \in Campaign |-> [u \in Customer |-> 0]]
    /\ recent = {}
    /\ seen = [p \in Cron |-> {}]
    /\ kh = [p \in Process |-> KIdle]

-----------------------------------------------------------------------------
createCampaign(c) ==
    /\ camp[c] = "none"
    /\ \/ camp' = [camp EXCEPT ![c] = "scheduled"] /\ UNCHANGED kh
       \/ /\ kh[Desk] = KIdle
          /\ camp' = [camp EXCEPT ![c] = "sending"]
          /\ kh' = [kh EXCEPT ![Desk] = [pc |-> "cap", c |-> c]]
    /\ UNCHANGED <<given, recent, seen>>

cancelCampaign(c) ==
    /\ camp[c] = "scheduled"
    /\ camp' = [camp EXCEPT ![c] = "cancelled"]
    /\ UNCHANGED <<given, recent, seen, kh>>

(* The cron reads what is due, then claims one campaign after the other.   *)
processScheduledCampaigns(p) ==
    /\ kh[p] = KIdle /\ seen[p] = {}
    /\ \E due \in (SUBSET {c \in Campaign : camp[c] = "scheduled"}) \ {{}} : seen' = [seen EXCEPT ![p] = due]
    /\ UNCHANGED <<camp, given, recent, kh>>

(* Mutant: the campaign read as due is taken without a condition.          *)
ClaimSeen(p, c) ==
    /\ kh[p] = KIdle /\ c \in seen[p]
    /\ seen' = [seen EXCEPT ![p] = @ \ {c}]
    /\ camp' = [camp EXCEPT ![c] = "sending"]
    /\ kh' = [kh EXCEPT ![p] = [pc |-> "cap", c |-> c]]
    /\ UNCHANGED <<given, recent>>

ClaimCampaign(p, c) ==
    /\ kh[p] = KIdle /\ c \in seen[p]
    /\ seen' = [seen EXCEPT ![p] = @ \ {c}]
    /\ IF camp[c] = "scheduled"
       THEN /\ camp' = [camp EXCEPT ![c] = "sending"]
            /\ kh' = [kh EXCEPT ![p] = [pc |-> "cap", c |-> c]]
       ELSE UNCHANGED <<camp, kh>>
    /\ UNCHANGED <<given, recent>>

-----------------------------------------------------------------------------
(* dispatch.                                                               *)

applyCapping(p) ==
    LET c == kh[p].c IN
    /\ kh[p].pc = "cap"
    /\ kh' = [kh EXCEPT ![p] =
          [pc |-> "give", c |-> c, to |-> IF c \in Uncapped THEN Target[c] ELSE Target[c] \ recent]]
    /\ UNCHANGED <<camp, given, recent, seen>>

GiveRewards(p) ==
    LET h == kh[p] IN
    /\ h.pc = "give"
    /\ given' = [given EXCEPT ![h.c] = [u \in Customer |-> IF u \in h.to THEN @[u] + 1 ELSE @[u]]]
    /\ recent' = recent \union h.to
    /\ kh' = [kh EXCEPT ![p] = [pc |-> "close", c |-> h.c]]
    /\ UNCHANGED <<camp, seen>>

CloseCampaign(p) ==
    /\ kh[p].pc = "close"
    /\ camp' = [camp EXCEPT ![kh[p].c] = "sent"]
    /\ kh' = [kh EXCEPT ![p] = KIdle]
    /\ UNCHANGED <<given, recent, seen>>

(* An error: the cron marks the campaign failed, the request leaves it as  *)
(* it is; so does a backend that stops.                                    *)
DispatchFails(p) ==
    /\ kh[p] # KIdle
    /\ \/ UNCHANGED camp
       \/ p \in Cron /\ camp' = [camp EXCEPT ![kh[p].c] = "failed"]
    /\ kh' = [kh EXCEPT ![p] = KIdle]
    /\ UNCHANGED <<given, recent, seen>>

CooldownEnds(u) ==
    /\ u \in recent
    /\ recent' = recent \ {u}
    /\ UNCHANGED <<camp, given, seen, kh>>

-----------------------------------------------------------------------------
KNext ==
    \/ \E c \in Campaign : createCampaign(c) \/ cancelCampaign(c)
    \/ \E p \in Cron : processScheduledCampaigns(p) \/ \E c \in Campaign : ClaimCampaign(p, c)
    \/ \E p \in Process :
          applyCapping(p) \/ GiveRewards(p) \/ CloseCampaign(p) \/ DispatchFails(p)
    \/ \E u \in Customer : CooldownEnds(u)

KSpec == KInit /\ [][KNext]_kvars

-----------------------------------------------------------------------------
(* Properties.                                                             *)

(* Types of the variables; only one process distributes a campaign.        *)
KTypeOK ==
    /\ \A c \in Campaign : camp[c] \in {"none", "scheduled", "sending", "sent", "cancelled", "failed"}
    /\ \A p, q \in Process : (p # q /\ kh[p].c = kh[q].c) => kh[p] = KIdle
    /\ \A p \in Process : kh[p] # KIdle => camp[kh[p].c] = "sending"

(* A customer gets a campaign once, though two backends read it as due and *)
(* a distribution may fail half way.                                       *)
DistributedOnce == \A c \in Campaign, u \in Customer : given[c][u] <= 1

(* A campaign that is sent reached every customer it aims at, except those *)
(* that another campaign had reached; a cancelled one reached nobody.      *)
SentIsComplete ==
    \A c \in Campaign : \A u \in Target[c] :
        /\ camp[c] = "cancelled" => given[c][u] = 0
        /\ (camp[c] = "sent" /\ given[c][u] = 0) =>
               c \notin Uncapped /\ \E d \in Campaign : d # c /\ given[d][u] > 0
=============================================================================
