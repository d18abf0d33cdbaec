---------------------------- MODULE MCCollector ----------------------------
(***************************************************************************)
(* The collector's supervisor, a queue tracker and the normalized channel,  *)
(* which share nothing.  A behaviour exercises one of six parts: the        *)
(* admission of sources; the health of one source while another one shares  *)
(* the queue of quality events; the ledger of one source across renewals    *)
(* and readmissions; one queue; one channel with two producers that need    *)
(* every output delivered; one whose lossy outputs are sampled.             *)
(***************************************************************************)
EXTENDS CollectorSupervisor, QueueTracker, NormalizedChannel

CONSTANTS s1, s2    \* sources

VARIABLE part

vars == <<supervisorVars, part, queueVars, channelVars>>

MCSources == {s1, s2}
MCPolicies == {[tier |-> "A", instruments |-> 1], [tier |-> "A", instruments |-> 2],
               [tier |-> "B", instruments |-> 1]}
MCLimit == [t \in {"A", "B"} |-> IF t = "A" THEN 2 ELSE 1]

PolicyOf == [s \in Sources |-> IF s = s1 THEN [tier |-> "A", instruments |-> 2]
                                         ELSE [tier |-> "B", instruments |-> 1]]

AdmitOrRemove(s) ==
    (\E e \in StartEpochs : admit_with_epoch(s, PolicyOf[s], e)) \/ remove(s)

Output(kind, bytes, mode) == [kind |-> kind, bytes |-> bytes, mode |-> mode]

(* One producer with every kind of book output, from one byte to more than the lane holds, and
   one that competes for the same lane and uses the other. *)
SplitOffer ==
    [p \in {"p", "q"} |->
        IF p = "p"
        THEN {Output("definition", 1, "try"), Output("snapshot", 1, "send"),
              Output("delta", 1, "try"), Output("delta", 3, "send")}
        ELSE {Output("definition", 2, "send"), Output("status", 1, "send"),
              Output("status", 1, "lossy")}]

MCInit ==
    /\ Init
    /\ QueueInit
    /\ ChannelInit
    /\ part \in {"admission", "health", "ledger", "queue", "channel", "sampled"}
    /\ part # "queue" => class = "RawWal"

HealthPart ==
    \/ AdmitOrRemove(s1)
    \/ HealthOf(s1)
    \/ s2 \notin Admitted /\ AdmitOrRemove(s2)
    \/ mark_healthy(s2, 1)
    \/ pop_quality_event

LedgerPart ==
    \/ AdmitOrRemove(s1)
    \/ LedgerOf(s1)
    \/ renew_connection(s1)
    \/ \E t \in Times : mark_healthy(s1, t)

Lossy(p) == task[p].pc # "idle" /\ task[p].mode = "lossy"

ChannelPart ==
    /\ ChannelNext
    /\ \/ part = "channel" /\ \A p \in Producers : ~Lossy(p)'
       \/ part = "sampled" /\ task'["p"] = Idle

MCNext ==
    /\ UNCHANGED part
    /\ \/ /\ UNCHANGED <<queueVars, channelVars>>
          /\ \/ part = "admission" /\ Admission
             \/ part = "health" /\ HealthPart
             \/ part = "ledger" /\ LedgerPart
       \/ part = "queue" /\ QueueNext /\ UNCHANGED <<supervisorVars, channelVars>>
       \/ ChannelPart /\ UNCHANGED <<supervisorVars, queueVars>>

(* The channel's fairness asks nothing of the other parts, where its actions are not enabled. *)
Scheduled(A) == part \in {"channel", "sampled"} /\ A /\ UNCHANGED <<part, supervisorVars, queueVars>>

MCSpec ==
    /\ MCInit /\ [][MCNext]_vars
    /\ WF_vars(Scheduled(recv))
    /\ \A p \in Producers : WF_vars(Scheduled(Continue(p)))

-----------------------------------------------------------------------------
(* The supervisor, the queue tracker and the channel keep to their types and capacities. *)
TypeOK == SupervisorTypeOK /\ QueueTypeOK /\ ChannelTypeOK
=============================================================================
