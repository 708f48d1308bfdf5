------------------------------- MODULE MCFlow -------------------------------
(* RecvState, StreamLimits and DataCredit for TLC, one at a time: what a     *)
(* stream receives, how many streams there may be, and the credit that they  *)
(* share.                                                                    *)
EXTENDS RecvState, TLC

CONSTANTS Streams, MaxCopies

VARIABLES
  part,   \* the component that takes steps: "receive", "limits" or "credit"
  l_set, l_a, l_b, l_net, l_arrived,
  d_set, d_s, d_r, d_net, d_arrived

\* streams wait and are admitted one by one; and a window so wide that MAX_STREAMS
\* is held back until it is nearly used up
LimitSettings ==
  {[concurrency |-> 1, remembered |-> 0, opened |-> 3, inflight |-> 2],
   [concurrency |-> 5, remembered |-> 5, opened |-> 4, inflight |-> 1]}

\* two streams that share the connection's window, and one whose window the
\* application lowers
CreditSettings ==
  {[max_stream_data |-> 1, max_data |-> 2, low |-> {}, bytes |-> 3,
    streams |-> 2],
   [max_stream_data |-> 2, max_data |-> 2, low |-> {1}, bytes |-> 2,
    streams |-> 1]}

Limits == INSTANCE StreamLimits WITH Settings <- LimitSettings,
            set <- l_set, a <- l_a, b <- l_b, net <- l_net, arrived <- l_arrived
Shared == INSTANCE DataCredit WITH Settings <- CreditSettings,
            set <- d_set, s <- d_s, r <- d_r, net <- d_net, arrived <- d_arrived

ASSUME Limits!SettingsAssumption /\ Shared!SettingsAssumption /\ Shared!NamesAssumption

limits == <<l_set, l_a, l_b, l_net, l_arrived>>
shared == <<d_set, d_s, d_r, d_net, d_arrived>>

AllVars == <<part, vars, limits, shared>>
AllInit ==
  /\ part \in {"receive", "limits", "credit"}
  /\ Init /\ (part # "receive" => send_complete)
  /\ IF part = "limits" THEN Limits!Init
     ELSE l_set = 0 /\ l_a = 0 /\ l_b = 0 /\ l_net = 0 /\ l_arrived = 0
  /\ IF part = "credit" THEN Shared!Init
     ELSE d_set = 0 /\ d_s = 0 /\ d_r = 0 /\ d_net = 0 /\ d_arrived = 0
AllNext ==
  \/ part = "receive" /\ Next /\ UNCHANGED <<part, limits, shared>>
  \/ part = "limits" /\ Limits!Next /\ UNCHANGED <<part, vars, shared>>
  \/ part = "credit" /\ Shared!Next /\ UNCHANGED <<part, vars, limits>>
AllSpec == AllInit /\ [][AllNext]_AllVars

\* the streams are alike
Alike == Permutations(Streams)

-----------------------------------------------------------------------------
(* Properties: CreditKept, EndToldOnce and NeverTakenBack of RecvState, and  *)
(* these.                                                                    *)

\* No stream is stranded: one that its limits let send is linked, once, or its
\* data is under way, and those that wait for MAX_STREAMS are exactly the ones
\* beyond the limit (resched_stream_data, sched_stream_control,
\* open_blocked_streams, the default scheduler).
NothingStranded ==
  /\ part = "limits" => Limits!WaitBeyondLimit /\ Limits!OpenedIsUnderway
  /\ part = "credit" => Shared!SchedulerComplete

\* Limits, and complaints about them, get through whatever is lost or acknowledged
\* late: neither side sits on what the other waits for (on_ack_max_streams,
\* on_ack_max_data, on_ack_data_blocked, should_send_max_streams,
\* release_ingress_credit).
LimitsGetThrough ==
  /\ part = "limits" => Limits!LimitUnderway /\ Limits!SignalsPending
  /\ part = "credit" =>
       Shared!LimitUnderway /\ Shared!BlockedIsSaid /\ Shared!CreditAnnounced

\* Limits are neither exceeded nor invented: streams are counted after a failing
\* stream_open too, credit is that of the windows, lowered ones included
\* (quicly_get_or_open_stream, send_max_streams, quicly_maxsender_record).
LimitsSound ==
  /\ part = "limits" => Limits!TypeOK /\ Limits!StreamsCounted
  /\ part = "credit" =>
       Shared!TypeOK /\ Shared!CreditSound /\ Shared!CountersAgree
=============================================================================
