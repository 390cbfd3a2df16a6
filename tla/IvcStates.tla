----------------------------- MODULE IvcStates ------------------------------
(***************************************************************************)
(* The reset protocol of libtx2bpmp/ivc.c: the states of an end, and what  *)
(* tegra_ivc_channel_notified does for each pair of them.                  *)
(***************************************************************************)
Ends == {"cpu", "peer"}
Peer(e) == IF e = "cpu" THEN "peer" ELSE "cpu"

States == {"established", "sync", "ack"}

\* Mutant: an end in ack that meets another only answers it.
MutReactionStuck(local, remote) ==
    CASE remote = "sync"                          -> <<"clearW", "ack">>
      [] local = "sync" /\ remote = "ack"         -> <<"clearW", "established">>
      [] local = "ack" /\ remote = "ack"          -> <<"set", "ack">>
      [] local = "ack" /\ remote = "established"  -> <<"set", "established">>
      [] OTHER                                    -> <<"idle", local>>

\* The first step and the new state, for a local and a remote state
Reaction(local, remote) ==
    CASE remote = "sync"                  -> <<"clearW", "ack">>
      [] local = "sync" /\ remote = "ack" -> <<"clearW", "established">>
      [] local = "ack" /\ remote # "sync" -> <<"set", "established">>
      [] OTHER                            -> <<"idle", local>>
=============================================================================
