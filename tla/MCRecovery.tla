----------------------------- MODULE MCRecovery -----------------------------
(* Small instances of Recovery for TLC.                                    *)
EXTENDS Recovery

AllCommands == {{"wipe_data", "send_intent"}, {"wipe_cache"},
                {"update_package"}, {"secfs_on"}, {"secfs_off"},
                {"secfs_bad"}, {"send_intent"}}
Reset == {{"wipe_data"}}
Secure == {{"secfs_on"}}
Healthy == {[v \in Volume |-> "ok"]}
DamagedData == {[v \in Volume |-> IF v = "data" THEN "broken" ELSE "ok"]}
AnyFs == [Volume -> {"ok", "broken"}]
=============================================================================
