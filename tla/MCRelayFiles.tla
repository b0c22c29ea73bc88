---------------------------- MODULE MCRelayFiles ----------------------------
(* R2 set up by its account, key and bucket; the backend left unset.       *)
EXTENDS RelayFiles
CONSTANTS account, secret, clipboard, relay
McKeys == <<"STORAGE_BACKEND", "R2_SECRET_ACCESS_KEY", "R2_BUCKET_NAME">>
McRequired == {"R2_ACCOUNT_ID", "R2_BUCKET_NAME", "DASHBOARD_R2_BUCKET"}
McSecrets == {"R2_SECRET_ACCESS_KEY"}
McEntries == [STORAGE_BACKEND |-> {"r2", "local"}, R2_ACCOUNT_ID |-> {account},
              R2_SECRET_ACCESS_KEY |-> {secret}, R2_BUCKET_NAME |-> {clipboard, relay},
              DASHBOARD_R2_BUCKET |-> {relay}]
McBase == [STORAGE_BACKEND |-> Unset, R2_ACCOUNT_ID |-> account,
           R2_SECRET_ACCESS_KEY |-> secret, R2_BUCKET_NAME |-> relay, DASHBOARD_R2_BUCKET |-> Unset]
McDefault == [STORAGE_BACKEND |-> "r2", R2_ACCOUNT_ID |-> "YOUR_ACCOUNT_ID_HERE",
              R2_SECRET_ACCESS_KEY |-> "YOUR_SECRET_KEY_HERE", R2_BUCKET_NAME |-> clipboard,
              DASHBOARD_R2_BUCKET |-> relay]
Fresh == [k \in Keys |-> Unset]
McSaved == {Fresh, [Fresh EXCEPT !.STORAGE_BACKEND = "r2", !.R2_BUCKET_NAME = clipboard]}
=============================================================================
