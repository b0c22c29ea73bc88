---------------------------- MODULE TransferOnce ----------------------------
(* Transfer with a history of the commands that were ever triggered, for   *)
(* what RELAY_SERVER_API.md says of the whole life of a transfer.          *)
EXTENDS Transfer

VARIABLE ever     \* history: the commands triggered for each transfer so far

\* The commands this step triggers.
Triggered(id) == {commands'[id][i] : i \in DOMAIN commands'[id] \ DOMAIN commands[id]}

OnceInit == Init /\ ever = [id \in Transfers |-> {}]
OnceNext == Next /\ ever' = [id \in Transfers |-> ever[id] \cup Triggered(id)]
OnceSpec == OnceInit /\ [][OnceNext]_<<vars, ever>>

\* RELAY_SERVER_API.md, 9: 'Once upload_relay is triggered, it will not be
\* triggered again' and 'Once finish is triggered, it will not be triggered
\* again'.  The end of a file_available sets waiting_result whatever the probe,
\* the receiver or the timer decided before or while it was waking the peer.
NotTriggeredAgain ==
  [][\A id \in Transfers : Triggered(id) \cap ever[id] = {}]_<<vars, ever>>
=============================================================================
