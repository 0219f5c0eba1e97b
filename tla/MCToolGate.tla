----------------------------- MODULE MCToolGate -----------------------------
(* Two channels and three tools: play_media needs two legs and has a rate *)
(* limit through "*", set_timer has its own limit, web_search is denied to *)
(* Telegram although Telegram's allowlist is "*".                          *)
EXTENDS ToolGateSystem, TLC

MCOrigins == {"api", "telegram"}
MCTools   == {"play_media", "set_timer", "web_search"}
MCAllowed == ("*" :> {"*"}) @@ ("api" :> {"play_media", "set_timer"})
MCDenied  == "telegram" :> {"web_search"}
MCLimits  == ("set_timer" :> 2) @@ ("*" :> 1)
MCConfirm == {"play_media"}
=============================================================================
